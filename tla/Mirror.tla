------------------------------- MODULE Mirror -------------------------------
(***************************************************************************)
(* The decisions mirror of one source: Poller._pull_source, the full pull  *)
(* (_bootstrap), the delta pull (_stream_apply), and what happens to the   *)
(* source and its rows meanwhile.                                          *)
(*                                                                         *)
(* Sources share no row (origin_source is part of every key and WHERE), so *)
(* one is enough.  Every SQL statement commits on its own (get_conn opens  *)
(* autocommit connections), so each is a step.  A source named 'local' can *)
(* have its connection settings changed; any other can be removed and      *)
(* added again: a plan of events says which of the two it is.              *)
(***************************************************************************)
EXTENDS Integers, FiniteSets

CONSTANTS
    Key,        \* decision identities: (value, scope, scenario)
    MaxBan,     \* bound: decisions the LAPI hands out
    Plans       \* bound: how often each kind of Event may happen in a behaviour

\* lapi: a pull gets an LAPIError.  reply: a delta is lost on its way.
\* db: a statement raises.  switch: connection settings are saved.
\* readd: the source is removed and added again.
Event == {"lapi", "reply", "db", "switch", "restart", "readd", "pause", "unban"}

ASSUME MaxAssumption == IsFiniteSet(Key) /\ MaxBan \in Nat /\ Plans \subseteq [Event -> Nat]

VARIABLES
    active,     \* decisions the LAPI considers active
    nextBan,    \* the id of its next decision
    cursor,     \* what its stream holds for our key: see CursorState
    mirror,     \* the rows of `decisions`: newest lapi_id, and deleted_at IS NULL
    source,     \* the row of `sources`
    backoff,    \* minutes the source still waits, 0 when backoff_until is past
    boot,       \* _bootstrap_done
    streak,     \* _fail_streak
    prevOk,     \* _prev_lapi_ok
    told,       \* what the last source notification said
    env,        \* progress of a save of the connection settings
    lost,       \* part of an answer never became rows, and no full pull is due
    pull,       \* the locals of the pull under way
    used        \* events so far, and how many there may be

lapi   == <<active, nextBan, cursor>>
memory == <<boot, streak, prevOk>>
vars   == <<lapi, mirror, source, backoff, memory, told, env, lost, pull, used>>

-----------------------------------------------------------------------------
Decision == [id : Nat, key : Key]

KeysOf(S) == {d.key : d \in S}

\* started: some stream call was made with this key, so ends are reported.
CursorState == [started : BOOLEAN, new : SUBSET Nat, gone : SUBSET Nat]
NoCursor(S) == [started |-> FALSE, new |-> {d.id : d \in S}, gone |-> {}]

Row   == [lapi : Nat, live : BOOLEAN]
NoRow == [lapi |-> 0, live |-> FALSE]

Idle == [pc |-> "idle", mode |-> "none", todo |-> {}, seen |-> {}, keys |-> {}, ids |-> {}]

PullState ==
    [pc : {"idle", "synced", "upsert", "select", "drop"}, mode : {"none", "boot", "stream"},
     todo : SUBSET Decision, seen : SUBSET Key, keys : SUBSET Key, ids : SUBSET Nat]

TypeOK ==
    /\ active \in SUBSET Decision /\ nextBan \in Nat /\ cursor \in CursorState
    /\ mirror \in [Key -> Row]
    /\ source \in {"on", "paused", "absent"}
    /\ backoff \in 0..30 /\ boot \in BOOLEAN /\ streak \in Nat /\ prevOk \in BOOLEAN
    /\ told \in {"up", "down"} /\ env \in {"same", "saving", "changed"}
    /\ lost \in BOOLEAN /\ pull \in PullState
    /\ used \in [so : [Event -> Nat], max : Plans]

Spend(e) == used.so[e] < used.max[e] /\ used' = [used EXCEPT !.so[e] = @ + 1]

-----------------------------------------------------------------------------
(* The LAPI: the stream's cursor is kept per API key, moves with every      *)
(* stream call, and only then; the first call gets everything active and    *)
(* no ends (SKILL.md).  Ids grow, every re-ban has a fresh one, and a       *)
(* re-ban outlives the decision it renews.                                  *)

Ban(k) ==
    /\ nextBan <= MaxBan
    /\ active' = active \cup {[id |-> nextBan, key |-> k]}
    /\ nextBan' = nextBan + 1
    /\ cursor' = [cursor EXCEPT !.new = @ \cup {nextBan}]
    /\ UNCHANGED <<mirror, source, backoff, memory, told, env, lost, pull, used>>

\* The first stream call of a key reports no ends: what a full pull has
\* fetched and what ends before that call stays unknown.
Unreported(d) ==
    /\ ~cursor.started
    /\ boot \/ pull.mode = "boot"
    /\ d.key \notin KeysOf(active \ {d})

Ends(d) ==
    /\ \A e \in active : e.key = d.key => d.id <= e.id
    /\ active' = active \ {d}
    /\ cursor' = [cursor EXCEPT !.new = @ \ {d.id},
                                !.gone = IF cursor.started THEN @ \cup {d.id} ELSE @]
    /\ lost' = (lost \/ Unreported(d))
    /\ UNCHANGED <<nextBan, mirror, source, backoff, memory, told, env, pull, used>>

-----------------------------------------------------------------------------
(* A cycle *)

\* tick() starts with _sync_connection: once the new .env is in place the
\* local source starts over.
TickSync ==
    /\ pull.pc = "idle"
    /\ pull' = [Idle EXCEPT !.pc = "synced"]
    /\ IF env = "changed"
       THEN /\ boot' = FALSE /\ streak' = 0 /\ prevOk' = TRUE
            /\ env' = "same" /\ lost' = FALSE
       ELSE UNCHANGED <<env, memory, lost>>
    /\ UNCHANGED <<lapi, mirror, source, backoff, told, used>>

Pullable == pull.pc = "synced" /\ source = "on" /\ backoff = 0

TickSkip ==
    /\ pull.pc = "synced"
    /\ source # "on" \/ backoff > 0
    /\ pull' = Idle
    /\ UNCHANGED <<lapi, mirror, source, backoff, memory, told, env, lost, used>>

\* _bootstrap: the whole active set.
FetchAll ==
    /\ Pullable /\ ~boot
    /\ pull' = [Idle EXCEPT !.pc = "upsert", !.mode = "boot",
                            !.todo = active, !.seen = KeysOf(active)]
    /\ UNCHANGED <<lapi, mirror, source, backoff, memory, told, env, lost, used>>

\* The LAPI answers a stream call and moves the cursor.
StreamServed == cursor' = [started |-> TRUE, new |-> {}, gone |-> {}]

\* _stream_apply: what changed since the last stream call.  seen is not a
\* local here: it records what was active when the delta was made.
FetchDelta ==
    /\ Pullable /\ boot
    /\ StreamServed
    /\ pull' = [Idle EXCEPT !.pc = "upsert", !.mode = "stream",
                            !.todo = {d \in active : d.id \in cursor.new},
                            !.ids = cursor.gone, !.seen = KeysOf(active)]
    /\ UNCHANGED <<active, nextBan, mirror, source, backoff, memory, told, env, lost, used>>

\* Mutant: no upper limit.
BackoffUncapped(n) == 2 ^ (n - 1)

\* min(30, 2 ** max(0, streak - 1))
BackoffMinutes(n) == IF n > 5 THEN 30 ELSE <<1, 2, 4, 8, 16>>[n]

\* The except LAPIError branch.
PullFailed ==
    /\ streak' = streak + 1
    /\ backoff' = BackoffMinutes(streak + 1)
    /\ told' = IF prevOk THEN "down" ELSE told
    /\ prevOk' = FALSE
    /\ pull' = Idle
    /\ UNCHANGED <<active, nextBan, mirror, source, boot, env>>

FetchFails == Pullable /\ Spend("lapi") /\ PullFailed /\ UNCHANGED <<cursor, lost>>

\* The LAPI answered, but the client timed out.
ReplyLost ==
    /\ Pullable /\ boot
    /\ Spend("reply")
    /\ PullFailed
    /\ StreamServed
    /\ lost' = TRUE

\* Mutant: the conflict clause does not refresh lapi_id.
UpsertKeepsId(k, id) ==
    mirror' = [mirror EXCEPT ![k] = [lapi |-> IF @ = NoRow THEN id ELSE @.lapi, live |-> TRUE]]

Upsert(k, id) == mirror' = [mirror EXCEPT ![k] = [lapi |-> id, live |-> TRUE]]

Tombstone(k) == mirror' = [mirror EXCEPT ![k].live = FALSE]

\* Decisions come in the order of their ids.
UpsertNext ==
    /\ pull.pc = "upsert"
    /\ \E d \in pull.todo :
          /\ \A e \in pull.todo : d.id <= e.id
          /\ Upsert(d.key, d.id)
          /\ pull' = [pull EXCEPT !.todo = @ \ {d}]
    /\ UNCHANGED <<lapi, source, backoff, memory, told, env, lost, used>>

UpsertsDone ==
    /\ pull.pc = "upsert" /\ pull.todo = {}
    /\ pull' = [pull EXCEPT !.pc = IF pull.mode = "boot" THEN "select" ELSE "drop"]
    /\ UNCHANGED <<lapi, mirror, source, backoff, memory, told, env, lost, used>>

\* The full pull's SELECT of the live rows it did not see.
SelectUnseen ==
    /\ pull.pc = "select"
    /\ pull' = [pull EXCEPT !.pc = "drop", !.keys = {k \in Key : mirror[k].live} \ pull.seen]
    /\ UNCHANGED <<lapi, mirror, source, backoff, memory, told, env, lost, used>>

DropUnseen ==
    /\ pull.pc = "drop"
    /\ \E k \in pull.keys : Tombstone(k) /\ pull' = [pull EXCEPT !.keys = @ \ {k}]
    /\ UNCHANGED <<lapi, source, backoff, memory, told, env, lost, used>>

\* The WHERE of the delta's tombstones.
RowsOf(i) == {k \in Key : mirror[k].live /\ mirror[k].lapi = i}

DropGone ==
    /\ pull.pc = "drop"
    /\ \E i \in pull.ids :
          /\ mirror' = [k \in Key |-> IF k \in RowsOf(i) THEN [mirror[k] EXCEPT !.live = FALSE]
                                                         ELSE mirror[k]]
          /\ pull' = [pull EXCEPT !.ids = @ \ {i}]
    /\ UNCHANGED <<lapi, source, backoff, memory, told, env, lost, used>>

Dropped == pull.pc = "drop" /\ pull.keys = {} /\ pull.ids = {}

\* Mutant: _prev_lapi_ok is set before it is looked at.
PullDoneSilent ==
    /\ Dropped
    /\ boot' = TRUE /\ streak' = 0 /\ prevOk' = TRUE /\ backoff' = 0
    /\ UNCHANGED told
    /\ pull' = Idle
    /\ UNCHANGED <<lapi, mirror, source, env, lost, used>>

PullDone ==
    /\ Dropped
    /\ boot' = TRUE /\ streak' = 0 /\ prevOk' = TRUE /\ backoff' = 0
    /\ told' = IF prevOk THEN told ELSE "up"
    /\ pull' = Idle
    /\ UNCHANGED <<lapi, mirror, source, env, lost, used>>

\* The except Exception branch: a statement raised ("database is locked", a
\* full disk).  Neither the flag nor the backoff changes.  Raised by
\* record_pull, after the last row, it finds the pull booked as complete.
WriteFails ==
    /\ pull.pc \in {"upsert", "select", "drop"}
    /\ Spend("db")
    /\ boot' = (boot \/ Dropped)
    /\ pull' = Idle
    /\ lost' = (lost \/ (pull.mode = "stream" /\ ~Dropped))
    /\ UNCHANGED <<lapi, mirror, source, backoff, streak, prevOk, told, env>>

BackoffEnds ==
    /\ backoff > 0
    /\ backoff' = 0
    /\ UNCHANGED <<lapi, mirror, source, memory, told, env, lost, pull, used>>

-----------------------------------------------------------------------------
(* The web process and the operator *)

\* Pause and resume; disable and enable do the same to the pulls.
SetPaused(paused) ==
    /\ source = (IF paused THEN "on" ELSE "paused")
    /\ source' = IF paused THEN "paused" ELSE "on"
    /\ IF paused THEN Spend("pause") ELSE UNCHANGED used
    /\ UNCHANGED <<lapi, mirror, backoff, memory, told, env, lost, pull>>

\* connection.save: the row of 'local' is switched to the new LAPI first
\* (reseed_local_source), then .env is swapped in.
SwitchRow(S) ==
    /\ Spend("switch")
    /\ env = "same"
    /\ env' = "saving"
    /\ active' = S /\ nextBan' = Cardinality(S) + 1 /\ cursor' = NoCursor(S)
    /\ backoff' = 0
    /\ UNCHANGED <<mirror, source, memory, told, lost, pull>>

SwitchFile ==
    /\ env = "saving"
    /\ env' = "changed"
    /\ UNCHANGED <<lapi, mirror, source, backoff, memory, told, lost, pull, used>>

\* What another LAPI may hold: one decision for some keys, under ids of its own.
OtherLapi ==
    {S \in SUBSET [id : 1..Cardinality(Key), key : Key] :
        /\ \A d, e \in S : d.id = e.id \/ d.key = e.key => d = e
        /\ \A d \in S : d.id <= Cardinality(S)}

\* delete_source and add_source under the old name, the way a key is rotated:
\* the new key has no cursor, and the poller's memory is keyed by name.
RemoveSource ==
    /\ Spend("readd")
    /\ source # "absent"
    /\ source' = "absent"
    /\ UNCHANGED <<lapi, mirror, backoff, memory, told, env, lost, pull>>

AddSource ==
    /\ source = "absent"
    /\ source' = "on"
    /\ cursor' = NoCursor(active)
    /\ backoff' = 0
    /\ lost' = (lost \/ boot \/ pull.mode = "boot")
    /\ UNCHANGED <<active, nextBan, mirror, memory, told, env, pull, used>>

\* /decisions/bulk delete and DELETE /api/v1/decisions/by-ip.
Unban(k) ==
    /\ Spend("unban")
    /\ mirror[k].live
    /\ Tombstone(k)
    /\ UNCHANGED <<lapi, source, backoff, memory, told, env, lost, pull>>

\* retention.prune deletes tombstones.
Prune(k) ==
    /\ mirror[k] # NoRow /\ ~mirror[k].live
    /\ mirror' = [mirror EXCEPT ![k] = NoRow]
    /\ UNCHANGED <<lapi, source, backoff, memory, told, env, lost, pull, used>>

\* Mutant: bootstrap_done survives the process.
RestartKeepsFlag ==
    /\ Spend("restart")
    /\ boot' = boot /\ streak' = 0 /\ prevOk' = TRUE
    /\ pull' = Idle
    /\ env' = "same" /\ lost' = FALSE
    /\ UNCHANGED <<lapi, mirror, source, backoff, told>>

\* A new process starts with an empty memory; its first look at .env is a
\* baseline.
Restart ==
    /\ Spend("restart")
    /\ boot' = FALSE /\ streak' = 0 /\ prevOk' = TRUE
    /\ pull' = Idle
    /\ env' = "same" /\ lost' = FALSE
    /\ UNCHANGED <<lapi, mirror, source, backoff, told>>

-----------------------------------------------------------------------------
Init ==
    /\ active = {} /\ nextBan = 1
    /\ \E started \in BOOLEAN : cursor = [NoCursor({}) EXCEPT !.started = started]
    /\ mirror = [k \in Key |-> NoRow]
    /\ source = "on" /\ backoff = 0
    /\ boot = FALSE /\ streak = 0 /\ prevOk = TRUE /\ told = "up"
    /\ env = "same" /\ lost = FALSE /\ pull = Idle
    /\ \E max \in Plans : used = [so |-> [e \in Event |-> 0], max |-> max]

Cycle ==
    \/ TickSync \/ TickSkip
    \/ FetchAll \/ FetchDelta
    \/ UpsertNext \/ UpsertsDone \/ SelectUnseen \/ DropUnseen \/ DropGone
    \/ PullDone

Faults == FetchFails \/ ReplyLost \/ WriteFails \/ Restart

Admin ==
    \/ \E paused \in BOOLEAN : SetPaused(paused)
    \/ \E S \in OtherLapi : SwitchRow(S)
    \/ SwitchFile
    \/ RemoveSource \/ AddSource
    \/ \E k \in Key : Unban(k) \/ Prune(k)

Lapi == (\E k \in Key : Ban(k)) \/ (\E d \in active : Ends(d))

Next == Cycle \/ Faults \/ BackoffEnds \/ Admin \/ Lapi

Spec == Init /\ [][Next]_vars

\* The poller loops for ever, a backoff is an instant in the future, and a
\* save runs to its end.
FairSpec == Spec /\ WF_vars(Cycle) /\ WF_vars(BackoffEnds) /\ WF_vars(SwitchFile)

-----------------------------------------------------------------------------
(* Properties *)

Live == {k \in Key : mirror[k].live}

\* Unless an earlier answer was lost, a pull tombstones a live row only if
\* the LAPI had no active decision of that identity when it answered: not for
\* the end of a superseded decision, not because an answer was applied in the
\* wrong order, not across a restart in the middle of a pull
\* (test_poller_upsert: a stale delete must not tombstone the current row).
TombstonedOnlyIfGone ==
    [][\A k \in Key : mirror[k].live /\ ~mirror'[k].live /\ used'.so.unban = used.so.unban
          => lost \/ k \notin pull.seen]_vars

Settled == source = "on" /\ ~lost

\* No ban outlives its decision for ever: through failed pulls, pauses,
\* crashes in the middle of a pull, a change of LAPI and local unbans, a
\* source that is on ends up with live rows only for what its LAPI has.
\* And it has all of it, unless the operator unbanned something locally.
MirrorSettles ==
    /\ <>[](Settled => Live \subseteq KeysOf(active))
    /\ <>[](Settled /\ used.so.unban = 0 => KeysOf(active) \subseteq Live)

\* A source announced as down is announced as recovered once it is, if its
\* poller lives on and its connection settings stay the same.
RecoveryTold ==
    <>[](source = "on" /\ used.so.restart + used.so.switch = 0 => told = "up")
=============================================================================
