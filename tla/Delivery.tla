------------------------------ MODULE Delivery ------------------------------
(***************************************************************************)
(* What siem.ship starts: an event is journalled and queued for the SIEM   *)
(* forwarders, then queued for the webhook subscribers (siem.py,           *)
(* webhooks_out.py, and the token bucket of ratelimit.py).                 *)
(*                                                                         *)
(* One process, its two worker threads and an operator who edits the       *)
(* subscriptions and replays dead letters.  The queues and the bucket are  *)
(* in memory; the journal, the subscriptions and the dead letters are      *)
(* tables.  Events are numbered in the order they happen.                  *)
(***************************************************************************)
EXTENDS Integers, FiniteSets, Sequences, SequencesExt

CONSTANTS
    Sub,           \* subscription ids
    Wants,         \* the events each one's event_mask matches
    Forwarder,     \* what SYSLOG_HOST and SIEM_WEBHOOK_URL can configure
    MaxEvent,      \* bound: events
    QueueMax,      \* QUEUE_MAX of both queues
    JournalKeep,   \* rows of siem_journal kept behind the newest
    DlqKeep,       \* rows of webhook_dlq kept behind the newest
    Capacity,      \* of the webhook bucket
    MaxReplays,    \* bound: replays of the journal
    MaxFaults      \* bound: restarts, and statements the database refuses

Attempts == 3      \* len(BACKOFF)

Event == 1..MaxEvent

ASSUME DeliveryAssumption ==
    /\ Wants \in [Sub -> SUBSET Event]
    /\ {MaxEvent, MaxReplays, MaxFaults, JournalKeep, DlqKeep} \subseteq Nat
    /\ {QueueMax, Capacity} \subseteq Nat \ {0}

VARIABLES
    nextEvent,
    conf,       \* the forwarders configured
    journal,    \* siem_journal, by event; to: who had it when stamped without an error
    squeue,     \* SIEMQueue._q, as journal ids
    sjob,       \* the event _dispatch is at
    reached,    \* the events each forwarder got
    wqueue,     \* webhooks_out._q
    wjob,       \* the event _deliver_all is at
    tokens,     \* of the bucket
    subs,       \* webhook_subs
    dlq,        \* webhook_dlq
    lastDlq,    \* its newest id
    received,   \* the events each subscriber got
    dead,       \* deliveries that ended in the dead letters
    owed,       \* deliveries the worker took on in this process
    dropped,    \* those of them a refused statement ended
    replay,     \* the dead letter the operator replays
    lost,       \* events that left the SIEM queue untried, or whose stamp was refused
    spent       \* replays and faults so far

siem == <<journal, squeue, sjob, reached>>
hook == <<wqueue, wjob, tokens, subs, dlq, lastDlq, received, dead, owed, dropped, replay>>
vars == <<nextEvent, conf, siem, hook, lost, spent>>

-----------------------------------------------------------------------------
NoJob  == [pc |-> "idle"]
NoRow  == [there |-> FALSE, shipped |-> FALSE, to |-> {}]
NewRow == [there |-> TRUE, shipped |-> FALSE, to |-> {}]
Letter == [id : Nat, sub : Sub, ev : Event]

TypeOK ==
    /\ nextEvent \in 1..(MaxEvent + 1) /\ conf \subseteq Forwarder
    /\ journal \in [Event -> [there : BOOLEAN, shipped : BOOLEAN, to : SUBSET Forwarder]]
    /\ squeue \in Seq(Event) /\ Len(squeue) <= QueueMax
    /\ sjob \in [pc : {"idle"}] \cup [pc : {"send"}, ev : Event] \cup [pc : {"stamp"}, ev : Event, bad : BOOLEAN]
    /\ reached \in [Forwarder -> SUBSET Event]
    /\ wqueue \in Seq(Event) /\ Len(wqueue) <= QueueMax
    /\ wjob \in [pc : {"idle"}] \cup [pc : {"pick"}, ev : Event, todo : SUBSET Sub]
                \cup [pc : {"try", "dead"}, ev : Event, todo : SUBSET Sub, sub : Sub, n : 1..Attempts]
    /\ tokens \in 0..Capacity
    /\ subs \in [Sub -> {"new", "on", "off", "gone"}]
    /\ dlq \subseteq Letter /\ lastDlq \in Nat
    /\ received \in [Sub -> SUBSET Event] /\ {dead, owed, dropped} \subseteq SUBSET (Sub \X Event)
    /\ replay \in [pc : {"idle"}] \cup [pc : {"send", "ok", "failed"}, letter : Letter]
    /\ lost \subseteq Event /\ spent \in [{"replay", "fault"} -> Nat]

Init ==
    /\ nextEvent = 1 /\ conf \in SUBSET Forwarder
    /\ journal = [e \in Event |-> NoRow]
    /\ squeue = <<>> /\ sjob = NoJob /\ reached = [f \in Forwarder |-> {}]
    /\ wqueue = <<>> /\ wjob = NoJob /\ tokens = Capacity
    /\ subs = [s \in Sub |-> "new"]
    /\ dlq = {} /\ lastDlq = 0
    /\ received = [s \in Sub |-> {}] /\ dead = {} /\ owed = {} /\ dropped = {}
    /\ replay = NoJob /\ lost = {}
    /\ spent = [k \in {"replay", "fault"} |-> 0]

\* A statement the database refuses ("database is locked").
Refused == spent["fault"] < MaxFaults /\ spent' = [spent EXCEPT !["fault"] = @ + 1]

-----------------------------------------------------------------------------
(* An event *)

\* A full queue lets its oldest element go.
Append1(q, e) == IF Len(q) >= QueueMax THEN Append(Tail(q), e) ELSE Append(q, e)
Pushed(q, e)  == IF Len(q) >= QueueMax THEN {Head(q)} ELSE {}

Trimmed(j, newest) == [e \in Event |-> IF e < newest - JournalKeep THEN NoRow ELSE j[e]]

\* siem.ship: journal and queue for the SIEM, then emit to the webhooks.
\* The journal may be out of reach; the event is queued all the same.
Ship(journalled) ==
    LET e == nextEvent IN
    /\ e \in Event /\ nextEvent' = e + 1
    /\ journal' = IF journalled THEN Trimmed([journal EXCEPT ![e] = NewRow], e) ELSE journal
    /\ squeue' = Append1(squeue, e)
    /\ lost' = lost \cup Pushed(squeue, e)
    /\ wqueue' = IF Len(wqueue) < QueueMax THEN Append(wqueue, e) ELSE wqueue
    /\ UNCHANGED <<conf, sjob, reached, wjob, tokens, subs, dlq, lastDlq, received, dead, owed, dropped, replay, spent>>

-----------------------------------------------------------------------------
(* The SIEM worker *)

SiemTake ==
    /\ sjob = NoJob /\ squeue # <<>>
    /\ squeue' = Tail(squeue)
    /\ IF conf = {}
       THEN UNCHANGED sjob /\ lost' = lost \cup {Head(squeue)}
       ELSE sjob' = [pc |-> "send", ev |-> Head(squeue)] /\ UNCHANGED lost
    /\ UNCHANGED <<nextEvent, conf, journal, reached, hook, spent>>

\* Every forwarder in turn: some take the event, the others raise (after
\* their own retry), and that does not stop the rest.
SiemSend(taken) ==
    /\ sjob.pc = "send" /\ taken \subseteq conf
    /\ sjob' = [pc |-> "stamp", ev |-> sjob.ev, bad |-> taken # conf]
    /\ reached' = [f \in Forwarder |-> IF f \in taken THEN reached[f] \cup {sjob.ev} ELSE reached[f]]
    /\ UNCHANGED <<nextEvent, conf, journal, squeue, hook, lost, spent>>

MutantSiemStamp ==
    /\ sjob.pc = "stamp"
    /\ journal' = [journal EXCEPT ![sjob.ev] =
                      IF @.there THEN [@ EXCEPT !.shipped = TRUE, !.to = conf] ELSE @]
    /\ sjob' = NoJob
    /\ UNCHANGED <<nextEvent, conf, squeue, reached, hook, lost, spent>>

\* The row is stamped whatever the outcome, and says which it was.
SiemStamp ==
    /\ sjob.pc = "stamp"
    /\ journal' = [journal EXCEPT ![sjob.ev] =
                      IF @.there THEN [@ EXCEPT !.shipped = TRUE, !.to = IF sjob.bad THEN {} ELSE conf] ELSE @]
    /\ sjob' = NoJob
    /\ UNCHANGED <<nextEvent, conf, squeue, reached, hook, lost, spent>>

\* "siem journal stamp failed": the row stays as it was.
StampFails ==
    /\ sjob.pc = "stamp" /\ Refused
    /\ sjob' = NoJob /\ lost' = lost \cup {sjob.ev}
    /\ UNCHANGED <<nextEvent, conf, journal, squeue, reached, hook>>

\* /api/siem/replay: the newest n rows go to the end of the queue, in order.
Journalled == {e \in Event : journal[e].there}
Newest(n)  == {e \in Journalled : Cardinality({x \in Journalled : x > e}) < n}

SiemReplay(n) ==
    \E last \in UNION {[1..k -> Newest(n)] : k \in 1..n} :
        LET all == squeue \o last IN
        /\ ToSet(last) = Newest(n) /\ \A i, j \in DOMAIN last : i < j => last[i] < last[j]
        /\ spent["replay"] < MaxReplays /\ spent' = [spent EXCEPT !["replay"] = @ + 1]
        /\ squeue' = SubSeq(all, IF Len(all) > QueueMax THEN Len(all) - QueueMax + 1 ELSE 1, Len(all))
        /\ lost' = (lost \cup ToSet(squeue)) \ ToSet(squeue')
        /\ UNCHANGED <<nextEvent, conf, journal, sjob, reached, hook>>

-----------------------------------------------------------------------------
(* The webhook worker *)

\* The subscriptions an event goes to.
On(e) == {s \in Sub : subs[s] = "on" /\ e \in Wants[s]}

HookTake ==
    /\ wjob = NoJob /\ wqueue # <<>>
    /\ wqueue' = Tail(wqueue)
    /\ LET e == Head(wqueue)
       IN /\ wjob' = IF On(e) = {} THEN NoJob ELSE [pc |-> "pick", ev |-> e, todo |-> On(e)]
          /\ owed' = owed \cup (On(e) \X {e})
    /\ UNCHANGED <<nextEvent, conf, siem, tokens, subs, dlq, lastDlq, received, dead, dropped, replay, lost, spent>>

\* list_subs raises, and _worker_loop goes on with the next event.
ListFails ==
    /\ wjob = NoJob /\ wqueue # <<>> /\ Refused
    /\ wqueue' = Tail(wqueue)
    /\ owed' = owed \cup (On(Head(wqueue)) \X {Head(wqueue)})
    /\ dropped' = dropped \cup (On(Head(wqueue)) \X {Head(wqueue)})
    /\ UNCHANGED <<nextEvent, conf, siem, wjob, tokens, subs, dlq, lastDlq, received, dead, replay, lost>>

After(todo) == IF todo = {} THEN NoJob ELSE [pc |-> "pick", ev |-> wjob.ev, todo |-> todo]

\* _deliver_one reads the secret again; a subscription deleted since is left out.
HookPick(s) ==
    /\ wjob.pc = "pick" /\ s \in wjob.todo
    /\ wjob' = IF subs[s] = "gone" THEN After(wjob.todo \ {s})
               ELSE [pc |-> "try", ev |-> wjob.ev, todo |-> wjob.todo \ {s}, sub |-> s, n |-> 1]
    /\ UNCHANGED <<nextEvent, conf, siem, wqueue, tokens, subs, dlq, lastDlq, received, dead, owed, dropped, replay, lost, spent>>

\* _send_once.  late: the subscriber has it, but its answer never came.
Outcome == {"ok", "late", "error", "429", "denied"}

SendOnce(s, e, how) ==
    /\ (how = "denied") <=> (tokens = 0)
    /\ tokens' = IF how \in {"429", "denied"} THEN 0 ELSE tokens - 1
    /\ received' = IF how \in {"ok", "late"} THEN [received EXCEPT ![s] = @ \cup {e}] ELSE received

MutantHookTry(how) ==
    /\ wjob.pc = "try"
    /\ SendOnce(wjob.sub, wjob.ev, how)
    /\ wjob' = IF how = "ok" \/ wjob.n = Attempts THEN After(wjob.todo) ELSE [wjob EXCEPT !.n = @ + 1]
    /\ UNCHANGED <<nextEvent, conf, siem, wqueue, subs, dlq, lastDlq, dead, owed, dropped, replay, lost, spent>>

\* At most three attempts.
HookTry(how) ==
    /\ wjob.pc = "try"
    /\ SendOnce(wjob.sub, wjob.ev, how)
    /\ wjob' = IF how = "ok" THEN After(wjob.todo)
               ELSE IF wjob.n < Attempts THEN [wjob EXCEPT !.n = @ + 1]
               ELSE [wjob EXCEPT !.pc = "dead"]
    /\ UNCHANGED <<nextEvent, conf, siem, wqueue, subs, dlq, lastDlq, dead, owed, dropped, replay, lost, spent>>

\* The letter is kept, then the oldest are cut by id.
PushDlq ==
    LET l == [id |-> lastDlq + 1, sub |-> wjob.sub, ev |-> wjob.ev] IN
    /\ wjob.pc = "dead"
    /\ dlq' = {d \in dlq \cup {l} : d.id >= l.id - DlqKeep}
    /\ lastDlq' = l.id /\ dead' = dead \cup {<<l.sub, l.ev>>}
    /\ wjob' = After(wjob.todo)
    /\ UNCHANGED <<nextEvent, conf, siem, wqueue, tokens, subs, received, owed, dropped, replay, lost, spent>>

\* The read of the secret, _mark_ok, _mark_fail or the INSERT of _push_dlq
\* raises: no subscription left gets the event, nor the one being buried.
HookAborts ==
    /\ wjob.pc \in {"pick", "dead"} /\ Refused
    /\ dropped' = dropped \cup (wjob.todo \X {wjob.ev})
                   \cup (IF wjob.pc = "dead" THEN {<<wjob.sub, wjob.ev>>} ELSE {})
    /\ wjob' = NoJob
    /\ UNCHANGED <<nextEvent, conf, siem, wqueue, tokens, subs, dlq, lastDlq, received, dead, owed, replay, lost>>

\* The letter is kept, the cut raises.
CutFails ==
    LET l == [id |-> lastDlq + 1, sub |-> wjob.sub, ev |-> wjob.ev] IN
    /\ wjob.pc = "dead" /\ Refused
    /\ dlq' = dlq \cup {l} /\ lastDlq' = l.id /\ dead' = dead \cup {<<l.sub, l.ev>>}
    /\ dropped' = dropped \cup (wjob.todo \X {wjob.ev})
    /\ wjob' = NoJob
    /\ UNCHANGED <<nextEvent, conf, siem, wqueue, tokens, subs, received, owed, replay, lost>>

\* Time passes: the bucket gains a token (half as fast after a 429).
Refill ==
    /\ tokens < Capacity /\ tokens' = tokens + 1
    /\ UNCHANGED <<nextEvent, conf, siem, wqueue, wjob, subs, dlq, lastDlq, received, dead, owed, dropped, replay, lost, spent>>

-----------------------------------------------------------------------------
(* The operator *)

SetSub(s, state) ==
    /\ subs' = [subs EXCEPT ![s] = state]
    /\ UNCHANGED <<nextEvent, conf, siem, wqueue, wjob, tokens, lastDlq, received, dead, owed, dropped, replay, lost, spent>>

AddSub(s)    == subs[s] = "new" /\ SetSub(s, "on") /\ UNCHANGED dlq
ToggleSub(s) == /\ subs[s] \in {"on", "off"}
                /\ SetSub(s, IF subs[s] = "on" THEN "off" ELSE "on")
                /\ UNCHANGED dlq
DeleteSub(s) == /\ subs[s] \in {"on", "off"} /\ SetSub(s, "gone")
                /\ dlq' = {d \in dlq : d.sub # s}

\* replay_dlq: read with its subscription (an orphan is refused), send once ...
ReplayRead(l) ==
    /\ replay = NoJob /\ l \in dlq /\ subs[l.sub] # "gone"
    /\ replay' = [pc |-> "send", letter |-> l]
    /\ UNCHANGED <<nextEvent, conf, siem, wqueue, wjob, tokens, subs, dlq, lastDlq, received, dead, owed, dropped, lost, spent>>

ReplaySend(how) ==
    /\ replay.pc = "send"
    /\ SendOnce(replay.letter.sub, replay.letter.ev, how)
    /\ replay' = [replay EXCEPT !.pc = IF how = "ok" THEN "ok" ELSE "failed"]
    /\ UNCHANGED <<nextEvent, conf, siem, wqueue, wjob, subs, dlq, lastDlq, dead, owed, dropped, lost, spent>>

MutantReplayFinish ==
    /\ replay.pc \in {"ok", "failed"}
    /\ dlq' = {d \in dlq : d.id # replay.letter.id}
    /\ replay' = NoJob
    /\ UNCHANGED <<nextEvent, conf, siem, wqueue, wjob, tokens, subs, lastDlq, received, dead, owed, dropped, lost, spent>>

\* ... then drop the letter, unless that failed.
ReplayFinish ==
    /\ replay.pc \in {"ok", "failed"}
    /\ dlq' = IF replay.pc = "ok" THEN {d \in dlq : d.id # replay.letter.id} ELSE dlq
    /\ replay' = NoJob
    /\ UNCHANGED <<nextEvent, conf, siem, wqueue, wjob, tokens, subs, lastDlq, received, dead, owed, dropped, lost, spent>>

\* The letter was delivered, but could not be deleted.
ReplayFails ==
    /\ replay.pc = "ok" /\ Refused
    /\ replay' = NoJob
    /\ UNCHANGED <<nextEvent, conf, siem, wqueue, wjob, tokens, subs, dlq, lastDlq, received, dead, owed, dropped, lost>>

\* The process stops and starts, perhaps with other forwarders configured.
Crash(c) ==
    /\ spent["fault"] < MaxFaults /\ spent' = [spent EXCEPT !["fault"] = @ + 1]
    /\ lost' = lost \cup ToSet(squeue) \cup (IF sjob = NoJob THEN {} ELSE {sjob.ev})
    /\ conf' = c
    /\ squeue' = <<>> /\ sjob' = NoJob /\ wqueue' = <<>> /\ wjob' = NoJob /\ owed' = {} /\ dropped' = {}
    /\ tokens' = Capacity /\ replay' = NoJob
    /\ UNCHANGED <<nextEvent, journal, reached, subs, dlq, lastDlq, received, dead>>

-----------------------------------------------------------------------------
SiemWorker == SiemTake \/ SiemStamp \/ (\E t \in SUBSET Forwarder : SiemSend(t))
HookWorker == \/ HookTake \/ PushDlq
              \/ \E s \in Sub : HookPick(s)
              \/ \E how \in Outcome : HookTry(how)

Next ==
    \/ \E j \in BOOLEAN : Ship(j)
    \/ SiemWorker \/ HookWorker \/ Refill
    \/ StampFails \/ ListFails \/ HookAborts \/ CutFails \/ ReplayFails
    \/ \E n \in 1..MaxEvent : SiemReplay(n)
    \/ \E s \in Sub : AddSub(s) \/ ToggleSub(s) \/ DeleteSub(s)
    \/ \E l \in dlq : ReplayRead(l)
    \/ \E how \in Outcome : ReplaySend(how)
    \/ ReplayFinish
    \/ \E c \in SUBSET Forwarder : Crash(c)

Spec == Init /\ [][Next]_vars

\* The two worker threads run for as long as the process does.
FairSpec == Spec /\ WF_vars(SiemWorker) /\ WF_vars(HookWorker)

-----------------------------------------------------------------------------
\* _deliver_one: a subscription the worker took an event for gets it or has
\* it among the dead letters, unless it is deleted, the process stops, or a
\* statement was refused just then (_worker_loop: "webhook delivery loop
\* crashed"), which ends the delivery to it and to those after it: no mix of
\* errors, refused tokens and lost answers drops it, and no later event goes
\* with the one that was dropped.
Settled(s, e) == e \in received[s] \/ <<s, e>> \in dead \cup dropped \/ subs[s] = "gone"
DeliveredOrDead == \A o \in owed : Settled(o[1], o[2])

\* replay_dlq and _push_dlq: a dead letter leaves the table only when its
\* subscriber has the event, its subscription is deleted, or DlqKeep newer
\* ones were written.
DeadLettersKept ==
    [][\A d \in dlq : (\A x \in dlq' : x.id # d.id) =>
          d.ev \in received[d.sub] \/ subs'[d.sub] = "gone" \/ d.id < lastDlq' - DlqKeep]_vars

\* The cut is by id, and leaves one more than DlqKeep; a cut that was refused
\* leaves its letter until the next one.
DlqBounded == Cardinality(dlq) <= DlqKeep + 1 + spent["fault"]

\* _dispatch: a row stamped without an error was taken by every forwarder
\* then configured, so a row is never reported shipped by a failed retry, a
\* replay or a restart with other forwarders.
StampedMeansSent ==
    \A e \in Event : \A f \in journal[e].to : e \in reached[f]

\* SIEMQueue: a journalled event is tried and its row stamped, unless it
\* left the queue because that was full, nothing was configured, the process
\* stopped, or the stamp itself was refused (the row is then pending for good,
\* although the event was sent).
JournalledIsStamped ==
    \A e \in Event : journal[e].there => journal[e].shipped \/ e \in lost

\* The queues and tables of both senders, and what a row of them says.
QueuesSound == TypeOK /\ DlqBounded /\ StampedMeansSent

\* Whatever a sender has taken on comes to an end that can be seen.
TakenIsSettled == <>[](DeliveredOrDead /\ JournalledIsStamped)
=============================================================================
