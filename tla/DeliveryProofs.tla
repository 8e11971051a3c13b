--------------------------- MODULE DeliveryProofs ---------------------------
(***************************************************************************)
(* Proofs about what leaves for the outside: Delivery, for any             *)
(* subscriptions, forwarders, queue sizes and numbers of events, replays   *)
(* and faults, and Alerting, for every debounce and number of events.      *)
(***************************************************************************)
EXTENDS Delivery, Alerting, TLAPS, FiniteSetTheorems, SequenceTheorems

-----------------------------------------------------------------------------
(* Types *)

\* A bounded queue stays one.
LEMMA QueueType ==
    ASSUME NEW q \in Seq(Event), Len(q) <= QueueMax, NEW e \in Event
    PROVE  /\ Append1(q, e) \in Seq(Event) /\ Len(Append1(q, e)) <= QueueMax
           /\ Pushed(q, e) \subseteq Event
           /\ Len(q) < QueueMax => Append(q, e) \in Seq(Event) /\ Len(Append(q, e)) <= QueueMax
           /\ q # <<>> => /\ Head(q) \in Event
                          /\ Tail(q) \in Seq(Event) /\ Len(Tail(q)) <= QueueMax
<1>1. QueueMax \in Nat \ {0} /\ Len(q) \in Nat
  BY DeliveryAssumption
<1>2. q # <<>> => Head(q) \in Event /\ Tail(q) \in Seq(Event) /\ Len(Tail(q)) = Len(q) - 1
  BY HeadTailProperties
<1>3. CASE Len(q) >= QueueMax
  <2>1. q # <<>>
    BY <1>1, <1>3
  <2>2. Append(Tail(q), e) \in Seq(Event) /\ Len(Append(Tail(q), e)) = Len(q)
    BY <1>1, <1>2, <2>1, AppendProperties
  <2> QED BY <1>1, <1>2, <1>3, <2>1, <2>2 DEF Append1, Pushed
<1>4. CASE Len(q) < QueueMax
  <2>1. Append(q, e) \in Seq(Event) /\ Len(Append(q, e)) = Len(q) + 1
    BY AppendProperties
  <2> QED BY <1>1, <1>2, <1>4, <2>1 DEF Append1, Pushed
<1> QED BY <1>1, <1>3, <1>4

\* So does one to which the newest rows are added.
LEMMA ReplayedType ==
    ASSUME NEW q \in Seq(Event), NEW n \in Nat, NEW k \in 1..n, NEW last \in [1..k -> Event]
    PROVE  LET all == q \o last
               r   == SubSeq(all, IF Len(all) > QueueMax THEN Len(all) - QueueMax + 1 ELSE 1, Len(all))
           IN  r \in Seq(Event) /\ Len(r) <= QueueMax
<1> DEFINE all == q \o last
<1> DEFINE m == IF Len(all) > QueueMax THEN Len(all) - QueueMax + 1 ELSE 1
<1>1. last \in Seq(Event)
  OBVIOUS
<1>2. all \in Seq(Event)
  BY <1>1, ConcatProperties
<1> HIDE DEF all
<1>3. QueueMax \in Nat \ {0} /\ Len(all) \in Nat
  BY <1>2, DeliveryAssumption
<1>4. m \in Int /\ 1 <= m
  BY <1>3
<1>5. \A i \in m..Len(all) : all[i] \in Event
  BY <1>2, <1>3, <1>4
<1>6. /\ SubSeq(all, m, Len(all)) \in Seq(Event)
      /\ Len(SubSeq(all, m, Len(all))) = IF m <= Len(all) THEN Len(all) - m + 1 ELSE 0
  BY <1>3, <1>4, <1>5, SubSeqProperties
<1> QED BY <1>3, <1>6 DEF all

\* What the two workers are at, while they are not idle.
LEMMA JobTypes ==
    ASSUME TypeOK
    PROVE  /\ sjob.pc = "send"  => sjob.ev \in Event
           /\ sjob.pc = "stamp" => sjob \in [pc : {"stamp"}, ev : Event, bad : BOOLEAN]
           /\ sjob # NoJob => sjob.ev \in Event
           /\ wjob.pc = "pick" => wjob \in [pc : {"pick"}, ev : Event, todo : SUBSET Sub]
           /\ wjob.pc \in {"try", "dead"} =>
                wjob \in [pc : {"try", "dead"}, ev : Event, todo : SUBSET Sub, sub : Sub, n : 1..Attempts]
           /\ replay.pc \in {"send", "ok", "failed"} =>
                replay \in [pc : {"send", "ok", "failed"}, letter : Letter]
  BY DEF TypeOK, NoJob

LEMMA AfterType ==
    ASSUME NEW todo \in SUBSET Sub, wjob.ev \in Event
    PROVE  After(todo) \in [pc : {"idle"}] \cup [pc : {"pick"}, ev : Event, todo : SUBSET Sub]
  BY DEF After, NoJob

LEMMA SendOnceType ==
    ASSUME TypeOK, NEW s \in Sub, NEW e \in Event, NEW how \in Outcome, SendOnce(s, e, how)
    PROVE  tokens' \in 0..Capacity /\ received' \in [Sub -> SUBSET Event]
<1>1. Capacity \in Nat /\ tokens \in 0..Capacity
  BY DeliveryAssumption DEF TypeOK
<1>2. tokens' \in 0..Capacity
  <2>1. CASE how \in {"429", "denied"}
    BY <1>1, <2>1 DEF SendOnce
  <2>2. CASE how \notin {"429", "denied"}
    BY <1>1, <2>2 DEF SendOnce
  <2> QED BY <2>1, <2>2
<1>3. received' \in [Sub -> SUBSET Event]
  BY DEF SendOnce, TypeOK
<1> QED BY <1>2, <1>3

LEMMA TypeInit == Init => TypeOK
<1> SUFFICES ASSUME Init PROVE TypeOK
  OBVIOUS
<1>1. /\ {MaxEvent, Capacity, QueueMax} \subseteq Nat /\ 0 <= QueueMax
      /\ <<>> \in Seq(Event) /\ Len(<<>>) = 0
  BY DeliveryAssumption
<1>2. journal \in [Event -> [there : BOOLEAN, shipped : BOOLEAN, to : SUBSET Forwarder]]
  BY DEF Init, NoRow
<1>3. nextEvent \in 1..(MaxEvent + 1) /\ tokens \in 0..Capacity
  BY <1>1 DEF Init
<1> QED BY <1>1, <1>2, <1>3 DEF Init, TypeOK, NoJob

LEMMA TypeShip == ASSUME TypeOK, NEW j \in BOOLEAN, Ship(j) PROVE TypeOK'
<1> DEFINE e == nextEvent
<1>1. e \in Event /\ e + 1 \in 1..(MaxEvent + 1)
  BY DeliveryAssumption DEF Ship, Event, TypeOK
<1>2. journal' \in [Event -> [there : BOOLEAN, shipped : BOOLEAN, to : SUBSET Forwarder]]
  <2>1. [journal EXCEPT ![e] = NewRow] \in [Event -> [there : BOOLEAN, shipped : BOOLEAN, to : SUBSET Forwarder]]
    BY DEF TypeOK, NewRow
  <2>2. Trimmed([journal EXCEPT ![e] = NewRow], e) \in [Event -> [there : BOOLEAN, shipped : BOOLEAN, to : SUBSET Forwarder]]
    BY <2>1 DEF Trimmed, NoRow
  <2> QED BY <2>2 DEF Ship, TypeOK
<1>3. squeue' \in Seq(Event) /\ Len(squeue') <= QueueMax /\ lost' \subseteq Event
  BY <1>1, QueueType DEF Ship, TypeOK
<1>4. wqueue' \in Seq(Event) /\ Len(wqueue') <= QueueMax
  BY <1>1, QueueType DEF Ship, TypeOK
<1> QED BY <1>1, <1>2, <1>3, <1>4 DEF Ship, TypeOK

LEMMA TypeSiem ==
    ASSUME TypeOK, SiemWorker
    PROVE  TypeOK'
<1>1. CASE SiemTake
  <2>1. Head(squeue) \in Event /\ squeue' \in Seq(Event) /\ Len(squeue') <= QueueMax
    BY <1>1, QueueType DEF SiemTake, TypeOK
  <2> QED BY <1>1, <2>1 DEF SiemTake, TypeOK, hook
<1>2. CASE SiemStamp
  <2>1. journal' \in [Event -> [there : BOOLEAN, shipped : BOOLEAN, to : SUBSET Forwarder]]
    <3> DEFINE Row == [there : BOOLEAN, shipped : BOOLEAN, to : SUBSET Forwarder]
               old == journal[sjob.ev]
               to  == IF sjob.bad THEN {} ELSE conf
               new == IF old.there THEN [old EXCEPT !.shipped = TRUE, !.to = to] ELSE old
    <3>1. journal \in [Event -> Row] /\ sjob.ev \in Event /\ to \in SUBSET Forwarder
      BY <1>2, JobTypes DEF SiemStamp, TypeOK
    <3>2. old \in Row
      BY <3>1
    <3>3. new \in Row
      BY <3>1, <3>2, Zenon
    <3>4. journal' = [journal EXCEPT ![sjob.ev] = new]
      BY <1>2 DEF SiemStamp
    <3> QED BY <3>1, <3>3, <3>4, Zenon
  <2> QED BY <1>2, <2>1 DEF SiemStamp, TypeOK, hook, NoJob
<1>3. ASSUME NEW t \in SUBSET Forwarder, SiemSend(t)
      PROVE  TypeOK'
  <2>1. sjob.ev \in Event
    BY <1>3, JobTypes DEF SiemSend
  <2>2. sjob' \in [pc : {"stamp"}, ev : Event, bad : BOOLEAN]
    BY <1>3, <2>1 DEF SiemSend
  <2>3. reached' \in [Forwarder -> SUBSET Event]
    BY <1>3, <2>1 DEF SiemSend, TypeOK
  <2> QED BY <1>3, <2>2, <2>3 DEF SiemSend, TypeOK, hook
<1> QED BY <1>1, <1>2, <1>3 DEF SiemWorker

LEMMA TypeReplay ==
    ASSUME TypeOK, NEW n \in 1..MaxEvent, SiemReplay(n)
    PROVE  TypeOK'
<1>1. PICK last \in UNION {[1..k -> Newest(n)] : k \in 1..n} :
        LET all == squeue \o last IN
        /\ spent' = [spent EXCEPT !["replay"] = @ + 1]
        /\ squeue' = SubSeq(all, IF Len(all) > QueueMax THEN Len(all) - QueueMax + 1 ELSE 1, Len(all))
        /\ lost' = (lost \cup ToSet(squeue)) \ ToSet(squeue')
        /\ UNCHANGED <<nextEvent, conf, journal, sjob, reached, hook>>
  BY DEF SiemReplay
<1>2. n \in Nat
  BY DeliveryAssumption
<1>3. PICK k \in 1..n : last \in [1..k -> Newest(n)]
  OBVIOUS
<1>4. last \in [1..k -> Event]
  BY <1>3 DEF Newest, Journalled
<1>5. squeue' \in Seq(Event) /\ Len(squeue') <= QueueMax
  BY <1>1, <1>2, <1>4, ReplayedType DEF TypeOK
<1>6. lost' \subseteq Event
  BY <1>1 DEF TypeOK, ToSet
<1>7. spent' \in [{"replay", "fault"} -> Nat]
  BY <1>1 DEF TypeOK
<1> QED BY <1>1, <1>5, <1>6, <1>7 DEF TypeOK, hook

LEMMA TypeHook ==
    ASSUME TypeOK, HookWorker
    PROVE  TypeOK'
<1>1. CASE HookTake
  <2>1. Head(wqueue) \in Event /\ wqueue' \in Seq(Event) /\ Len(wqueue') <= QueueMax
    BY <1>1, QueueType DEF HookTake, TypeOK
  <2> QED BY <1>1, <2>1 DEF HookTake, TypeOK, siem, NoJob, On
<1>2. CASE PushDlq
  <2>1. wjob \in [pc : {"try", "dead"}, ev : Event, todo : SUBSET Sub, sub : Sub, n : 1..Attempts]
    BY <1>2, JobTypes DEF PushDlq
  <2>2. After(wjob.todo) \in [pc : {"idle"}] \cup [pc : {"pick"}, ev : Event, todo : SUBSET Sub]
    BY <2>1, AfterType
  <2>3. [id |-> lastDlq + 1, sub |-> wjob.sub, ev |-> wjob.ev] \in Letter
    BY <2>1 DEF TypeOK, Letter
  <2>4. dlq' \subseteq Letter /\ lastDlq' \in Nat
    BY <1>2, <2>3 DEF PushDlq, TypeOK
  <2>5. dead' \in SUBSET (Sub \X Event)
    BY <1>2, <2>1 DEF PushDlq, TypeOK
  <2> QED BY <1>2, <2>2, <2>4, <2>5 DEF PushDlq, TypeOK, siem
<1>3. ASSUME NEW s \in Sub, HookPick(s)
      PROVE  TypeOK'
  <2>1. wjob \in [pc : {"pick"}, ev : Event, todo : SUBSET Sub]
    BY <1>3, JobTypes DEF HookPick
  <2>2. After(wjob.todo \ {s}) \in [pc : {"idle"}] \cup [pc : {"pick"}, ev : Event, todo : SUBSET Sub]
    BY <2>1, AfterType
  <2>3. [pc |-> "try", ev |-> wjob.ev, todo |-> wjob.todo \ {s}, sub |-> s, n |-> 1]
          \in [pc : {"try", "dead"}, ev : Event, todo : SUBSET Sub, sub : Sub, n : 1..Attempts]
    BY <2>1 DEF Attempts
  <2> QED BY <1>3, <2>2, <2>3 DEF HookPick, TypeOK, siem
<1>4. ASSUME NEW how \in Outcome, HookTry(how)
      PROVE  TypeOK'
  <2>1. wjob \in [pc : {"try", "dead"}, ev : Event, todo : SUBSET Sub, sub : Sub, n : 1..Attempts]
    BY <1>4, JobTypes DEF HookTry
  <2>2. After(wjob.todo) \in [pc : {"idle"}] \cup [pc : {"pick"}, ev : Event, todo : SUBSET Sub]
    BY <2>1, AfterType
  <2>3. wjob' \in [pc : {"idle"}] \cup [pc : {"pick"}, ev : Event, todo : SUBSET Sub]
               \cup [pc : {"try", "dead"}, ev : Event, todo : SUBSET Sub, sub : Sub, n : 1..Attempts]
    BY <1>4, <2>1, <2>2 DEF HookTry, Attempts
  <2>4. tokens' \in 0..Capacity /\ received' \in [Sub -> SUBSET Event]
    BY <1>4, <2>1, SendOnceType DEF HookTry
  <2> QED BY <1>4, <2>3, <2>4 DEF HookTry, TypeOK, siem
<1> QED BY <1>1, <1>2, <1>3, <1>4 DEF HookWorker

LEMMA TypeOperator ==
    ASSUME TypeOK,
           \/ \E s \in Sub : AddSub(s) \/ ToggleSub(s) \/ DeleteSub(s)
           \/ \E l \in dlq : ReplayRead(l)
           \/ \E how \in Outcome : ReplaySend(how)
           \/ ReplayFinish
           \/ Refill
    PROVE  TypeOK'
<1>1. CASE \E s \in Sub : AddSub(s) \/ ToggleSub(s) \/ DeleteSub(s)
  <2>1. PICK s \in Sub : AddSub(s) \/ ToggleSub(s) \/ DeleteSub(s)
    BY <1>1
  <2>2. subs' \in [Sub -> {"new", "on", "off", "gone"}]
    BY <2>1 DEF AddSub, ToggleSub, DeleteSub, SetSub, TypeOK
  <2>3. dlq' \subseteq dlq
    BY <2>1 DEF AddSub, ToggleSub, DeleteSub
  <2>4. UNCHANGED <<nextEvent, conf, siem, wqueue, wjob, tokens, lastDlq, received, dead, owed, dropped, replay, lost, spent>>
    BY <2>1 DEF AddSub, ToggleSub, DeleteSub, SetSub
  <2> QED BY <2>2, <2>3, <2>4 DEF TypeOK, siem
<1>2. CASE \E l \in dlq : ReplayRead(l)
  BY <1>2 DEF ReplayRead, TypeOK, siem
<1>3. ASSUME NEW how \in Outcome, ReplaySend(how)
      PROVE  TypeOK'
  <2>1. replay \in [pc : {"send", "ok", "failed"}, letter : Letter]
    BY <1>3, JobTypes DEF ReplaySend
  <2>2. tokens' \in 0..Capacity /\ received' \in [Sub -> SUBSET Event]
    BY <1>3, <2>1, SendOnceType DEF ReplaySend, Letter
  <2>3. replay' \in [pc : {"send", "ok", "failed"}, letter : Letter]
    BY <1>3, <2>1 DEF ReplaySend
  <2> QED BY <1>3, <2>2, <2>3 DEF ReplaySend, TypeOK, siem
<1>4. CASE ReplayFinish
  BY <1>4 DEF ReplayFinish, TypeOK, siem, NoJob
<1>5. CASE Refill
  <2>1. tokens' \in 0..Capacity
    BY <1>5, DeliveryAssumption DEF Refill, TypeOK
  <2>2. UNCHANGED <<nextEvent, conf, siem, wqueue, wjob, subs, dlq, lastDlq, received, dead, owed, dropped, replay, lost, spent>>
    BY <1>5 DEF Refill
  <2> QED BY <2>1, <2>2 DEF TypeOK, siem
<1> QED BY <1>1, <1>2, <1>3, <1>4, <1>5

LEMMA TypeCrash == ASSUME TypeOK, NEW c \in SUBSET Forwarder, Crash(c) PROVE TypeOK'
<1>1. <<>> \in Seq(Event) /\ Len(<<>>) <= QueueMax /\ Capacity \in 0..Capacity
  BY DeliveryAssumption
<1>2. lost' \subseteq Event
  BY JobTypes DEF Crash, TypeOK, ToSet
<1>3. spent' \in [{"replay", "fault"} -> Nat]
  BY DEF Crash, TypeOK
<1> QED BY <1>1, <1>2, <1>3 DEF Crash, TypeOK, NoJob

\* A statement the database refuses.
Fault == StampFails \/ ListFails \/ HookAborts \/ CutFails \/ ReplayFails

LEMMA TypeFault == ASSUME TypeOK, Fault PROVE TypeOK'
<1>s. ASSUME Refused PROVE spent' \in [{"replay", "fault"} -> Nat]
  BY <1>s DEF Refused, TypeOK
<1>1. CASE StampFails
  <2>1. lost' \subseteq Event
    BY <1>1, JobTypes DEF StampFails, TypeOK
  <2> QED BY <1>1, <1>s, <2>1 DEF StampFails, TypeOK, hook, NoJob
<1>2. CASE ListFails
  <2>1. Head(wqueue) \in Event /\ wqueue' \in Seq(Event) /\ Len(wqueue') <= QueueMax
    BY <1>2, QueueType DEF ListFails, TypeOK
  <2>2. On(Head(wqueue)) \X {Head(wqueue)} \subseteq Sub \X Event
    BY <2>1 DEF On
  <2> QED BY <1>2, <1>s, <2>1, <2>2 DEF ListFails, TypeOK, siem
<1>3. CASE HookAborts
  <2>1. wjob.ev \in Event /\ wjob.todo \subseteq Sub /\ (wjob.pc = "dead" => wjob.sub \in Sub)
    BY <1>3, JobTypes DEF HookAborts
  <2>2. dropped' \subseteq Sub \X Event
    BY <1>3, <2>1 DEF HookAborts, TypeOK
  <2> QED BY <1>3, <1>s, <2>2 DEF HookAborts, TypeOK, siem, NoJob
<1>4. CASE CutFails
  <2>1. wjob.ev \in Event /\ wjob.todo \subseteq Sub /\ wjob.sub \in Sub
    BY <1>4, JobTypes DEF CutFails
  <2>2. dropped' \subseteq Sub \X Event /\ dead' \subseteq Sub \X Event
    BY <1>4, <2>1 DEF CutFails, TypeOK
  <2>3. dlq' \subseteq Letter /\ lastDlq' \in Nat
    BY <1>4, <2>1 DEF CutFails, TypeOK, Letter
  <2> QED BY <1>4, <1>s, <2>2, <2>3 DEF CutFails, TypeOK, siem, NoJob
<1>5. CASE ReplayFails
  BY <1>5, <1>s DEF ReplayFails, TypeOK, siem, NoJob
<1> QED BY <1>1, <1>2, <1>3, <1>4, <1>5 DEF Fault

LEMMA TypeStep == TypeOK /\ [Next]_vars => TypeOK'
<1> SUFFICES ASSUME TypeOK, [Next]_vars PROVE TypeOK'
  OBVIOUS
<1>1. CASE UNCHANGED vars
  BY <1>1 DEF TypeOK, vars, siem, hook
<1>2. CASE Next
  BY <1>2, TypeShip, TypeSiem, TypeReplay, TypeHook, TypeOperator, TypeCrash, TypeFault DEF Next, Fault
<1> QED BY <1>1, <1>2

-----------------------------------------------------------------------------
(* The inductive invariant *)

\* A dead letter's id is its own, and one of the DlqKeep + 1 newest, or of as
\* many more as cuts were refused.
DlqInv ==
    /\ \A d \in dlq : d.id <= lastDlq /\ d.id >= lastDlq - DlqKeep - spent["fault"]
    /\ \A c, d \in dlq : c.id = d.id => c = d

\* No newer letter has taken the id of the one being replayed, and after an
\* answer the subscriber has its event.
ReplayInv ==
    /\ replay.pc \in {"send", "ok", "failed"} =>
         /\ replay.letter.id <= lastDlq
         /\ \A d \in dlq : d.id = replay.letter.id => d = replay.letter
    /\ replay.pc = "ok" => replay.letter.ev \in received[replay.letter.sub]

\* An event about to be stamped without an error has been everywhere.
StampInv ==
    sjob.pc = "stamp" => (sjob.bad \/ \A f \in conf : sjob.ev \in reached[f])

Inv == TypeOK /\ DlqInv /\ ReplayInv /\ StampInv /\ StampedMeansSent

LEMMA InvInit == Init => Inv
<1> SUFFICES ASSUME Init PROVE Inv
  OBVIOUS
<1>1. TypeOK
  BY TypeInit
<1>2. DlqInv /\ ReplayInv /\ StampInv
  BY DEF Init, DlqInv, ReplayInv, StampInv, NoJob
<1>3. StampedMeansSent
  BY DEF Init, StampedMeansSent, NoRow
<1> QED BY <1>1, <1>2, <1>3 DEF Inv

\* Faults are only ever counted up.
SpentGrows == spent'["fault"] \in Nat /\ spent'["fault"] >= spent["fault"]

LEMMA SpentNumbers ==
    ASSUME TypeOK
    PROVE  /\ spent["fault"] \in Nat /\ lastDlq \in Nat /\ DlqKeep \in Nat
           /\ \A d \in dlq : d.id \in Nat
           /\ spent' = spent => SpentGrows
           /\ Refused => SpentGrows /\ spent'["fault"] = spent["fault"] + 1
  BY DeliveryAssumption DEF TypeOK, Letter, SpentGrows, Refused

\* What only the webhook half writes, and what only the SIEM half does.
LEMMA HookSame ==
    ASSUME TypeOK, DlqInv, ReplayInv, UNCHANGED <<dlq, lastDlq, replay, received>>, SpentGrows
    PROVE  DlqInv' /\ ReplayInv'
<1>1. ReplayInv'
  BY DEF ReplayInv
<1> QED BY <1>1, SpentNumbers DEF DlqInv, SpentGrows

LEMMA SiemSame ==
    ASSUME StampInv, StampedMeansSent, UNCHANGED <<conf, journal, sjob, reached>>
    PROVE  StampInv' /\ StampedMeansSent'
  BY DEF StampInv, StampedMeansSent

LEMMA ShipStep ==
    ASSUME TypeOK, StampInv, StampedMeansSent, NEW j \in BOOLEAN, Ship(j)
    PROVE  StampInv' /\ StampedMeansSent'
<1>1. StampInv'
  BY DEF Ship, StampInv
<1>2. ASSUME NEW e \in Event
      PROVE  journal'[e].to = {} \/ journal'[e].to = journal[e].to
  <2>1. nextEvent \in Event
    BY DEF Ship
  <2> QED BY <2>1 DEF Ship, Trimmed, NoRow, NewRow, TypeOK
<1>3. StampedMeansSent'
  BY <1>2 DEF Ship, StampedMeansSent
<1> QED BY <1>1, <1>3

LEMMA SiemStep ==
    ASSUME TypeOK, StampInv, StampedMeansSent, SiemWorker
    PROVE  StampInv' /\ StampedMeansSent'
<1>1. CASE SiemTake
  BY <1>1 DEF SiemTake, StampInv, StampedMeansSent
<1>2. CASE SiemStamp
  <2>1. StampInv'
    BY <1>2 DEF SiemStamp, StampInv, NoJob
  <2>2. sjob.ev \in Event
    BY <1>2, JobTypes DEF SiemStamp
  <2>3. ASSUME NEW e \in Event, NEW f \in journal'[e].to
        PROVE  e \in reached[f]
    <3>1. CASE e # sjob.ev
      BY <1>2, <3>1 DEF SiemStamp, StampedMeansSent, TypeOK
    <3>2. CASE e = sjob.ev
      <4>1. \/ f \in journal[e].to
            \/ ~sjob.bad /\ f \in conf
        BY <1>2, <2>2, <3>2 DEF SiemStamp, TypeOK
      <4> QED BY <1>2, <3>2, <4>1 DEF SiemStamp, StampInv, StampedMeansSent
    <3> QED BY <3>1, <3>2
  <2> QED BY <1>2, <2>1, <2>3 DEF SiemStamp, StampedMeansSent
<1>3. ASSUME NEW t \in SUBSET Forwarder, SiemSend(t)
      PROVE  StampInv' /\ StampedMeansSent'
  <2>1. /\ sjob' = [pc |-> "stamp", ev |-> sjob.ev, bad |-> t # conf] /\ conf' = conf
        /\ journal' = journal /\ conf \subseteq Forwarder
        /\ \A f \in Forwarder : reached'[f] = IF f \in t THEN reached[f] \cup {sjob.ev} ELSE reached[f]
    BY <1>3 DEF SiemSend, TypeOK
  <2>2. StampInv'
    BY <2>1 DEF StampInv
  <2>3. StampedMeansSent'
    BY <2>1 DEF StampedMeansSent, TypeOK
  <2> QED BY <2>2, <2>3
<1> QED BY <1>1, <1>2, <1>3 DEF SiemWorker

\* Sending adds to what a subscriber has.
LEMMA SendOnceGrows ==
    ASSUME TypeOK, NEW s \in Sub, NEW e \in Event, NEW how \in Outcome, SendOnce(s, e, how)
    PROVE  /\ \A r \in Sub : received[r] \subseteq received'[r]
           /\ how = "ok" => e \in received'[s]
  BY DEF SendOnce, TypeOK

LEMMA PushStep ==
    ASSUME TypeOK, DlqInv, ReplayInv, PushDlq
    PROVE  DlqInv' /\ ReplayInv'
<1> DEFINE l == [id |-> lastDlq + 1, sub |-> wjob.sub, ev |-> wjob.ev]
<1>1. /\ dlq' = {d \in dlq \cup {l} : d.id >= l.id - DlqKeep} /\ lastDlq' = lastDlq + 1
      /\ UNCHANGED <<replay, received, spent>>
  BY DEF PushDlq
<1>2. spent["fault"] \in Nat /\ lastDlq \in Nat /\ DlqKeep \in Nat /\ \A d \in dlq : d.id \in Nat
  BY SpentNumbers
<1>3. l.id = lastDlq + 1
  OBVIOUS
<1> HIDE DEF l
<1>4. DlqInv'
  BY <1>1, <1>2, <1>3 DEF DlqInv
<1>5. ReplayInv'
  <2>1. replay.pc \in {"send", "ok", "failed"} => replay.letter.id \in Nat
    BY JobTypes DEF Letter
  <2> QED BY <1>1, <1>2, <1>3, <2>1 DEF ReplayInv
<1> QED BY <1>4, <1>5

LEMMA HookStep ==
    ASSUME TypeOK, DlqInv, ReplayInv, HookWorker
    PROVE  DlqInv' /\ ReplayInv'
<1>1. CASE HookTake
  BY <1>1, HookSame, SpentNumbers DEF HookTake
<1>2. CASE PushDlq
  BY <1>2, PushStep
<1>3. CASE \E s \in Sub : HookPick(s)
  BY <1>3, HookSame, SpentNumbers DEF HookPick
<1>4. ASSUME NEW how \in Outcome, HookTry(how)
      PROVE  DlqInv' /\ ReplayInv'
  <2>1. wjob.sub \in Sub /\ wjob.ev \in Event
    BY <1>4, JobTypes DEF HookTry
  <2>2. \A r \in Sub : received[r] \subseteq received'[r]
    BY <1>4, <2>1, SendOnceGrows DEF HookTry
  <2>3. replay.pc = "ok" => replay.letter.sub \in Sub
    BY JobTypes DEF Letter
  <2>4. UNCHANGED <<dlq, lastDlq, replay, spent>>
    BY <1>4 DEF HookTry
  <2> QED BY <2>2, <2>3, <2>4 DEF DlqInv, ReplayInv
<1> QED BY <1>1, <1>2, <1>3, <1>4 DEF HookWorker

LEMMA OperatorStep ==
    ASSUME TypeOK, DlqInv, ReplayInv,
           \/ \E s \in Sub : AddSub(s) \/ ToggleSub(s) \/ DeleteSub(s)
           \/ \E l \in dlq : ReplayRead(l)
           \/ \E how \in Outcome : ReplaySend(how)
           \/ ReplayFinish
           \/ Refill
    PROVE  DlqInv' /\ ReplayInv'
<1>1. CASE \E s \in Sub : AddSub(s) \/ ToggleSub(s) \/ DeleteSub(s)
  <2>1. dlq' \subseteq dlq /\ UNCHANGED <<lastDlq, replay, received, spent>>
    BY <1>1 DEF AddSub, ToggleSub, DeleteSub, SetSub
  <2> QED BY <2>1 DEF DlqInv, ReplayInv
<1>2. CASE \E l \in dlq : ReplayRead(l)
  BY <1>2 DEF ReplayRead, DlqInv, ReplayInv
<1>3. ASSUME NEW how \in Outcome, ReplaySend(how)
      PROVE  DlqInv' /\ ReplayInv'
  <2>1. replay \in [pc : {"send", "ok", "failed"}, letter : Letter]
    BY <1>3, JobTypes DEF ReplaySend
  <2>2. replay.letter.sub \in Sub /\ replay.letter.ev \in Event
    BY <2>1 DEF Letter
  <2>3. how = "ok" => replay.letter.ev \in received'[replay.letter.sub]
    BY <1>3, <2>2, SendOnceGrows DEF ReplaySend
  <2>4. /\ replay' = [replay EXCEPT !.pc = IF how = "ok" THEN "ok" ELSE "failed"]
        /\ replay.pc = "send" /\ UNCHANGED <<dlq, lastDlq, spent>>
    BY <1>3 DEF ReplaySend
  <2>5. replay'.letter = replay.letter /\ (replay'.pc = "ok" => how = "ok")
    BY <2>1, <2>4
  <2> QED BY <2>3, <2>4, <2>5 DEF DlqInv, ReplayInv
<1>4. CASE ReplayFinish
  <2>1. dlq' \subseteq dlq /\ replay' = NoJob /\ UNCHANGED <<lastDlq, received, spent>>
    BY <1>4 DEF ReplayFinish
  <2> QED BY <2>1 DEF DlqInv, ReplayInv, NoJob
<1>5. CASE Refill
  BY <1>5, HookSame, SpentNumbers DEF Refill
<1> QED BY <1>1, <1>2, <1>3, <1>4, <1>5

LEMMA CrashStep ==
    ASSUME TypeOK, DlqInv, StampedMeansSent, NEW c \in SUBSET Forwarder, Crash(c)
    PROVE  DlqInv' /\ ReplayInv' /\ StampInv' /\ StampedMeansSent'
<1>1. Refused /\ UNCHANGED <<dlq, lastDlq>>
  BY DEF Crash, Refused
<1>2. DlqInv'
  BY <1>1, SpentNumbers DEF DlqInv, SpentGrows
<1>3. ReplayInv' /\ StampInv' /\ StampedMeansSent'
  BY DEF Crash, ReplayInv, StampInv, StampedMeansSent, NoJob
<1> QED BY <1>2, <1>3

LEMMA FaultStep ==
    ASSUME TypeOK, DlqInv, ReplayInv, StampInv, StampedMeansSent, Fault
    PROVE  DlqInv' /\ ReplayInv' /\ StampInv' /\ StampedMeansSent'
<1>r. SpentGrows /\ spent'["fault"] = spent["fault"] + 1
  BY SpentNumbers DEF Fault, StampFails, ListFails, HookAborts, CutFails, ReplayFails
<1>1. CASE StampFails
  <2>1. UNCHANGED <<dlq, lastDlq, replay, received>>
    BY <1>1 DEF StampFails, hook
  <2>2. StampInv' /\ StampedMeansSent'
    BY <1>1 DEF StampFails, StampInv, StampedMeansSent, NoJob
  <2> QED BY <1>r, <2>1, <2>2, HookSame
<1>2. CASE ListFails \/ HookAborts
  <2>1. UNCHANGED <<dlq, lastDlq, replay, received, conf, journal, sjob, reached>>
    BY <1>2 DEF ListFails, HookAborts, siem
  <2> QED BY <1>r, <2>1, HookSame, SiemSame
<1>3. CASE ReplayFails
  <2>1. UNCHANGED <<dlq, lastDlq, received, conf, journal, sjob, reached>> /\ replay' = NoJob
    BY <1>3 DEF ReplayFails, siem
  <2>2. DlqInv'
    BY <1>r, <2>1, SpentNumbers DEF DlqInv, SpentGrows
  <2>3. ReplayInv'
    BY <2>1 DEF ReplayInv, NoJob
  <2> QED BY <2>1, <2>2, <2>3, SiemSame
<1>4. CASE CutFails
  <2> DEFINE l == [id |-> lastDlq + 1, sub |-> wjob.sub, ev |-> wjob.ev]
  <2>1. /\ dlq' = dlq \cup {l} /\ lastDlq' = lastDlq + 1
        /\ UNCHANGED <<replay, received, conf, journal, sjob, reached>>
    BY <1>4 DEF CutFails, siem
  <2>2. l.id = lastDlq + 1
    OBVIOUS
  <2>3. /\ spent["fault"] \in Nat /\ lastDlq \in Nat /\ DlqKeep \in Nat
        /\ \A d \in dlq : d.id \in Nat
    BY SpentNumbers
  <2>4. replay.pc \in {"send", "ok", "failed"} => replay.letter.id \in Nat
    BY JobTypes DEF Letter
  <2> HIDE DEF l
  <2>5. DlqInv'
    BY <1>r, <2>1, <2>2, <2>3 DEF DlqInv
  <2>6. ReplayInv'
    BY <2>1, <2>2, <2>3, <2>4 DEF ReplayInv
  <2> QED BY <2>1, <2>5, <2>6, SiemSame
<1> QED BY <1>1, <1>2, <1>3, <1>4 DEF Fault

LEMMA InvStep == Inv /\ [Next]_vars => Inv'
<1> SUFFICES ASSUME Inv, [Next]_vars PROVE Inv'
  OBVIOUS
<1>1. TypeOK'
  BY TypeStep DEF Inv
<1>2. CASE UNCHANGED vars
  BY <1>1, <1>2, HookSame, SiemSame, SpentNumbers DEF Inv, vars, siem, hook
<1>3. CASE \E j \in BOOLEAN : Ship(j)
  BY <1>1, <1>3, ShipStep, HookSame, SpentNumbers DEF Inv, Ship
<1>4. CASE SiemWorker
  <2>1. UNCHANGED <<dlq, lastDlq, replay, received, spent>>
    BY <1>4 DEF SiemWorker, SiemTake, SiemStamp, SiemSend, hook
  <2> QED BY <1>1, <1>4, <2>1, SiemStep, HookSame, SpentNumbers DEF Inv
<1>5. CASE HookWorker
  <2>1. UNCHANGED <<conf, journal, sjob, reached>>
    BY <1>5 DEF HookWorker, HookTake, PushDlq, HookPick, HookTry, siem
  <2> QED BY <1>1, <1>5, <2>1, HookStep, SiemSame DEF Inv
<1>6. CASE \E n \in 1..MaxEvent : SiemReplay(n)
  <2>1. UNCHANGED <<conf, journal, sjob, reached, dlq, lastDlq, replay, received>>
    BY <1>6 DEF SiemReplay, hook
  <2>2. SpentGrows
    BY <1>6 DEF SiemReplay, SpentGrows, Inv, TypeOK
  <2> QED BY <1>1, <2>1, <2>2, HookSame, SiemSame DEF Inv
<1>7. CASE \/ \E s \in Sub : AddSub(s) \/ ToggleSub(s) \/ DeleteSub(s)
           \/ \E l \in dlq : ReplayRead(l)
           \/ \E how \in Outcome : ReplaySend(how)
           \/ ReplayFinish
           \/ Refill
  <2>1. UNCHANGED <<conf, journal, sjob, reached>>
    BY <1>7 DEF AddSub, ToggleSub, DeleteSub, SetSub, ReplayRead, ReplaySend, ReplayFinish, Refill, siem
  <2> QED BY <1>1, <1>7, <2>1, OperatorStep, SiemSame DEF Inv
<1>8. CASE \E c \in SUBSET Forwarder : Crash(c)
  BY <1>1, <1>8, CrashStep DEF Inv
<1>9. CASE Fault
  BY <1>1, <1>9, FaultStep DEF Inv
<1> QED BY <1>2, <1>3, <1>4, <1>5, <1>6, <1>7, <1>8, <1>9 DEF Next, Fault

-----------------------------------------------------------------------------
\* Distinct ids among so many consecutive numbers: the table is bounded.
LEMMA Bounded == Inv => DlqBounded
<1> SUFFICES ASSUME Inv PROVE DlqBounded
  OBVIOUS
<1> DEFINE T == (lastDlq - DlqKeep - spent["fault"])..lastDlq
           f == [d \in dlq |-> d.id]
<1>1. spent["fault"] \in Nat /\ lastDlq \in Nat /\ DlqKeep \in Nat /\ \A d \in dlq : d.id \in Nat
  BY SpentNumbers DEF Inv
<1>2. IsFiniteSet(T) /\ Cardinality(T) = DlqKeep + 1 + spent["fault"]
  <2> DEFINE low == lastDlq - DlqKeep - spent["fault"]
  <2>1. low \in Int /\ lastDlq \in Int /\ low <= lastDlq /\ lastDlq - low + 1 = DlqKeep + 1 + spent["fault"]
    BY <1>1
  <2> HIDE DEF low
  <2>2. IsFiniteSet(low..lastDlq) /\ Cardinality(low..lastDlq) = lastDlq - low + 1
    BY <2>1, FS_Interval
  <2> QED BY <2>1, <2>2 DEF low
<1>3. \A d \in dlq : d.id \in T
  BY <1>1 DEF Inv, DlqInv
<1> HIDE DEF T
<1>4. f \in Injection(dlq, T)
  BY <1>3 DEF Inv, DlqInv, Injection, IsInjective
<1> HIDE DEF f
<1>5. Cardinality(dlq) <= Cardinality(T)
  BY <1>2, <1>4, FS_Injection
<1> QED BY <1>2, <1>5 DEF DlqBounded

\* For any number of events, subscribers and forwarders: the queues and
\* tables of both senders stay within their bounds, and a row stamped
\* without an error was taken by every forwarder then configured (SIEMQueue,
\* _dispatch, _push_dlq).
THEOREM QueuesStaySound == Spec => []QueuesSound
<1>1. Inv => QueuesSound
  BY Bounded DEF Inv, QueuesSound
<1> QED BY <1>1, InvInit, InvStep, PTL DEF Spec

LEMMA KeptStep ==
    ASSUME Inv, Next, NEW d \in dlq, \A x \in dlq' : x.id # d.id
    PROVE  d.ev \in received[d.sub] \/ subs'[d.sub] = "gone" \/ d.id < lastDlq' - DlqKeep
<1>1. lastDlq \in Nat /\ DlqKeep \in Nat /\ d.id \in Nat /\ d.sub \in Sub
  BY DeliveryAssumption DEF Inv, TypeOK, Letter
<1>2. CASE PushDlq
  BY <1>1, <1>2 DEF PushDlq
<1>3. CASE \E s \in Sub : DeleteSub(s)
  BY <1>1, <1>3 DEF DeleteSub, SetSub, Inv, TypeOK
<1>4. CASE ReplayFinish
  <2>1. replay.pc = "ok" /\ d.id = replay.letter.id
    BY <1>4 DEF ReplayFinish
  <2> QED BY <2>1 DEF Inv, ReplayInv
<1>5. CASE UNCHANGED dlq
  BY <1>5
<1>6. CASE CutFails
  BY <1>6 DEF CutFails
<1>7. PushDlq \/ (\E s \in Sub : DeleteSub(s)) \/ ReplayFinish \/ CutFails \/ UNCHANGED dlq
  BY DEF Next, Ship, SiemWorker, SiemTake, SiemStamp, SiemSend, HookWorker, HookTake, HookPick, HookTry,
         Refill, SiemReplay, AddSub, ToggleSub, ReplayRead, ReplaySend, Crash, hook,
         StampFails, ListFails, HookAborts, ReplayFails
<1> QED BY <1>2, <1>3, <1>4, <1>5, <1>6, <1>7

\* A dead letter leaves the table only with its subscriber served, with its
\* subscription, or behind DlqKeep newer ones, whatever the operator's
\* replays, the worker and restarts do at the same time (replay_dlq,
\* _push_dlq).
THEOREM LettersAreKept == Spec => DeadLettersKept
<1>1. Inv /\ [Next]_vars =>
         [\A d \in dlq : (\A x \in dlq' : x.id # d.id) =>
             d.ev \in received[d.sub] \/ subs'[d.sub] = "gone" \/ d.id < lastDlq' - DlqKeep]_vars
  BY KeptStep
<1> QED BY <1>1, InvInit, InvStep, PTL DEF Spec, DeadLettersKept

-----------------------------------------------------------------------------
(* The rules: types *)

\* Counting up to the debounce stays within it, and reaches it only from the
\* step before.
LEMMA UpBounds ==
    ASSUME NEW n \in 0..Debounce
    PROVE  /\ Up(n) \in 0..Debounce
           /\ Up(n) = Debounce => n >= Debounce - 1
BY AlertAssumption DEF Up

\* What a call computes from its locals has the type of the row it stores.
LEMMA StoredType ==
    ASSUME NEW k \in CallState
    PROVE  Consecutive(k) \in 0..Debounce /\ Stored(k) \in StateRow
<1>1. k.prev.consecutive \in 0..Debounce
  BY DEF CallState, StateRow
<1>2. Consecutive(k) \in 0..Debounce
  BY <1>1, UpBounds, AlertAssumption DEF Consecutive
<1>3. (Active(k) /\ ~k.suppressed) \in BOOLEAN
  OBVIOUS
<1> QED BY <1>2, <1>3 DEF Stored, StateRow

\* A step of a call that leaves the other call alone keeps the type of both.
LEMMA CallType ==
    ASSUME AlertTypeOK, NEW c \in Caller
    PROVE  /\ call[c] \in CallState
           /\ Idle \in CallState
           /\ \A b \in BOOLEAN : [Idle EXCEPT !.pc = "load", !.firingNow = b] \in CallState
           /\ [call[c] EXCEPT !.pc = "notify", !.prev = row] \in CallState
           /\ [call[c] EXCEPT !.pc = "save", !.suppressed = silenced] \in CallState
<1>1. call[c] \in CallState /\ row \in StateRow /\ silenced \in BOOLEAN
  BY DEF AlertTypeOK
<1>2. Idle \in CallState
  BY AlertAssumption DEF Idle, CallState, StateRow
<1>5. ASSUME NEW b \in BOOLEAN
      PROVE  [Idle EXCEPT !.pc = "load", !.firingNow = b] \in CallState
  BY <1>2 DEF CallState
<1>3. [call[c] EXCEPT !.pc = "notify", !.prev = row] \in CallState
  BY <1>1 DEF CallState
<1>4. [call[c] EXCEPT !.pc = "save", !.suppressed = silenced] \in CallState
  BY <1>1 DEF CallState
<1> QED BY <1>1, <1>2, <1>3, <1>4, <1>5

\* Every step keeps the types.
LEMMA AlertTypeStep == AlertTypeOK /\ [AlertNext]_alertVars => AlertTypeOK'
<1> SUFFICES ASSUME AlertTypeOK, [AlertNext]_alertVars PROVE AlertTypeOK'
  OBVIOUS
<1>s. ASSUME NEW e \in AlertEvent, Spend(e) PROVE used' \in [AlertEvent -> Nat]
  BY <1>s DEF Spend, AlertTypeOK
<1>1. ASSUME NEW c \in Caller, Snapshot(c), used' \in [AlertEvent -> Nat] PROVE AlertTypeOK'
  <2>1. [Idle EXCEPT !.pc = "load", !.firingNow = cond] \in CallState
    BY CallType DEF AlertTypeOK
  <2> QED BY <1>1, <2>1 DEF Snapshot, AlertTypeOK
<1>2. ASSUME NEW c \in Caller, Load(c) PROVE AlertTypeOK'
  BY <1>2, CallType DEF Load, AlertTypeOK
<1>3. ASSUME NEW c \in Caller, Notify(c) PROVE AlertTypeOK'
  <2>1. call' \in [Caller -> CallState]
    BY <1>3, CallType DEF Notify, AlertTypeOK
  <2>2. told' \in {"none", "firing", "resolved"} /\ repeated' \in BOOLEAN
    <3>1. (told' = told /\ repeated' = repeated) \/ Send("firing") \/ Send("resolved")
      BY <1>3 DEF Notify
    <3> QED BY <3>1 DEF Send, AlertTypeOK
  <2> QED BY <1>3, <2>1, <2>2 DEF Notify, AlertTypeOK
<1>4. ASSUME NEW c \in Caller, Save(c) PROVE AlertTypeOK'
  <2>1. row' \in StateRow
    BY <1>4, CallType, StoredType DEF Save
  <2>2. cycles' \in 0..Debounce
    BY <1>4, UpBounds, AlertAssumption DEF Save, AlertTypeOK
  <2>3. call' \in [Caller -> CallState]
    BY <1>4, CallType DEF Save, AlertTypeOK
  <2> QED BY <1>4, <2>1, <2>2, <2>3 DEF Save, AlertTypeOK
<1>5. CASE Flip
  BY <1>5, <1>s DEF Flip, AlertEvent, AlertTypeOK
<1>6. CASE AddSilence \/ SilenceEnds
  BY <1>6, <1>s DEF AddSilence, SilenceEnds, AlertEvent, AlertTypeOK
<1>7. CASE Restart
  <2> Idle \in CallState
    BY CallType DEF Caller
  <2> QED BY <1>7, <1>s DEF Restart, AlertEvent, AlertTypeOK
<1>8. CASE UNCHANGED alertVars
  BY <1>8 DEF alertVars, AlertTypeOK
<1>9. CASE PollerTick \/ PageView
  BY <1>1, <1>9, <1>s DEF PollerTick, PageView, Caller, AlertEvent, AlertTypeOK
<1> QED BY <1>2, <1>3, <1>4, <1>5, <1>6, <1>7, <1>8, <1>9 DEF AlertNext, Goes

\* The initial state has the types.
LEMMA AlertTypeInit == AlertInit => AlertTypeOK
<1> SUFFICES ASSUME AlertInit PROVE AlertTypeOK
  OBVIOUS
<1> Idle \in CallState /\ [firing |-> FALSE, consecutive |-> 0] \in StateRow
  BY AlertAssumption DEF Idle, CallState, StateRow
<1>1. call \in [Caller -> CallState] /\ row \in StateRow
  BY DEF AlertInit
<1>2. cycles \in 0..Debounce /\ used \in [AlertEvent -> Nat]
  BY AlertAssumption DEF AlertInit
<1> QED BY <1>1, <1>2 DEF AlertInit, AlertTypeOK

\* The variables keep their types; in particular the stored count of matches
\* never leaves 0..Debounce.
THEOREM AlertTypeCorrect == AlertSpec => []AlertTypeOK
BY AlertTypeInit, AlertTypeStep, PTL DEF AlertSpec

-----------------------------------------------------------------------------
(* The rules: debounce *)

\* As long as nobody looks at the page the stored count is the number of the
\* poller's cycles in a row that saw the problem, and the row a call loaded is
\* still the stored one.
CountIsCycles ==
    used.view = 0 =>
        /\ call[Viewer].pc = "idle"
        /\ row.consecutive = cycles
        /\ call[Poller].pc \in {"notify", "save"} => call[Poller].prev = row

\* Every step keeps that.
LEMMA CountStep == AlertTypeOK /\ CountIsCycles /\ [AlertNext]_alertVars => CountIsCycles'
<1> SUFFICES ASSUME AlertTypeOK, CountIsCycles, [AlertNext]_alertVars, used'.view = 0
             PROVE  CountIsCycles'
  BY DEF CountIsCycles
<1>u. used.view = 0
  <2> used'.view = used.view \/ used'.view = used.view + 1
    BY DEF AlertNext, alertVars, PollerTick, PageView, Goes, Snapshot, Load, Notify, Save, Flip,
           AddSilence, SilenceEnds, Restart, Spend, AlertTypeOK, AlertEvent
  <2> QED BY DEF AlertTypeOK, AlertEvent
<1>v. /\ call[Viewer].pc = "idle" /\ row.consecutive = cycles
      /\ call[Poller].pc \in {"notify", "save"} => call[Poller].prev = row
  BY <1>u DEF CountIsCycles
<1>c. Poller \in Caller /\ Viewer \in Caller /\ Poller # Viewer
  BY AlertAssumption DEF Caller
<1>i. Idle.pc = "idle"
  BY DEF Idle
<1>1. CASE PollerTick
  <2>1. [Idle EXCEPT !.pc = "load", !.firingNow = cond].pc = "load"
    BY DEF Idle
  <2> QED BY <1>1, <1>c, <1>v, <2>1 DEF PollerTick, Snapshot, CountIsCycles, AlertTypeOK
<1>2. CASE PageView
  BY <1>2, <1>u DEF PageView, Spend, AlertTypeOK, AlertEvent
<1>3. ASSUME NEW c \in Caller, Goes(c) PROVE CountIsCycles'
  <2>1. c = Poller
    BY <1>3, <1>v DEF Goes, Load, Notify, Save, Caller
  <2>2. CASE Load(c)
    <3> DEFINE n == [call[c] EXCEPT !.pc = "notify", !.prev = row]
    <3>1. n.prev = row
      BY <1>c, <2>1 DEF AlertTypeOK, CallState
    <3>2. call' = [call EXCEPT ![c] = n] /\ UNCHANGED <<row, cycles>>
      BY <2>2 DEF Load
    <3> HIDE DEF n
    <3> QED BY <1>c, <1>v, <2>1, <3>1, <3>2 DEF CountIsCycles, AlertTypeOK
  <2>3. CASE Notify(c)
    <3> DEFINE n == [call[c] EXCEPT !.pc = "save", !.suppressed = silenced]
    <3>1. n.prev = call[c].prev
      BY <1>c, <2>1 DEF AlertTypeOK, CallState
    <3>2. call' = [call EXCEPT ![c] = n] /\ UNCHANGED <<row, cycles>> /\ call[c].pc = "notify"
      BY <2>3 DEF Notify
    <3> HIDE DEF n
    <3> QED BY <1>c, <1>v, <2>1, <3>1, <3>2 DEF CountIsCycles, AlertTypeOK
  <2>4. CASE Save(c)
    <3>1. call' = [call EXCEPT ![c] = Idle] /\ row' = Stored(call[c]) /\ call[c].pc = "save"
      BY <2>4 DEF Save
    <3>2. cycles' = IF call[c].firingNow THEN Up(cycles) ELSE 0
      BY <2>1, <2>4 DEF Save
    <3>3. row'.consecutive = cycles'
      BY <1>v, <2>1, <3>1, <3>2 DEF Stored, Consecutive
    <3> QED BY <1>c, <1>i, <1>v, <2>1, <3>1, <3>3 DEF CountIsCycles, AlertTypeOK
  <2> QED BY <1>3, <2>2, <2>3, <2>4 DEF Goes
<1>4. CASE Flip \/ AddSilence \/ SilenceEnds
  BY <1>4, <1>v DEF Flip, AddSilence, SilenceEnds, CountIsCycles
<1>5. CASE Restart
  BY <1>5, <1>c, <1>i, <1>v DEF Restart, CountIsCycles
<1>6. CASE UNCHANGED alertVars
  BY <1>6, <1>v DEF alertVars, CountIsCycles
<1> QED BY <1>1, <1>2, <1>3, <1>4, <1>5, <1>6 DEF AlertNext

\* A rule fires only in the Debounce-th cycle in a row that sees the problem,
\* for every debounce, also across silences and restarts in mid-call, as long
\* as nobody looks at /alerts/rules.
THEOREM DebounceHolds == AlertSpec => DebouncedUnseen
<1>1. AlertInit => CountIsCycles
  BY DEF AlertInit, CountIsCycles, Idle, Caller
<1>2. ASSUME AlertTypeOK, CountIsCycles, [AlertNext]_alertVars
      PROVE  told # "firing" /\ told' = "firing" => cycles >= Debounce - 1 \/ used.view > 0
  <2> SUFFICES ASSUME told # "firing", told' = "firing", ~(used.view > 0)
               PROVE  cycles >= Debounce - 1
    OBVIOUS
  <2>1. used.view = 0
    BY <1>2 DEF AlertTypeOK, AlertEvent
  <2>2. PICK c \in Caller : Notify(c)
    BY <1>2 DEF AlertNext, alertVars, PollerTick, PageView, Goes, Snapshot, Load, Save, Flip,
                AddSilence, SilenceEnds, Restart
  <2>3. c = Poller /\ call[c].prev = row /\ row.consecutive = cycles
    BY <1>2, <2>1, <2>2 DEF CountIsCycles, Notify, Caller
  <2>4. Fires(call[c])
    BY <2>2 DEF Notify, Send
  <2>5. Up(cycles) = Debounce
    BY <2>3, <2>4, AlertAssumption DEF Fires, Active, Consecutive
  <2>6. cycles \in 0..Debounce
    BY <1>2 DEF AlertTypeOK
  <2> QED BY <2>5, <2>6, UpBounds
<1> QED BY <1>1, <1>2, CountStep, AlertTypeInit, AlertTypeStep, PTL DEF AlertSpec, DebouncedUnseen

-----------------------------------------------------------------------------
(* The rules: deduplication *)

\* What "firing" is for the call's next reader: what it will store once it has
\* notified, the stored flag before that.
FiringNext ==
    IF call[Poller].pc = "save" THEN Stored(call[Poller]).firing ELSE row.firing

\* Without silences, crashes and page views: the flag is set exactly when the
\* last notice was a firing one, and only with a full count.
FlagIsTold ==
    Undisturbed =>
        /\ ~silenced /\ ~repeated
        /\ call[Viewer].pc = "idle"
        /\ row.firing => row.consecutive = Debounce
        /\ call[Poller].pc \in {"notify", "save"} => call[Poller].prev = row
        /\ call[Poller].pc = "save" => ~call[Poller].suppressed
        /\ FiringNext <=> told = "firing"

\* A quiet past: events are only ever counted up.
LEMMA UndisturbedBefore == AlertTypeOK /\ [AlertNext]_alertVars /\ Undisturbed' => Undisturbed
<1> SUFFICES ASSUME AlertTypeOK, [AlertNext]_alertVars, Undisturbed' PROVE Undisturbed
  OBVIOUS
<1>1. used \in [AlertEvent -> Nat]
  BY DEF AlertTypeOK
<1>2. used' = used \/ \E e \in AlertEvent : Spend(e)
  BY DEF AlertNext, alertVars, PollerTick, PageView, Goes, Snapshot, Load, Notify, Save, Flip,
         AddSilence, SilenceEnds, Restart, AlertEvent
<1>3. \A e \in AlertEvent : used'[e] = used[e] \/ used'[e] = used[e] + 1
  BY <1>1, <1>2 DEF Spend
<1>4. \A e \in AlertEvent : used'[e] = 0 => used[e] = 0
  BY <1>1, <1>3
<1> QED BY <1>4 DEF Undisturbed, AlertEvent

\* Every step keeps the flag in agreement with what was said.
LEMMA FlagStep == AlertTypeOK /\ FlagIsTold /\ [AlertNext]_alertVars => FlagIsTold'
<1> SUFFICES ASSUME AlertTypeOK, FlagIsTold, [AlertNext]_alertVars, Undisturbed'
             PROVE  FlagIsTold'
  BY DEF FlagIsTold
<1>u. Undisturbed /\ AlertTypeOK'
  BY UndisturbedBefore, AlertTypeStep
<1>n. /\ used.silence = 0 /\ used.restart = 0 /\ used.view = 0
      /\ used'.silence = 0 /\ used'.restart = 0 /\ used'.view = 0
  BY <1>u DEF Undisturbed
<1>v. /\ ~silenced /\ ~repeated
      /\ call[Viewer].pc = "idle"
      /\ row.firing => row.consecutive = Debounce
      /\ call[Poller].pc \in {"notify", "save"} => call[Poller].prev = row
      /\ call[Poller].pc = "save" => ~call[Poller].suppressed
      /\ FiringNext <=> told = "firing"
  BY <1>u DEF FlagIsTold
<1>c. Poller \in Caller /\ Viewer \in Caller /\ Poller # Viewer
  BY AlertAssumption DEF Caller
<1>k. call[Poller] \in CallState /\ row \in StateRow
  BY <1>c DEF AlertTypeOK
<1>1. CASE PollerTick
  <2> DEFINE n == [Idle EXCEPT !.pc = "load", !.firingNow = cond]
  <2>1. n.pc = "load"
    BY DEF Idle
  <2>2. call' = [call EXCEPT ![Poller] = n] /\ UNCHANGED <<row, silenced, told, repeated>>
        /\ call[Poller].pc = "idle"
    BY <1>1 DEF PollerTick, Snapshot
  <2> HIDE DEF n
  <2>3. call'[Poller] = n /\ call'[Viewer] = call[Viewer]
    BY <1>c, <2>2 DEF AlertTypeOK
  <2> QED BY <1>v, <2>1, <2>2, <2>3 DEF FlagIsTold, FiringNext
<1>2. CASE PageView \/ AddSilence \/ Restart
  BY <1>2, <1>n DEF PageView, AddSilence, Restart, Spend, AlertTypeOK, AlertEvent
<1>3. CASE SilenceEnds
  BY <1>3, <1>v DEF SilenceEnds
<1>4. CASE Flip \/ UNCHANGED alertVars
  BY <1>4, <1>v DEF Flip, alertVars, FlagIsTold, FiringNext
<1>5. ASSUME NEW c \in Caller, Goes(c) PROVE FlagIsTold'
  <2>1. c = Poller
    BY <1>5, <1>v DEF Goes, Load, Notify, Save, Caller
  <2>2. CASE Load(c)
    <3> DEFINE n == [call[Poller] EXCEPT !.pc = "notify", !.prev = row]
    <3>1. n.prev = row /\ n.pc = "notify"
      BY <1>k DEF CallState
    <3>2. call' = [call EXCEPT ![Poller] = n] /\ UNCHANGED <<row, silenced, told, repeated>>
          /\ call[Poller].pc = "load"
      BY <2>1, <2>2 DEF Load
    <3> HIDE DEF n
    <3>3. call'[Poller] = n /\ call'[Viewer] = call[Viewer]
      BY <1>c, <3>2 DEF AlertTypeOK
    <3> QED BY <1>v, <3>1, <3>2, <3>3 DEF FlagIsTold, FiringNext
  <2>3. CASE Notify(c)
    <3> DEFINE k == call[Poller]
               n == [k EXCEPT !.pc = "save", !.suppressed = silenced]
    <3>1. /\ n.prev = k.prev /\ n.pc = "save" /\ n.suppressed = silenced
          /\ n.firingNow = k.firingNow
      BY <1>k DEF CallState
    <3>2. call' = [call EXCEPT ![Poller] = n] /\ UNCHANGED <<row, silenced>> /\ k.pc = "notify"
      BY <2>1, <2>3 DEF Notify
    <3>3. k.prev = row /\ (row.firing <=> told = "firing")
      BY <1>v, <3>2 DEF FiringNext
    <3>4. /\ Fires(k) => Send("firing")
          /\ ~Fires(k) /\ Resolves(k) => Send("resolved")
          /\ ~Fires(k) /\ ~Resolves(k) => UNCHANGED <<told, repeated>>
      BY <1>v, <2>1, <2>3 DEF Notify, Fires, Resolves
    <3>5. Stored(n).firing <=> Active(k)
      BY <1>v, <3>1 DEF Stored, Active, Consecutive
    <3>6. Active(k) => k.firingNow
      BY AlertAssumption DEF Active, Consecutive
    <3>7. k.firingNow /\ row.firing => Active(k)
      BY <1>v, <3>3, AlertAssumption DEF Active, Consecutive, Up
    <3> HIDE DEF n, k
    <3>8. ~repeated' /\ (Stored(n).firing <=> told' = "firing")
      <4>1. /\ Fires(k) <=> Active(k) /\ ~row.firing
            /\ Resolves(k) <=> row.firing /\ ~k.firingNow
        BY <3>3 DEF Fires, Resolves
      <4>2. CASE Fires(k)
        BY <1>v, <3>3, <3>4, <3>5, <4>1, <4>2, Zenon DEF Send
      <4>3. CASE ~Fires(k) /\ Resolves(k)
        <5>1. told' = "resolved" /\ told # "resolved"
          BY <3>3, <3>4, <4>1, <4>3 DEF Send
        <5>2. ~repeated'
          BY <1>v, <3>4, <4>3, <5>1, Zenon DEF Send
        <5> QED BY <3>5, <3>6, <4>1, <4>3, <5>1, <5>2
      <4>4. CASE ~Fires(k) /\ ~Resolves(k)
        BY <1>v, <3>3, <3>4, <3>5, <3>6, <3>7, <4>1, <4>4
      <4> QED BY <4>2, <4>3, <4>4
    <3>9. call'[Poller] = n /\ call'[Viewer] = call[Viewer]
      BY <1>c, <3>2 DEF AlertTypeOK
    <3> QED BY <1>v, <3>1, <3>2, <3>3, <3>8, <3>9 DEF FlagIsTold, FiringNext
  <2>4. CASE Save(c)
    <3>1. /\ call' = [call EXCEPT ![Poller] = Idle] /\ UNCHANGED <<silenced, told, repeated>>
          /\ row' = Stored(call[Poller]) /\ call[Poller].pc = "save"
      BY <2>1, <2>4 DEF Save
    <3>2. call'[Poller] = Idle /\ call'[Viewer] = call[Viewer] /\ Idle.pc = "idle"
      BY <1>c, <3>1 DEF AlertTypeOK, Idle
    <3>3. row'.firing => row'.consecutive = Debounce
      BY <3>1 DEF Stored, Active
    <3>4. row'.firing <=> told = "firing"
      BY <1>v, <3>1 DEF FiringNext
    <3> QED BY <1>v, <3>1, <3>2, <3>3, <3>4 DEF FlagIsTold, FiringNext
  <2> QED BY <1>5, <2>2, <2>3, <2>4 DEF Goes
<1> QED BY <1>1, <1>2, <1>3, <1>4, <1>5 DEF AlertNext

\* Deduplication: without silences, crashes and page views no notice repeats
\* the one before it, for every debounce and every history of the predicate.
THEOREM NoticesNeverRepeat == AlertSpec => []NoticesAlternate
<1>1. AlertInit => FlagIsTold
  BY AlertAssumption DEF AlertInit, FlagIsTold, FiringNext, Idle, Caller
<1>2. FlagIsTold => NoticesAlternate
  BY DEF FlagIsTold, NoticesAlternate
<1> QED BY <1>1, <1>2, FlagStep, AlertTypeInit, AlertTypeStep, PTL DEF AlertSpec
=============================================================================
