-------------------------- MODULE ReconcilerProofs --------------------------
(***************************************************************************)
(* Proofs about Reconciler for every set of texts, targets and runners and *)
(* every value of the bounds.                                              *)
(***************************************************************************)
EXTENDS Reconciler, TLAPS

\* The batches are slices: whatever the order and the cap, a batch of adds
\* consists of wanted texts.
LEMMA AddBatchWanted ==
    ASSUME NEW t, NEW D, NEW L
    PROVE  AddBatch(t, D, L) \subseteq Wanted(t, D)
BY DEF AddBatch, First, ToAdd

\* The filters of a target only drop texts.
LEMMA WantedDesired ==
    ASSUME NEW t, NEW D
    PROVE  Wanted(t, D) \subseteq D
BY DEF Wanted, First, Kept

\* Every id of a batch of removes is that of an entry of ours, seen in the
\* snapshot, whose address is not wanted.
LEMMA RemoveBatchOwned ==
    ASSUME NEW t, NEW D, NEW L, NEW i \in RemoveBatch(t, D, L)
    PROVE  \E e \in L : e.id = i /\ e.owned /\ Norm[e.text] \notin Addrs(Wanted(t, D))
BY DEF RemoveBatch, First, ToRemove, Holders, Owned

-----------------------------------------------------------------------------
(* Type correctness *)

\* Storing a well-formed worker keeps the table of workers well-formed.
LEMMA WorkUpdate ==
    ASSUME TypeOK, NEW r \in Runner, NEW t \in Target, NEW w \in WorkState
    PROVE  [work EXCEPT ![r][t] = w] \in [Runner -> [Target -> WorkState]]
BY DEF TypeOK

\* A worker's batches have the types of the fields that hold them.
LEMMA BatchTypes ==
    ASSUME NEW t \in Target, NEW D \in SUBSET Text, NEW L \in SUBSET Entry
    PROVE  /\ AddBatch(t, D, L) \in SUBSET Text
           /\ RemoveBatch(t, D, L) \in SUBSET Nat
<1>1. AddBatch(t, D, L) \in SUBSET Text
  BY AddBatchWanted, WantedDesired
<1>2. RemoveBatch(t, D, L) \in SUBSET Nat
  <2> SUFFICES ASSUME NEW i \in RemoveBatch(t, D, L) PROVE i \in Nat
    OBVIOUS
  <2> PICK e \in L : e.id = i
    BY RemoveBatchOwned
  <2> QED BY DEF Entry
<1> QED BY <1>1, <1>2

\* Every step keeps the types: what TypeOK states of the start-up state of
\* run_once, its workers and the tables it writes holds throughout.
LEMMA TypeStep == TypeOK /\ [Next]_vars => TypeOK'
<1> SUFFICES ASSUME TypeOK, [Next]_vars PROVE TypeOK'
  OBVIOUS
<1> USE DEF config, routers, results, Unsettled
<1> Idle \in RunState /\ Off \in WorkState
  BY DEF Idle, RunState, Off, WorkState
<1>1. CASE TickStart
  <2> [Idle EXCEPT !.phase = "pull", !.live = ~dryNow] \in RunState
    BY DEF Idle, RunState, TypeOK
  <2> QED BY <1>1 DEF TickStart, TypeOK
<1>2. ASSUME NEW r \in Runner, NEW dry \in BOOLEAN, NEW live \in BOOLEAN,
             RunStart(r, dry, live)
      PROVE  TypeOK'
  <2>1. [phase |-> "run", desired |-> desired, dry |-> dry, live |-> live] \in RunState
    BY DEF RunState, TypeOK
  <2>2. ASSUME NEW t \in Target
        PROVE  [Off EXCEPT !.pc = "snap", !.dry = (t \in rowDry)] \in WorkState
    <3> (t \in rowDry) \in BOOLEAN
      OBVIOUS
    <3> QED BY DEF Off, WorkState
  <2>3. run' \in [Runner -> RunState] /\ raised' \in SUBSET Runner
    BY <1>2, <2>1 DEF RunStart, TypeOK
  <2>4. work' \in [Runner -> [Target -> WorkState]]
    <3> DEFINE w == [t \in Target |-> IF t \in rows
                       THEN [Off EXCEPT !.pc = "snap", !.dry = (t \in rowDry)] ELSE Off]
    <3>1. w \in [Target -> WorkState]
      BY <2>2
    <3>2. work' = work \/ work' = [work EXCEPT ![r] = w]
      BY <1>2 DEF RunStart
    <3> HIDE DEF w
    <3> QED BY <3>1, <3>2 DEF TypeOK
  <2> QED BY <1>2, <2>3, <2>4 DEF RunStart, TypeOK
<1>3. ASSUME NEW r \in Runner, NEW t \in Target, NEW L \in SUBSET list[t],
             NEW how \in {"clean", "swallowed", "raised"}, SnapshotAs(r, t, how, L),
             faults' \in Nat
      PROVE  TypeOK'
  <2> DEFINE w == [work[r][t] EXCEPT !.pc = "decide", !.snap = how,
                     !.adds = AddBatch(t, run[r].desired, L),
                     !.rems = RemoveBatch(t, run[r].desired, L)]
  <2>1. w \in WorkState
    <3>1. L \in SUBSET Entry /\ run[r].desired \in SUBSET Text /\ work[r][t] \in WorkState
      BY DEF TypeOK, RunState
    <3> QED BY <3>1, BatchTypes DEF WorkState
  <2>2. work' = [work EXCEPT ![r][t] = w]
    BY <1>3 DEF SnapshotAs, Becomes
  <2>3. work' \in [Runner -> [Target -> WorkState]]
    BY <2>1, <2>2, WorkUpdate
  <2> QED BY <1>3, <2>3 DEF SnapshotAs, TypeOK
<1>4. ASSUME NEW r \in Runner, NEW t \in Target, NEW w \in WorkState,
             Decided(r, t, w), faults' \in Nat
      PROVE  TypeOK'
  <2>1. work' \in [Runner -> [Target -> WorkState]]
    BY <1>4, WorkUpdate DEF Decided, Becomes
  <2> QED BY <1>4, <2>1 DEF Decided, TypeOK
<1>5. ASSUME NEW r \in Runner, NEW t \in Target, NEW w \in Write,
             NEW adds \in SUBSET Text, NEW rems \in SUBSET Nat,
             Logged(r, t, w, adds, rems)
      PROVE  work' \in [Runner -> [Target -> WorkState]]
  <2> DEFINE v == [work[r][t] EXCEPT !.adds = adds, !.rems = rems,
                     !.log = work[r][t].log \cup {w},
                     !.pc = IF adds \cup rems = {} THEN "done" ELSE "apply"]
  <2>1. v \in WorkState
    <3> work[r][t] \in WorkState
      BY DEF TypeOK
    <3> work[r][t].log \cup {w} \in SUBSET Write
      BY DEF WorkState
    <3> QED BY DEF WorkState
  <2>2. work' = [work EXCEPT ![r][t] = v]
    BY <1>5 DEF Logged, Becomes
  <2> QED BY <2>1, <2>2, WorkUpdate
<1>6. ASSUME NEW r \in Runner, NEW t \in Target, NEW x \in work[r][t].adds, AddLogged(r, t, x)
      PROVE  work' \in [Runner -> [Target -> WorkState]] /\ x \in Text /\ [add |-> x] \in Write
  <2>1. work[r][t].adds \in SUBSET Text /\ work[r][t].rems \in SUBSET Nat
    BY DEF TypeOK, WorkState
  <2>2. [add |-> x] \in Write
    BY <2>1 DEF Write
  <2> QED BY <1>5, <1>6, <2>1, <2>2 DEF AddLogged
<1>7. ASSUME NEW r \in Runner, NEW t \in Target, NEW i \in work[r][t].rems, RemoveLogged(r, t, i)
      PROVE  work' \in [Runner -> [Target -> WorkState]] /\ [remove |-> i] \in Write
  <2>1. work[r][t].adds \in SUBSET Text /\ work[r][t].rems \in SUBSET Nat
    BY DEF TypeOK, WorkState
  <2>2. [remove |-> i] \in Write
    BY <2>1 DEF Write
  <2> QED BY <1>5, <1>7, <2>1, <2>2 DEF RemoveLogged
<1>8. ASSUME NEW r \in Runner, NEW t \in Target, AddLands(r, t)
      PROVE  TypeOK'
  <2> PICK x \in work[r][t].adds :
        /\ list' = [list EXCEPT ![t] = @ \cup {[id |-> nextId, text |-> x, owned |-> TRUE]}]
        /\ nextId' = nextId + 1
        /\ unlogged' = [unlogged EXCEPT ![r] = @ \cup {[add |-> x]}]
        /\ AddLogged(r, t, x)
        /\ UNCHANGED <<faults, Unsettled>>
    BY <1>8 DEF AddLands
  <2>1. [id |-> nextId, text |-> x, owned |-> TRUE] \in Entry
    BY <1>6 DEF Entry, TypeOK
  <2>2. list' \in [Target -> SUBSET Entry] /\ nextId' \in Nat
    <3> DEFINE new == [id |-> nextId, text |-> x, owned |-> TRUE]
    <3>1. list' = [list EXCEPT ![t] = @ \cup {new}] /\ new \in Entry
      BY <2>1
    <3> HIDE DEF new
    <3> QED BY <3>1 DEF TypeOK
  <2>3. unlogged' \in [Runner -> SUBSET Write]
    BY <1>6 DEF TypeOK
  <2>4. work' \in [Runner -> [Target -> WorkState]]
    BY <1>6
  <2> QED BY <2>2, <2>3, <2>4 DEF TypeOK
<1>9. ASSUME NEW r \in Runner, NEW t \in Target, AddDuplicate(r, t) \/ AddFails(r, t),
             faults' \in Nat
      PROVE  TypeOK'
  BY <1>6, <1>9 DEF AddDuplicate, AddFails, TypeOK
<1>10. ASSUME NEW r \in Runner, NEW t \in Target, RemoveLands(r, t)
       PROVE  TypeOK'
  <2> PICK i \in work[r][t].rems, e \in list[t] :
        /\ list' = [list EXCEPT ![t] = @ \ {e}]
        /\ unlogged' = [unlogged EXCEPT ![r] = @ \cup {[remove |-> i]}]
        /\ RemoveLogged(r, t, i)
        /\ UNCHANGED <<nextId, faults, Unsettled>>
    BY <1>10 DEF RemoveLands
  <2>1. list' \in [Target -> SUBSET Entry]
    BY DEF TypeOK
  <2>2. unlogged' \in [Runner -> SUBSET Write]
    BY <1>7 DEF TypeOK
  <2>3. work' \in [Runner -> [Target -> WorkState]]
    BY <1>7
  <2> QED BY <2>1, <2>2, <2>3 DEF TypeOK
<1>11. ASSUME NEW r \in Runner, NEW t \in Target, RemoveGone(r, t) \/ RemoveFails(r, t),
              faults' \in Nat
       PROVE  TypeOK'
  BY <1>7, <1>11 DEF RemoveGone, RemoveFails, TypeOK
<1>12. ASSUME NEW r \in Runner, Finish(r) \/ FinishFails(r) PROVE TypeOK'
  <2>1. CASE Finish(r)
    BY <2>1 DEF Finish, SnapshotOk, TypeOK
  <2>2. CASE FinishFails(r)
    BY <2>2 DEF FinishFails, Fault, TypeOK
  <2> QED BY <1>12, <2>1, <2>2
<1>13. CASE DesiredChanges
  BY <1>13 DEF DesiredChanges, Change, TypeOK
<1>14. CASE Operator
  <2>1. ASSUME NEW dry \in BOOLEAN, NEW owner \in BOOLEAN, SaveSettings(dry, owner)
        PROVE  TypeOK'
    <3>1. \A r \in Runner :
            [run[r] EXCEPT !.live = @ \/ (run[r].phase # "idle" /\ ~dry)] \in RunState
      BY DEF TypeOK, RunState
    <3> QED BY <2>1, <3>1 DEF SaveSettings, Change, TypeOK
  <2>2. ASSUME NEW t \in Target, NEW dry \in BOOLEAN, AddTarget(t, dry) PROVE TypeOK'
    BY <2>2 DEF AddTarget, Change, TypeOK
  <2>3. ASSUME NEW t \in Target, DeleteTarget(t) PROVE TypeOK'
    BY <2>3 DEF DeleteTarget, Change, TypeOK
  <2>4. ASSUME NEW t \in Target, PromoteTarget(t) PROVE TypeOK'
    <3>1. ASSUME NEW r \in Runner PROVE [work[r][t] EXCEPT !.dry = FALSE] \in WorkState
      <4> work[r][t] \in WorkState
        BY DEF TypeOK
      <4> QED BY DEF WorkState
    <3>2. work' \in [Runner -> [Target -> WorkState]]
      BY <2>4, <3>1 DEF PromoteTarget, TypeOK
    <3> QED BY <2>4, <3>2 DEF PromoteTarget, Change, TypeOK
  <2>5. ASSUME NEW t \in Target, NEW x \in Text, OperatorAdds(t, x) PROVE TypeOK'
    <3>1. [id |-> nextId, text |-> x, owned |-> FALSE] \in Entry
      BY DEF Entry, TypeOK
    <3>2. list' \in [Target -> SUBSET Entry]
      BY <2>5, <3>1 DEF OperatorAdds, TypeOK
    <3> QED BY <2>5, <3>2 DEF OperatorAdds, Edit, TypeOK
  <2>6. ASSUME NEW t \in Target, NEW e \in list[t], OperatorRemoves(t, e) PROVE TypeOK'
    BY <2>6 DEF OperatorRemoves, Edit, TypeOK
  <2> QED BY <1>14, <2>1, <2>2, <2>3, <2>4, <2>5, <2>6 DEF Operator
<1>15. CASE Restart
  BY <1>15, BoundAssumption DEF Restart, Fault, TypeOK
<1>16. CASE UNCHANGED vars
  BY <1>16 DEF vars, TypeOK
<1>17. Poller \in Runner /\ DryBoot \in BOOLEAN /\ dryNow \in BOOLEAN /\ pollerDry \in BOOLEAN
       /\ run[Poller].live \in BOOLEAN
  BY BoundAssumption DEF TypeOK, RunState
<1>18. CASE PollerRun
  BY <1>2, <1>17, <1>18 DEF PollerRun
<1>19. ASSUME NEW r \in Runner, ManualRun(r) PROVE TypeOK'
  <2> (~dryNow) \in BOOLEAN
    OBVIOUS
  <2> QED BY <1>2, <1>17, <1>19 DEF ManualRun, ManualFlags
<1>20. ASSUME NEW r \in Runner, NEW t \in Target, Worker(r, t) PROVE TypeOK'
  <2> faults' \in Nat
    <3> faults' = faults \/ Fault
      BY <1>20 DEF Worker, SnapshotClean, SnapshotSwallowed, SnapshotRaised, Decide,
                   ConnectFails, Apply, AddLands, AddDuplicate, AddRefused, RemoveLands, RemoveGone
    <3> QED BY DEF Fault, TypeOK
  <2>1. CASE SnapshotClean(r, t) \/ SnapshotSwallowed(r, t) \/ SnapshotRaised(r, t)
    BY <1>3, <2>1 DEF SnapshotClean, SnapshotSwallowed, SnapshotRaised
  <2>2. CASE Decide(r, t) \/ ConnectFails(r, t)
    <3> work[r][t] \in WorkState
      BY DEF TypeOK
    <3> /\ [work[r][t] EXCEPT !.pc = "done", !.adds = {}, !.rems = {}] \in WorkState
        /\ [work[r][t] EXCEPT !.pc = "apply"] \in WorkState
      BY DEF WorkState
    <3> QED BY <1>4, <2>2 DEF Decide, ConnectFails, SkipBatch
  <2>3. CASE Apply(r, t)
    BY <1>8, <1>9, <1>10, <1>11, <2>3 DEF Apply, AddRefused
  <2> QED BY <1>20, <2>1, <2>2, <2>3 DEF Worker
<1> QED
  BY <1>1, <1>12, <1>13, <1>14, <1>15, <1>16, <1>18, <1>19, <1>20 DEF Next, Running

\* The variables of every reachable state have the types TypeOK gives them,
\* for any number of runners, targets and addresses.
THEOREM TypeCorrect == Spec => []TypeOK
<1>1. Init => TypeOK
  <2> SUFFICES ASSUME Init PROVE TypeOK
    OBVIOUS
  <2> Idle \in RunState /\ Off \in WorkState
    BY DEF Idle, RunState, Off, WorkState
  <2> QED BY BoundAssumption DEF Init, TypeOK
<1> QED BY <1>1, TypeStep, PTL DEF Spec

-----------------------------------------------------------------------------
(* What is pending is justified *)

\* The strengthening: a stale batch stays justified because ids are never
\* given out twice, and because locals die with their run.
PendingInv == TypeOK /\ IdsUnique /\ WorkersBelongToRuns /\ PendingJustified

\* What the lists may do under a pending batch: lose entries, and gain entries
\* under ids that were not given out yet.
ListsGrowFresh ==
    /\ nextId' \in Nat /\ nextId <= nextId'
    /\ \A t \in Target : \A e \in list'[t] :
          e \in list[t] \/ (e.id = nextId /\ nextId < nextId')
    /\ \A t \in Target : \A e, f \in list'[t] : e.id = nextId /\ f.id = nextId => e = f

\* What a step may do to a batch: drop it, or shorten it within its run.
BatchShrinks(r, t) ==
    \/ work'[r][t].adds = {} /\ work'[r][t].rems = {}
    \/ /\ run'[r].desired = run[r].desired
       /\ work'[r][t].adds \subseteq work[r][t].adds
       /\ work'[r][t].rems \subseteq work[r][t].rems

NoWork(r, t) == work[r][t].pc = "off" /\ work[r][t].adds = {} /\ work[r][t].rems = {}

\* Adding an entry under the next id is such a growth.
LEMMA FreshEntry ==
    ASSUME TypeOK, IdsUnique, NEW t \in Target, NEW e, e.id = nextId,
           list' = [list EXCEPT ![t] = @ \cup {e}], nextId' = nextId + 1
    PROVE  ListsGrowFresh
<1> nextId \in Nat /\ \A u \in Target : \A f \in list[u] : f.id \in Nat /\ f.id # nextId
  BY DEF TypeOK, Entry, IdsUnique
<1> \A u \in Target : \A f \in list'[u] : f \in list[u] \/ (u = t /\ f = e)
  BY DEF TypeOK
<1> QED BY DEF ListsGrowFresh

\* No id is given out twice.
LEMMA IdsStayUnique ==
    ASSUME TypeOK, IdsUnique, ListsGrowFresh
    PROVE  IdsUnique'
<1> SUFFICES ASSUME NEW t \in Target, NEW e \in list'[t], NEW f \in list'[t]
             PROVE  e.id < nextId' /\ (e.id = f.id => e = f)
  BY DEF IdsUnique
<1> nextId \in Nat /\ \A g \in list[t] : g.id \in Nat
  BY DEF TypeOK, Entry
<1> QED BY DEF IdsUnique, ListsGrowFresh

\* A batch that only shrank, over lists that grew fresh, is still justified.
LEMMA StillJustified ==
    ASSUME PendingInv, ListsGrowFresh, NEW r \in Runner, NEW t \in Target, BatchShrinks(r, t)
    PROVE  LET W == Wanted(t, run'[r].desired) IN
           /\ work'[r][t].adds \subseteq W
           /\ \A i \in work'[r][t].rems : i < nextId'
           /\ \A e \in list'[t] : e.id \in work'[r][t].rems =>
                 e.owned /\ Norm[e.text] \notin Addrs(W)
<1> nextId \in Nat /\ work[r][t].rems \in SUBSET Nat
  BY DEF PendingInv, TypeOK, WorkState
<1> QED BY DEF PendingInv, PendingJustified, ListsGrowFresh, BatchShrinks

\* A fresh batch is justified by the snapshot it was computed from, also when
\* only a part of the list arrived.
LEMMA SnapshotJustified ==
    ASSUME PendingInv, NEW t \in Target, NEW D \in SUBSET Text, NEW L \in SUBSET list[t]
    PROVE  /\ AddBatch(t, D, L) \subseteq Wanted(t, D)
           /\ \A i \in RemoveBatch(t, D, L) : i < nextId
           /\ \A e \in list[t] : e.id \in RemoveBatch(t, D, L) =>
                 e.owned /\ Norm[e.text] \notin Addrs(Wanted(t, D))
BY AddBatchWanted, RemoveBatchOwned DEF PendingInv, IdsUnique

\* Every step keeps the strengthened invariant.
LEMMA PendingStep == PendingInv /\ [Next]_vars => PendingInv'
<1> SUFFICES ASSUME PendingInv, [Next]_vars PROVE PendingInv'
  OBVIOUS
<1> USE DEF config, routers, results, Unsettled
<1>t. TypeOK /\ TypeOK'
  BY TypeStep DEF PendingInv
<1>o. Off.adds = {} /\ Off.rems = {} /\ Off.pc = "off"
  BY DEF Off
<1>k. ASSUME UNCHANGED <<list, nextId>> PROVE ListsGrowFresh
  BY <1>k, <1>t DEF ListsGrowFresh, TypeOK, PendingInv, IdsUnique
<1>q. ASSUME ListsGrowFresh, WorkersBelongToRuns',
             \A r \in Runner, t \in Target : BatchShrinks(r, t)
      PROVE  PendingInv'
  <2>1. IdsUnique'
    BY <1>q, IdsStayUnique DEF PendingInv
  <2>2. PendingJustified'
    BY <1>q, StillJustified DEF PendingJustified
  <2> QED BY <1>q, <1>t, <2>1, <2>2 DEF PendingInv
<1>1. CASE TickStart
  <2>1. WorkersBelongToRuns' /\ \A r \in Runner, t \in Target : BatchShrinks(r, t)
    BY <1>1, <1>o, <1>t, BoundAssumption
       DEF TickStart, PendingInv, WorkersBelongToRuns, BatchShrinks, TypeOK, Idle
  <2> QED BY <1>1, <1>k, <1>q, <2>1 DEF TickStart
<1>2. ASSUME NEW r \in Runner, NEW dry, NEW live, RunStart(r, dry, live), run[r].phase # "run"
      PROVE  PendingInv'
  <2>1. ASSUME NEW q \in Runner, NEW t \in Target
        PROVE  /\ run'[q].phase # "run" => NoWork(q, t)'
               /\ BatchShrinks(q, t)
    <3>1. CASE q = r
      <4>1. CASE rows = {}
        BY <1>2, <1>o, <1>t, <3>1, <4>1
           DEF RunStart, PendingInv, WorkersBelongToRuns, NoWork, BatchShrinks, TypeOK
      <4>2. CASE rows # {}
        <5> DEFINE w == [u \in Target |-> IF u \in rows
                           THEN [Off EXCEPT !.pc = "snap", !.dry = (u \in rowDry)] ELSE Off]
                   n == [phase |-> "run", desired |-> desired, dry |-> dry, live |-> live]
        <5>1. work' = [work EXCEPT ![r] = w] /\ run' = [run EXCEPT ![r] = n]
          BY <1>2, <4>2 DEF RunStart
        <5>2. w[t].adds = {} /\ w[t].rems = {} /\ n.phase = "run"
          BY DEF Off
        <5> HIDE DEF w, n
        <5>3. work'[q] = w /\ run'[q] = n
          BY <1>t, <3>1, <5>1 DEF TypeOK
        <5> QED BY <5>2, <5>3 DEF BatchShrinks
      <4> QED BY <4>1, <4>2
    <3>2. CASE q # r
      <4> work'[q] = work[q] /\ run'[q] = run[q]
        BY <1>2, <1>t, <3>2 DEF RunStart, TypeOK
      <4> QED BY DEF PendingInv, WorkersBelongToRuns, NoWork, BatchShrinks
    <3> QED BY <3>1, <3>2
  <2> QED BY <1>2, <1>k, <1>q, <2>1 DEF RunStart, WorkersBelongToRuns, NoWork
<1>3. ASSUME NEW r \in Runner, NEW t \in Target, NEW w, Becomes(r, t, w), UNCHANGED run,
             work[r][t].pc # "off"
      PROVE  /\ WorkersBelongToRuns'
             /\ work'[r][t] = w
             /\ \A q \in Runner, u \in Target : <<q, u>> # <<r, t>> => BatchShrinks(q, u)
  <2>1. run[r].phase = "run"
    BY <1>3, <1>o DEF PendingInv, WorkersBelongToRuns
  <2>2. \A q \in Runner, u \in Target : work'[q][u] = IF q = r /\ u = t THEN w ELSE work[q][u]
    BY <1>3, <1>t DEF Becomes, TypeOK
  <2> QED BY <1>3, <2>1, <2>2 DEF PendingInv, WorkersBelongToRuns, BatchShrinks
<1>4. ASSUME NEW r \in Runner, NEW t \in Target, NEW w \in WorkState, Becomes(r, t, w),
             UNCHANGED run, work[r][t].pc # "off", ListsGrowFresh,
             w.adds \subseteq work[r][t].adds, w.rems \subseteq work[r][t].rems
      PROVE  PendingInv'
  <2> \A q \in Runner, u \in Target : BatchShrinks(q, u)
    BY <1>3, <1>4 DEF BatchShrinks
  <2> QED BY <1>3, <1>4, <1>q
<1>5. ASSUME NEW r \in Runner, NEW t \in Target, NEW L \in SUBSET list[t], NEW how,
             SnapshotAs(r, t, how, L)
      PROVE  PendingInv'
  <2> DEFINE D == run[r].desired
             w == [work[r][t] EXCEPT !.pc = "decide", !.snap = how,
                     !.adds = AddBatch(t, D, L), !.rems = RemoveBatch(t, D, L)]
  <2>1. Becomes(r, t, w) /\ UNCHANGED <<run, list, nextId>> /\ work[r][t].pc # "off"
    BY <1>5 DEF SnapshotAs
  <2>2. work[r][t] \in WorkState /\ D \in SUBSET Text
    BY <1>t DEF TypeOK, RunState
  <2>3. w.adds = AddBatch(t, D, L) /\ w.rems = RemoveBatch(t, D, L)
    BY <2>2 DEF WorkState
  <2> HIDE DEF w
  <2>4. ListsGrowFresh
    BY <1>k, <2>1
  <2>5. PendingJustified'
    <3> SUFFICES ASSUME NEW q \in Runner, NEW u \in Target
                 PROVE  LET W == Wanted(u, run'[q].desired) IN
                        /\ work'[q][u].adds \subseteq W
                        /\ \A i \in work'[q][u].rems : i < nextId'
                        /\ \A e \in list'[u] : e.id \in work'[q][u].rems =>
                              e.owned /\ Norm[e.text] \notin Addrs(W)
      BY DEF PendingJustified
    <3>1. CASE q = r /\ u = t
      BY <1>3, <2>1, <2>2, <2>3, <3>1, SnapshotJustified
    <3>2. CASE ~(q = r /\ u = t)
      BY <1>3, <2>1, <2>4, <3>2, StillJustified
    <3> QED BY <3>1, <3>2
  <2> QED BY <1>3, <1>t, <2>1, <2>4, <2>5, IdsStayUnique DEF PendingInv
<1>6. ASSUME NEW r \in Runner, NEW t \in Target, NEW v, NEW adds \in SUBSET work[r][t].adds,
             NEW rems \in SUBSET work[r][t].rems, Logged(r, t, v, adds, rems),
             UNCHANGED run, work[r][t].pc # "off", ListsGrowFresh
      PROVE  PendingInv'
  <2> DEFINE w == [work[r][t] EXCEPT !.adds = adds, !.rems = rems,
                      !.log = work[r][t].log \cup {v},
                      !.pc = IF adds \cup rems = {} THEN "done" ELSE "apply"]
  <2>1. work[r][t] \in WorkState /\ Becomes(r, t, w)
    BY <1>6, <1>t DEF TypeOK, Logged
  <2>2. w.adds = adds /\ w.rems = rems
    BY <2>1 DEF WorkState
  <2>3. w \in WorkState
    <3> work'[r][t] \in WorkState
      BY <1>t DEF TypeOK
    <3> work'[r][t] = w
      BY <2>1, <1>t DEF Becomes, TypeOK
    <3> QED OBVIOUS
  <2> HIDE DEF w
  <2> QED BY <1>4, <1>6, <2>1, <2>2, <2>3
<1>7. ASSUME NEW r \in Runner, NEW t \in Target, Apply(r, t) PROVE PendingInv'
  <2>1. ASSUME NEW x \in work[r][t].adds, NextAdd(r, t, x), AddLogged(r, t, x), UNCHANGED run,
               ListsGrowFresh
        PROVE  PendingInv'
    BY <1>6, <2>1 DEF AddLogged, NextAdd
  <2>2. ASSUME NEW i \in work[r][t].rems, NextRemove(r, t, i), RemoveLogged(r, t, i),
               UNCHANGED run, ListsGrowFresh
        PROVE  PendingInv'
    BY <1>6, <2>2 DEF RemoveLogged, NextRemove
  <2>3. CASE AddLands(r, t)
    <3> PICK x \in work[r][t].adds :
          /\ NextAdd(r, t, x)
          /\ list' = [list EXCEPT ![t] = @ \cup {[id |-> nextId, text |-> x, owned |-> TRUE]}]
          /\ nextId' = nextId + 1
          /\ AddLogged(r, t, x)
          /\ UNCHANGED run
      BY <2>3 DEF AddLands
    <3> DEFINE e == [id |-> nextId, text |-> x, owned |-> TRUE]
    <3>1. list' = [list EXCEPT ![t] = @ \cup {e}] /\ nextId' = nextId + 1 /\ e.id = nextId
      OBVIOUS
    <3> HIDE DEF e
    <3> ListsGrowFresh
      BY <1>t, <3>1, FreshEntry DEF PendingInv
    <3> QED BY <2>1
  <2>4. CASE AddDuplicate(r, t) \/ AddFails(r, t)
    BY <1>k, <2>1, <2>4 DEF AddDuplicate, AddFails
  <2>5. CASE RemoveLands(r, t)
    <3> PICK i \in work[r][t].rems, e \in list[t] :
          /\ NextRemove(r, t, i)
          /\ list' = [list EXCEPT ![t] = @ \ {e}]
          /\ nextId' = nextId
          /\ RemoveLogged(r, t, i)
          /\ UNCHANGED run
      BY <2>5 DEF RemoveLands
    <3> ListsGrowFresh
      BY <1>t DEF ListsGrowFresh, TypeOK, PendingInv, IdsUnique
    <3> QED BY <2>2
  <2>6. CASE RemoveGone(r, t) \/ RemoveFails(r, t)
    BY <1>k, <2>2, <2>6 DEF RemoveGone, RemoveFails
  <2> QED BY <1>7, <2>3, <2>4, <2>5, <2>6 DEF Apply, AddRefused
<1>8. ASSUME NEW r \in Runner, NEW t \in Target, Worker(r, t) PROVE PendingInv'
  <2>1. CASE SnapshotClean(r, t) \/ SnapshotSwallowed(r, t) \/ SnapshotRaised(r, t)
    BY <1>5, <2>1 DEF SnapshotClean, SnapshotSwallowed, SnapshotRaised
  <2>2. CASE Decide(r, t) \/ ConnectFails(r, t)
    <3>1. PICK w : /\ Decided(r, t, w)
                   /\ \/ w = [work[r][t] EXCEPT !.pc = "done", !.adds = {}, !.rems = {}]
                      \/ w = [work[r][t] EXCEPT !.pc = "apply"]
      BY <2>2 DEF Decide, ConnectFails, SkipBatch
    <3>2. work[r][t] \in WorkState
      BY <1>t DEF TypeOK
    <3>3. w \in WorkState /\ w.adds \subseteq work[r][t].adds /\ w.rems \subseteq work[r][t].rems
      BY <3>1, <3>2 DEF WorkState
    <3>4. Becomes(r, t, w) /\ UNCHANGED <<run, list, nextId>> /\ work[r][t].pc # "off"
      BY <3>1 DEF Decided
    <3> QED BY <1>4, <1>k, <3>3, <3>4
  <2> QED BY <1>7, <1>8, <2>1, <2>2 DEF Worker
<1>9. ASSUME NEW r \in Runner, Finish(r) \/ FinishFails(r) PROVE PendingInv'
  <2> /\ run' = [run EXCEPT ![r] = Idle]
      /\ work' = [work EXCEPT ![r] = [t \in Target |-> Off]]
      /\ UNCHANGED <<list, nextId>>
    BY <1>9 DEF Finish, FinishFails
  <2> \A q \in Runner, t \in Target :
        /\ run'[q].phase # "run" => NoWork(q, t)'
        /\ BatchShrinks(q, t)
    BY <1>o, <1>t DEF PendingInv, WorkersBelongToRuns, NoWork, BatchShrinks, TypeOK
  <2> QED BY <1>k, <1>q DEF WorkersBelongToRuns, NoWork
<1>10. ASSUME UNCHANGED <<run, work>>, ListsGrowFresh PROVE PendingInv'
  BY <1>10, <1>q DEF PendingInv, WorkersBelongToRuns, BatchShrinks
<1>11. CASE DesiredChanges
  BY <1>10, <1>11, <1>k DEF DesiredChanges
<1>12. CASE Operator
  <2>1. ASSUME NEW dry, NEW owner, SaveSettings(dry, owner) PROVE PendingInv'
    <3> \A r \in Runner : run'[r].phase = run[r].phase /\ run'[r].desired = run[r].desired
      BY <1>t, <2>1 DEF SaveSettings, TypeOK, RunState
    <3> UNCHANGED <<work, list, nextId>>
      BY <2>1 DEF SaveSettings
    <3> QED BY <1>k, <1>q DEF PendingInv, WorkersBelongToRuns, BatchShrinks
  <2>2. ASSUME NEW t \in Target, NEW dry, AddTarget(t, dry) PROVE PendingInv'
    BY <1>10, <1>k, <2>2 DEF AddTarget
  <2>3. ASSUME NEW t \in Target, DeleteTarget(t) PROVE PendingInv'
    BY <1>10, <1>k, <2>3 DEF DeleteTarget
  <2>4. ASSUME NEW t \in Target, PromoteTarget(t) PROVE PendingInv'
    <3>1. ASSUME NEW r \in Runner, NEW u \in Target
          PROVE  /\ work'[r][u].adds = work[r][u].adds /\ work'[r][u].rems = work[r][u].rems
                 /\ work'[r][u].pc = work[r][u].pc
      <4>1. work[r][u] \in WorkState /\ work'[r][u] = IF u = t THEN [work[r][t] EXCEPT !.dry = FALSE]
                                                               ELSE work[r][u]
        BY <1>t, <2>4 DEF PromoteTarget, TypeOK
      <4> QED BY <4>1 DEF WorkState
    <3> QED BY <1>k, <1>q, <2>4, <3>1
            DEF PromoteTarget, PendingInv, WorkersBelongToRuns, BatchShrinks
  <2>5. ASSUME NEW t \in Target, NEW x \in Text, OperatorAdds(t, x) PROVE PendingInv'
    <3> DEFINE e == [id |-> nextId, text |-> x, owned |-> FALSE]
    <3>1. list' = [list EXCEPT ![t] = @ \cup {e}] /\ nextId' = nextId + 1 /\ e.id = nextId
      BY <2>5 DEF OperatorAdds
    <3> HIDE DEF e
    <3> ListsGrowFresh
      BY <1>t, <3>1, FreshEntry DEF PendingInv
    <3> QED BY <1>10, <2>5 DEF OperatorAdds
  <2>6. ASSUME NEW t \in Target, NEW e \in list[t], OperatorRemoves(t, e) PROVE PendingInv'
    <3> ListsGrowFresh
      BY <1>t, <2>6 DEF OperatorRemoves, ListsGrowFresh, TypeOK, PendingInv, IdsUnique
    <3> QED BY <1>10, <2>6 DEF OperatorRemoves
  <2> QED BY <1>12, <2>1, <2>2, <2>3, <2>4, <2>5, <2>6 DEF Operator
<1>13. CASE Restart
  <2> \A r \in Runner, t \in Target : work'[r][t] = Off
    BY <1>13 DEF Restart
  <2> QED BY <1>13, <1>k, <1>o, <1>q DEF Restart, WorkersBelongToRuns, BatchShrinks
<1>14. CASE UNCHANGED vars
  BY <1>10, <1>14, <1>k DEF vars
<1>15. CASE PollerRun
  BY <1>2, <1>15, BoundAssumption DEF PollerRun
<1>16. ASSUME NEW r \in Runner, ManualRun(r) PROVE PendingInv'
  BY <1>2, <1>16 DEF ManualRun, ManualFlags
<1> QED
  BY <1>1, <1>8, <1>9, <1>11, <1>12, <1>13, <1>14, <1>15, <1>16 DEF Next, Running

\* The invariant holds at start-up.
LEMMA PendingInit == Init => PendingInv
<1> SUFFICES ASSUME Init PROVE PendingInv
  OBVIOUS
<1>1. TypeOK
  <2> Idle \in RunState /\ Off \in WorkState
    BY DEF Idle, RunState, Off, WorkState
  <2> QED BY BoundAssumption DEF Init, TypeOK
<1>2. \A r \in Runner, t \in Target : NoWork(r, t)
  BY DEF Init, Off, NoWork
<1> QED BY <1>1, <1>2 DEF Init, PendingInv, IdsUnique, WorkersBelongToRuns, PendingJustified, NoWork

\* However runs, operator edits, failures and restarts interleave, a worker
\* never holds an add its run did not want, nor a remove that would hit an
\* operator's entry or a wanted address.
THEOREM PendingIsJustified == Spec => []PendingJustified
<1>1. PendingInv => PendingJustified
  BY DEF PendingInv
<1> QED BY <1>1, PendingInit, PendingStep, PTL DEF Spec

-----------------------------------------------------------------------------
(* Refinement of the shared list *)

\* A step of Protek's that changes a list adds an entry of its own or removes
\* one of its own; every other change of a list is counted as the operator's.
LEMMA ContractStep == PendingInv /\ [Next]_vars => [Contract!Next]_(Contract!vars)
<1> SUFFICES ASSUME PendingInv, [Next]_vars PROVE [Contract!Next]_(Contract!vars)
  OBVIOUS
<1> USE DEF config, routers, results, Unsettled, Contract!vars
<1>1. CASE UNCHANGED routers
  BY <1>1
<1>2. ASSUME NEW r \in Runner, NEW t \in Target, AddLands(r, t)
      PROVE  Contract!Next
  <2> PICK x \in work[r][t].adds :
        /\ list' = [list EXCEPT ![t] = @ \cup {[id |-> nextId, text |-> x, owned |-> TRUE]}]
        /\ nextId' = nextId + 1
        /\ edits' = edits
    BY <1>2 DEF AddLands
  <2> x \in Text
    BY DEF PendingInv, TypeOK, WorkState
  <2> QED BY DEF Contract!Next, Contract!ProtekAdd
<1>3. ASSUME NEW r \in Runner, NEW t \in Target, RemoveLands(r, t)
      PROVE  Contract!Next
  <2> PICK e \in list[t] :
        /\ e.id \in work[r][t].rems
        /\ list' = [list EXCEPT ![t] = @ \ {e}]
        /\ UNCHANGED <<nextId, edits>>
    BY <1>3 DEF RemoveLands
  <2> e.owned
    BY DEF PendingInv, PendingJustified
  <2> QED BY DEF Contract!Next, Contract!ProtekRemove
<1>4. ASSUME NEW t \in Target, NEW x \in Text, OperatorAdds(t, x) PROVE Contract!Next
  BY <1>4 DEF OperatorAdds, Edit, Contract!Next, Contract!OperatorAdds
<1>5. ASSUME NEW t \in Target, NEW e \in list[t], OperatorRemoves(t, e) PROVE Contract!Next
  BY <1>5 DEF OperatorRemoves, Edit, Contract!Next, Contract!OperatorRemoves
<1>6. ASSUME NEW r \in Runner, NEW t \in Target, Worker(r, t)
      PROVE  UNCHANGED routers \/ Contract!Next
  <2>1. CASE Apply(r, t)
    BY <1>2, <1>3, <2>1 DEF Apply, AddDuplicate, AddFails, AddRefused, RemoveGone, RemoveFails
  <2>2. CASE ~Apply(r, t)
    BY <1>6, <2>2 DEF Worker, SnapshotClean, SnapshotSwallowed, SnapshotRaised, SnapshotAs,
                      Decide, ConnectFails, SkipBatch, Decided
  <2> QED BY <2>1, <2>2
<1>7. CASE Operator
  BY <1>1, <1>4, <1>5, <1>7 DEF Operator, SaveSettings, AddTarget, DeleteTarget, PromoteTarget
<1> QED
  BY <1>1, <1>6, <1>7 DEF Next, Running, Finish, FinishFails, TickStart, PollerRun, ManualRun, ManualFlags, RunStart,
                          DesiredChanges, Restart, vars

\* Protek keeps the contract of the shared list: for any number of concurrent
\* runs over stale snapshots, it adds only entries of its own, under fresh
\* ids, and never removes or alters an entry of the operator's.
THEOREM KeepsContract == Spec => SharedListContract
<1>1. Init => Contract!Init
  BY DEF Init, Contract!Init
<1> QED BY <1>1, PendingInit, PendingStep, ContractStep, PTL
        DEF Spec, SharedListContract, Contract!Spec

-----------------------------------------------------------------------------
(* No silent writes, and dry-run *)

\* A worker that sends runs in a live run.
SendersAreLive ==
    \A r \in Runner, t \in Target : work[r][t].pc = "apply" => ~run[r].dry

\* The poller goes live only if dry-run was off at some point of its cycle.
PollerLive ==
    /\ run[Poller].phase = "pull" /\ ~pollerDry => run[Poller].live
    /\ run[Poller].phase = "run" /\ ~run[Poller].dry => run[Poller].live

SafeInv == SendersAreLive /\ NoSilentWrites /\ PollerLive

\* What a worker's step w does to its own locals and to its run's writes: the
\* log only grows, sending starts only in a live run, and a write that lands
\* is in the log.
WorkerEffect(r, t, w) ==
    /\ work' = [work EXCEPT ![r][t] = w]
    /\ w \in WorkState
    /\ work[r][t].log \subseteq w.log
    /\ w.pc = "apply" => work[r][t].pc = "apply" \/ ~run[r].dry
    /\ \/ UNCHANGED unlogged
       \/ /\ work[r][t].pc = "apply"
          /\ \E x \in w.log : unlogged' = [unlogged EXCEPT ![r] = @ \cup {x}]

\* Every step of a worker is of that kind, and leaves its run's own locals and
\* the poller's knobs alone.
LEMMA WorkerEffects ==
  ASSUME TypeOK, NEW r \in Runner, NEW t \in Target, Worker(r, t)
  PROVE  /\ \E w : WorkerEffect(r, t, w)
         /\ UNCHANGED <<run, pollerDry>>
<1> USE DEF config, routers, results, Unsettled
<1>t. work[r][t] \in WorkState
  BY DEF TypeOK
<1>1. ASSUME NEW how \in {"clean", "swallowed", "raised"}, NEW L \in SUBSET list[t],
             SnapshotAs(r, t, how, L)
      PROVE  /\ \E w : WorkerEffect(r, t, w)
             /\ UNCHANGED <<run, pollerDry>>
  <2> DEFINE w == [work[r][t] EXCEPT !.pc = "decide", !.snap = how,
                     !.adds = AddBatch(t, run[r].desired, L),
                     !.rems = RemoveBatch(t, run[r].desired, L)]
  <2>1. L \in SUBSET Entry /\ run[r].desired \in SUBSET Text
    BY DEF TypeOK, RunState
  <2>2. w \in WorkState /\ w.log = work[r][t].log /\ w.pc = "decide"
    BY <1>t, <2>1, BatchTypes DEF WorkState
  <2>3. work' = [work EXCEPT ![r][t] = w] /\ UNCHANGED <<run, pollerDry, unlogged>>
    BY <1>1 DEF SnapshotAs, Becomes
  <2> HIDE DEF w
  <2> QED BY <2>2, <2>3 DEF WorkerEffect
<1>2. CASE SnapshotClean(r, t) \/ SnapshotSwallowed(r, t) \/ SnapshotRaised(r, t)
  BY <1>1, <1>2 DEF SnapshotClean, SnapshotSwallowed, SnapshotRaised
<1>3. CASE Decide(r, t) \/ ConnectFails(r, t)
  <2>1. PICK w : /\ Decided(r, t, w)
                 /\ \/ w = [work[r][t] EXCEPT !.pc = "done", !.adds = {}, !.rems = {}]
                    \/ w = [work[r][t] EXCEPT !.pc = "apply"] /\ ~run[r].dry
    BY <1>3 DEF Decide, ConnectFails, SkipBatch, BouncerDry
  <2>2. /\ w \in WorkState /\ w.log = work[r][t].log
        /\ w.pc = "apply" => ~run[r].dry
    BY <1>t, <2>1 DEF WorkState
  <2>3. work' = [work EXCEPT ![r][t] = w] /\ UNCHANGED <<run, pollerDry, unlogged>>
    BY <2>1 DEF Decided, Becomes
  <2> QED BY <2>2, <2>3 DEF WorkerEffect
<1>4. CASE Apply(r, t)
  <2>1. ASSUME NEW x \in Write, NEW adds \in SUBSET Text, NEW rems \in SUBSET Nat,
               Logged(r, t, x, adds, rems), work[r][t].pc = "apply",
               unlogged' = unlogged \/ unlogged' = [unlogged EXCEPT ![r] = @ \cup {x}]
        PROVE  \E w : WorkerEffect(r, t, w)
    <3> DEFINE w == [work[r][t] EXCEPT !.adds = adds, !.rems = rems,
                       !.log = work[r][t].log \cup {x},
                       !.pc = IF adds \cup rems = {} THEN "done" ELSE "apply"]
    <3>1. work[r][t].log \cup {x} \in SUBSET Write
      BY <1>t DEF WorkState
    <3>2. w \in WorkState /\ w.log = work[r][t].log \cup {x}
      BY <1>t, <3>1 DEF WorkState
    <3>3. work' = [work EXCEPT ![r][t] = w]
      BY <2>1 DEF Logged, Becomes
    <3> HIDE DEF w
    <3> QED BY <2>1, <3>2, <3>3 DEF WorkerEffect
  <2>2. work[r][t].adds \in SUBSET Text /\ work[r][t].rems \in SUBSET Nat
    BY <1>t DEF WorkState
  <2>3. ASSUME NEW x \in work[r][t].adds, AddLogged(r, t, x), NextAdd(r, t, x),
               unlogged' = unlogged \/ unlogged' = [unlogged EXCEPT ![r] = @ \cup {[add |-> x]}]
        PROVE  \E w : WorkerEffect(r, t, w)
    <3> [add |-> x] \in Write
      BY <2>2 DEF Write
    <3> QED BY <2>1, <2>2, <2>3 DEF AddLogged, NextAdd
  <2>4. ASSUME NEW i \in work[r][t].rems, RemoveLogged(r, t, i), NextRemove(r, t, i),
               unlogged' = unlogged \/ unlogged' = [unlogged EXCEPT ![r] = @ \cup {[remove |-> i]}]
        PROVE  \E w : WorkerEffect(r, t, w)
    <3> [remove |-> i] \in Write
      BY <2>2 DEF Write
    <3> QED BY <2>1, <2>2, <2>4 DEF RemoveLogged, NextRemove
  <2>5. CASE AddLands(r, t) \/ AddDuplicate(r, t) \/ AddFails(r, t)
    BY <2>3, <2>5 DEF AddLands, AddDuplicate, AddFails
  <2>6. CASE RemoveLands(r, t) \/ RemoveGone(r, t) \/ RemoveFails(r, t)
    BY <2>4, <2>6 DEF RemoveLands, RemoveGone, RemoveFails
  <2> QED BY <1>4, <2>5, <2>6 DEF Apply, AddRefused
<1> QED BY <1>2, <1>3, <1>4 DEF Worker

\* Every step keeps the three facts: a run sends only while it is live, what it
\* wrote is in the log it will store, and its end takes both away together.
LEMMA SafeStep == PendingInv /\ SafeInv /\ [Next]_vars => SafeInv'
<1> SUFFICES ASSUME PendingInv, SafeInv, [Next]_vars PROVE SafeInv'
  OBVIOUS
<1> USE DEF config, routers, results, Unsettled
<1>t. TypeOK /\ TypeOK' /\ Poller \in Runner
  BY TypeStep, BoundAssumption DEF PendingInv
<1>i. /\ Idle.phase = "idle" /\ Off.pc = "off"
  BY DEF Idle, Off
<1>k. ASSUME UNCHANGED <<work, unlogged>>,
             \A r \in Runner : /\ run'[r].phase = run[r].phase /\ run'[r].dry = run[r].dry
                               /\ run[r].live => run'[r].live,
             run[Poller].phase = "pull" /\ ~pollerDry' => run'[Poller].live
      PROVE  SafeInv'
  BY <1>k, <1>t DEF SafeInv, SendersAreLive, NoSilentWrites, PollerLive, PushLog
<1>1. CASE TickStart
  <2> DEFINE n == [Idle EXCEPT !.phase = "pull", !.live = ~dryNow]
  <2>1. n.phase = "pull" /\ n.live = ~dryNow
    BY DEF Idle
  <2>2. run' = [run EXCEPT ![Poller] = n] /\ UNCHANGED <<work, unlogged>> /\ pollerDry' = dryNow
        /\ run[Poller].phase = "idle"
    BY <1>1 DEF TickStart
  <2> HIDE DEF n
  <2>3. \A t \in Target : work[Poller][t].pc # "apply"
    BY <1>t, <2>2 DEF PendingInv, WorkersBelongToRuns
  <2>4. unlogged[Poller] = {}
    BY <1>t, <2>2 DEF SafeInv, NoSilentWrites
  <2>5. run'[Poller] = n /\ \A r \in Runner : r # Poller => run'[r] = run[r]
    BY <1>t, <2>2 DEF TypeOK
  <2>6. SendersAreLive'
    BY <2>2, <2>3, <2>5 DEF SafeInv, SendersAreLive
  <2>7. NoSilentWrites'
    BY <2>2, <2>4, <2>5 DEF SafeInv, NoSilentWrites, PushLog
  <2>8. PollerLive'
    BY <2>1, <2>2, <2>5 DEF PollerLive
  <2> QED BY <2>6, <2>7, <2>8 DEF SafeInv
<1>2. ASSUME NEW r \in Runner, NEW dry \in BOOLEAN, NEW live \in BOOLEAN,
             RunStart(r, dry, live), run[r].phase # "run",
             r = Poller => (~dry => live)
      PROVE  SafeInv'
  <2>1. unlogged[r] = {} /\ unlogged' = unlogged /\ pollerDry' = pollerDry
    BY <1>2 DEF SafeInv, NoSilentWrites, RunStart
  <2>2. /\ \A q \in Runner : q # r => run'[q] = run[q] /\ work'[q] = work[q]
        /\ \A t \in Target : work'[r][t].pc # "apply"
        /\ run'[r].phase # "pull"
        /\ run'[r].phase = "run" => run'[r].dry = dry /\ run'[r].live = live
    <3>1. CASE rows = {}
      BY <1>2, <1>i, <1>t, <3>1 DEF RunStart, PendingInv, WorkersBelongToRuns, TypeOK
    <3>2. CASE rows # {}
      <4> DEFINE w == [u \in Target |-> IF u \in rows
                         THEN [Off EXCEPT !.pc = "snap", !.dry = (u \in rowDry)] ELSE Off]
                 n == [phase |-> "run", desired |-> desired, dry |-> dry, live |-> live]
      <4>1. work' = [work EXCEPT ![r] = w] /\ run' = [run EXCEPT ![r] = n]
        BY <1>2, <3>2 DEF RunStart
      <4>2. /\ \A u \in Target : w[u].pc # "apply"
            /\ n.phase = "run" /\ n.dry = dry /\ n.live = live
        BY DEF Off
      <4> HIDE DEF w, n
      <4> QED BY <1>t, <4>1, <4>2 DEF TypeOK
    <3> QED BY <3>1, <3>2
  <2>3. SendersAreLive'
    BY <2>2 DEF SafeInv, SendersAreLive
  <2>4. NoSilentWrites'
    BY <2>1, <2>2 DEF SafeInv, NoSilentWrites, PushLog
  <2>5. PollerLive'
    BY <1>2, <1>t, <2>1, <2>2 DEF SafeInv, PollerLive
  <2> QED BY <2>3, <2>4, <2>5 DEF SafeInv
<1>3. ASSUME NEW r \in Runner, NEW t \in Target, Worker(r, t) PROVE SafeInv'
  <2>1. UNCHANGED <<run, pollerDry>>
    BY <1>3, <1>t, WorkerEffects
  <2>2. PICK w : WorkerEffect(r, t, w)
    BY <1>3, <1>t, WorkerEffects
  <2>3. \A q \in Runner, u \in Target : work'[q][u] = IF q = r /\ u = t THEN w ELSE work[q][u]
    BY <1>t, <2>2 DEF WorkerEffect, TypeOK
  <2>4. SendersAreLive'
    BY <2>1, <2>2, <2>3 DEF WorkerEffect, SafeInv, SendersAreLive
  <2>5. \A q \in Runner : PushLog(q) \subseteq PushLog(q)'
    BY <2>2, <2>3 DEF WorkerEffect, PushLog
  <2>6. w.log \subseteq PushLog(r)'
    BY <2>3 DEF PushLog
  <2>7. NoSilentWrites'
    <3>1. CASE UNCHANGED unlogged
      BY <2>1, <2>5, <3>1 DEF SafeInv, NoSilentWrites
    <3>2. CASE ~UNCHANGED unlogged
      <4>1. PICK x \in w.log : unlogged' = [unlogged EXCEPT ![r] = @ \cup {x}]
        BY <2>2, <3>2 DEF WorkerEffect
      <4>2. work[r][t].pc = "apply"
        BY <2>2, <3>2 DEF WorkerEffect
      <4>3. run[r].phase = "run" /\ ~run[r].dry
        BY <4>2 DEF SafeInv, SendersAreLive, PendingInv, WorkersBelongToRuns
      <4>4. \A q \in Runner : unlogged'[q] = IF q = r THEN unlogged[r] \cup {x} ELSE unlogged[q]
        BY <1>t, <4>1 DEF TypeOK
      <4> QED BY <2>1, <2>5, <2>6, <4>3, <4>4 DEF SafeInv, NoSilentWrites
    <3> QED BY <3>1, <3>2
  <2>8. PollerLive'
    BY <2>1 DEF SafeInv, PollerLive
  <2> QED BY <2>4, <2>7, <2>8 DEF SafeInv
<1>4. ASSUME NEW r \in Runner, Finish(r) \/ FinishFails(r) PROVE SafeInv'
  <2>1. /\ run' = [run EXCEPT ![r] = Idle]
        /\ work' = [work EXCEPT ![r] = [t \in Target |-> Off]]
        /\ UNCHANGED pollerDry
    BY <1>4 DEF Finish, FinishFails
  <2>2. unlogged' = [unlogged EXCEPT ![r] = {}]
    <3>1. CASE Finish(r)
      <4> unlogged[r] \ PushLog(r) = {} /\ (run[r].dry => unlogged[r] = {})
        BY DEF SafeInv, NoSilentWrites
      <4> QED BY <1>t, <3>1 DEF Finish, TypeOK
    <3>2. CASE FinishFails(r)
      BY <3>2 DEF FinishFails
    <3> QED BY <1>4, <3>1, <3>2
  <2>3. /\ run'[r] = Idle /\ unlogged'[r] = {}
        /\ \A q \in Runner \ {r} :
              run'[q] = run[q] /\ work'[q] = work[q] /\ unlogged'[q] = unlogged[q]
    BY <1>t, <2>1, <2>2 DEF TypeOK
  <2>4. \A t \in Target : work'[r][t].pc = "off"
    BY <1>i, <1>t, <2>1 DEF TypeOK
  <2>5. SendersAreLive'
    BY <2>3, <2>4 DEF SafeInv, SendersAreLive
  <2>6. NoSilentWrites'
    BY <2>3 DEF SafeInv, NoSilentWrites, PushLog
  <2>7. PollerLive'
    BY <1>i, <1>t, <2>1, <2>3 DEF SafeInv, PollerLive
  <2> QED BY <2>5, <2>6, <2>7 DEF SafeInv
<1>5. ASSUME UNCHANGED <<run, work, unlogged, pollerDry>> PROVE SafeInv'
  BY <1>5 DEF SafeInv, SendersAreLive, NoSilentWrites, PollerLive, PushLog
<1>6. CASE DesiredChanges
  BY <1>5, <1>6 DEF DesiredChanges
<1>7. CASE Operator
  <2>1. ASSUME NEW dry \in BOOLEAN, NEW owner \in BOOLEAN, SaveSettings(dry, owner)
        PROVE  SafeInv'
    <3>1. UNCHANGED <<work, unlogged>> /\ pollerDry' = IF owner THEN dry ELSE pollerDry
      BY <2>1 DEF SaveSettings
    <3>2. ASSUME NEW r \in Runner
          PROVE  /\ run'[r].phase = run[r].phase /\ run'[r].dry = run[r].dry
                 /\ run'[r].live = (run[r].live \/ (run[r].phase # "idle" /\ ~dry))
      <4>1. run[r] \in RunState
        BY <1>t DEF TypeOK
      <4>2. run'[r] = [run[r] EXCEPT !.live = @ \/ (run[r].phase # "idle" /\ ~dry)]
        BY <2>1 DEF SaveSettings
      <4> QED BY <4>1, <4>2 DEF RunState
    <3>3. run[Poller].phase = "pull" /\ ~pollerDry' => run'[Poller].live
      BY <1>t, <3>1, <3>2 DEF SafeInv, PollerLive
    <3> QED BY <1>k, <3>1, <3>2, <3>3
  <2>2. ASSUME NEW t \in Target, PromoteTarget(t) PROVE SafeInv'
    <3>1. ASSUME NEW r \in Runner, NEW u \in Target
          PROVE  work'[r][u].pc = work[r][u].pc /\ work'[r][u].log = work[r][u].log
      <4>1. work[r][u] \in WorkState /\ work'[r][u] = IF u = t THEN [work[r][t] EXCEPT !.dry = FALSE]
                                                               ELSE work[r][u]
        BY <1>t, <2>2 DEF PromoteTarget, TypeOK
      <4> QED BY <4>1 DEF WorkState
    <3>2. \A r \in Runner : PushLog(r)' = PushLog(r)
      BY <3>1 DEF PushLog
    <3> QED BY <2>2, <3>1, <3>2
            DEF PromoteTarget, SafeInv, SendersAreLive, NoSilentWrites, PollerLive
  <2> QED BY <1>5, <1>7, <2>1, <2>2
          DEF Operator, AddTarget, DeleteTarget, OperatorAdds, OperatorRemoves
<1>8. CASE Restart
  <2> \A r \in Runner : run'[r] = Idle /\ unlogged'[r] = {} /\ \A t \in Target : work'[r][t] = Off
    BY <1>8 DEF Restart
  <2> QED BY <1>i, <1>t DEF SafeInv, SendersAreLive, NoSilentWrites, PollerLive
<1>9. CASE UNCHANGED vars
  BY <1>5, <1>9 DEF vars
<1>10. CASE PollerRun
  <2> pollerDry \in BOOLEAN /\ run[Poller].live \in BOOLEAN
    BY <1>t DEF TypeOK, RunState
  <2> QED BY <1>2, <1>10, <1>t DEF PollerRun, SafeInv, PollerLive
<1>11. ASSUME NEW r \in Runner, ManualRun(r) PROVE SafeInv'
  <2>1. PICK dry \in ManualFlags : RunStart(r, dry, ~dryNow)
    BY <1>11 DEF ManualRun
  <2>2. dry \in BOOLEAN /\ (~dryNow) \in BOOLEAN
    BY <1>t, BoundAssumption DEF ManualFlags, TypeOK
  <2>3. r # Poller /\ run[r].phase # "run"
    BY <1>11 DEF ManualRun
  <2> QED BY <1>2, <2>1, <2>2, <2>3
<1> QED
  BY <1>1, <1>3, <1>4, <1>6, <1>7, <1>8, <1>9, <1>10, <1>11 DEF Next, Running

\* The facts hold at start-up.
LEMMA SafeInit == Init => SafeInv
<1> SUFFICES ASSUME Init PROVE SafeInv
  OBVIOUS
<1> \A r \in Runner : run[r].phase = "idle" /\ unlogged[r] = {}
                      /\ \A t \in Target : work[r][t].pc = "off"
  BY DEF Init, Idle, Off
<1> QED BY BoundAssumption DEF SafeInv, SendersAreLive, NoSilentWrites, PollerLive

\* No silent writes: whatever runs, faults and edits interleave, a write that
\* mt_pushes does not show is in the log of a run that has yet to store it.
THEOREM NoSilentWritesEver == Spec => []NoSilentWrites
<1>1. SafeInv => NoSilentWrites
  BY DEF SafeInv
<1> QED BY <1>1, PendingInit, PendingStep, SafeInit, SafeStep, PTL DEF Spec

\* The poller writes to a router only in a cycle during which settings.dry_run
\* was off, however its restarts, the settings page and its runs interleave.
THEOREM PollerStaysDry == Spec => []PollerHonoursDryRun
<1>1. PendingInv /\ SafeInv => PollerHonoursDryRun
  BY BoundAssumption
     DEF PendingInv, WorkersBelongToRuns, SafeInv, SendersAreLive, PollerLive,
         PollerHonoursDryRun, WritesOnlyWhenLive
<1> QED BY <1>1, PendingInit, PendingStep, SafeInit, SafeStep, PTL DEF Spec
=============================================================================
