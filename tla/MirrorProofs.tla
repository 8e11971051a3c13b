---------------------------- MODULE MirrorProofs ----------------------------
(***************************************************************************)
(* Proofs about Mirror, for any finite set of decision identities, any     *)
(* number of bans and any plan of events.                                  *)
(***************************************************************************)
EXTENDS Mirror, TLAPS, FiniteSetTheorems

-----------------------------------------------------------------------------
(* Types *)

\* What another LAPI holds is finite, numbered from one, without gaps above.
LEMMA OtherLapiType ==
    ASSUME NEW S \in OtherLapi
    PROVE  /\ Cardinality(S) \in Nat /\ S \in SUBSET Decision
           /\ \A d, e \in S : d.id = e.id => d = e
           /\ \A d \in S : d.id < Cardinality(S) + 1
<1> DEFINE n == Cardinality(Key)
<1> DEFINE f == [d \in S |-> d.id]
<1>1. n \in Nat
  BY MaxAssumption, FS_CardinalityType
<1>2. IsFiniteSet(1..n)
  BY <1>1, FS_Interval
<1>3. /\ S \in SUBSET [id : 1..n, key : Key]
      /\ \A d, e \in S : d.id = e.id => d = e
      /\ \A d \in S : d.id <= Cardinality(S)
  BY DEF OtherLapi
<1> HIDE DEF n
<1>4. f \in Injection(S, 1..n)
  BY <1>3 DEF Injection, IsInjective
<1>5. Cardinality(S) \in Nat
  BY <1>2, <1>4, FS_Injection, FS_CardinalityType
<1>6. S \in SUBSET Decision /\ \A d \in S : d.id \in Nat
  BY <1>1, <1>3 DEF Decision
<1> QED BY <1>3, <1>5, <1>6

\* The backoff of any number of failures is within its limit.
LEMMA BackoffType ==
    ASSUME NEW n \in Nat
    PROVE  BackoffMinutes(n + 1) \in 0..30
<1>1. CASE n + 1 > 5
  BY <1>1 DEF BackoffMinutes
<1>2. CASE n \in {0, 1, 2, 3, 4}
  BY <1>2 DEF BackoffMinutes
<1> QED BY <1>1, <1>2

\* An event is counted, and the plan stays.
LEMMA SpendType ==
    ASSUME TypeOK, NEW e \in Event, Spend(e)
    PROVE  used' \in [so : [Event -> Nat], max : Plans]
BY DEF TypeOK, Spend

\* The parts of a pull that an action builds.
LEMMA PullType ==
    /\ Idle \in PullState
    /\ \A p \in PullState :
          /\ \A s \in {"idle", "synced", "upsert", "select", "drop"} : [p EXCEPT !.pc = s] \in PullState
          /\ \A d : [p EXCEPT !.todo = @ \ {d}] \in PullState
          /\ \A k : [p EXCEPT !.keys = @ \ {k}] \in PullState
          /\ \A i : [p EXCEPT !.ids = @ \ {i}] \in PullState
BY DEF Idle, PullState

\* What a pull has fetched.
LEMMA FetchedType ==
    ASSUME TypeOK
    PROVE  /\ KeysOf(active) \in SUBSET Key
           /\ [Idle EXCEPT !.pc = "upsert", !.mode = "boot", !.todo = active,
                           !.seen = KeysOf(active)] \in PullState
           /\ [Idle EXCEPT !.pc = "upsert", !.mode = "stream",
                           !.todo = {d \in active : d.id \in cursor.new},
                           !.ids = cursor.gone, !.seen = KeysOf(active)] \in PullState
<1>1. active \in SUBSET Decision /\ cursor.gone \in SUBSET Nat
  BY DEF TypeOK, CursorState
<1>2. KeysOf(active) \in SUBSET Key
  BY <1>1 DEF KeysOf, Decision
<1>3. {d \in active : d.id \in cursor.new} \in SUBSET Decision
  BY <1>1
<1> QED BY <1>1, <1>2, <1>3 DEF Idle, PullState

\* A tombstone is a row.
LEMMA TombstoneType ==
    ASSUME TypeOK, NEW k \in Key, Tombstone(k)
    PROVE  mirror' \in [Key -> Row]
BY DEF TypeOK, Tombstone, Row

-----------------------------------------------------------------------------
(* The inductive invariant behind TombstonedOnlyIfGone *)

\* The LAPI: an id names one decision and is never used again; what a
\* delta will report as new is younger than what was reported before.
LapiInv ==
    /\ \A d, e \in active : d.id = e.id => d = e
    /\ \A d \in active : d.id < nextBan /\ d.id \notin cursor.gone
    /\ \A i \in cursor.gone : i < nextBan
    /\ \A d, e \in active :
          d.key = e.key /\ d.id \notin cursor.new /\ e.id \in cursor.new => d.id < e.id

\* The locals of a pull at each of its stages.
PullInv ==
    /\ pull.pc \in {"idle", "synced"} => pull = [Idle EXCEPT !.pc = pull.pc]
    /\ pull.pc \in {"select", "drop"} => pull.todo = {}
    /\ pull.mode = "none" => pull.pc \in {"idle", "synced"}
    /\ pull.mode = "boot" => ~boot
    /\ pull.mode = "stream" => boot
    /\ \A k \in pull.keys : k \notin pull.seen
    /\ \A x, y \in pull.todo : x.id = y.id => x = y
    /\ \A x \in pull.todo : x.id \notin pull.ids

\* What is still to be written is younger than the decisions of its identity
\* that were written before, and older than those that outlived it.
OrderInv ==
    \A x \in pull.todo, d \in active :
        d.key = x.key /\ d.id \notin cursor.new =>
            /\ d \notin pull.todo => d.id < x.id
            /\ x \notin active => x.id < d.id

\* A live row of an identity the answer had as active, whose id the answer
\* reports as ended, is about to get a younger id.
DropInv ==
    \/ lost
    \/ \A k \in pull.seen :
          mirror[k].live /\ mirror[k].lapi \in pull.ids => \E x \in pull.todo : x.key = k

\* A live row has the id of an active decision of its identity, and of one
\* at least as young as any that was already handed over.
RowInv ==
    ~lost /\ (boot \/ pull.mode = "boot") =>
        \A d \in active :
            \/ d.id \in cursor.new
            \/ d \in pull.todo
            \/ mirror[d.key].live =>
                  \E e \in active : e.key = d.key /\ e.id = mirror[d.key].lapi /\ d.id <= e.id

Inv == TypeOK /\ LapiInv /\ PullInv /\ OrderInv /\ DropInv /\ RowInv

\* Every step keeps the types.
LEMMA TypeStep == TypeOK /\ [Next]_vars => TypeOK'
<1> SUFFICES ASSUME TypeOK, [Next]_vars PROVE TypeOK'
  OBVIOUS
<1> USE DEF lapi, memory
<1>1. CASE TickSync
  <2>1. pull' \in PullState
    BY <1>1, PullType DEF TickSync
  <2>2. CASE env = "changed"
    <3>1. boot' \in BOOLEAN /\ prevOk' \in BOOLEAN /\ lost' \in BOOLEAN
      BY <1>1, <2>2, Zenon DEF TickSync
    <3>2. streak' = 0 /\ env' = "same" /\ UNCHANGED <<lapi, mirror, source, backoff, told, used>>
      BY <1>1, <2>2, Zenon DEF TickSync
    <3> QED BY <2>1, <3>1, <3>2 DEF TypeOK
  <2>3. CASE env # "changed"
    BY <1>1, <2>1, <2>3 DEF TickSync, TypeOK
  <2> QED BY <2>2, <2>3
<1>2. CASE TickSkip
  BY <1>2, PullType DEF TickSkip, TypeOK
<1>3. CASE FetchAll
  BY <1>3, FetchedType DEF FetchAll, TypeOK
<1>4. CASE FetchDelta
  <2>1. cursor' \in CursorState
    BY <1>4 DEF FetchDelta, StreamServed, CursorState
  <2>2. pull' \in PullState
    BY <1>4, FetchedType DEF FetchDelta
  <2> QED BY <1>4, <2>1, <2>2 DEF FetchDelta, TypeOK
<1>5. CASE UpsertNext
  <2>1. PICK d \in pull.todo : Upsert(d.key, d.id) /\ pull' = [pull EXCEPT !.todo = @ \ {d}]
    BY <1>5 DEF UpsertNext
  <2>2. d \in Decision
    BY DEF TypeOK, PullState
  <2>3. mirror' \in [Key -> Row]
    BY <2>1, <2>2 DEF TypeOK, Upsert, Row, Decision
  <2> QED BY <1>5, <2>1, <2>3, PullType DEF UpsertNext, TypeOK
<1>6. CASE UpsertsDone
  BY <1>6, PullType DEF UpsertsDone, TypeOK
<1>7. CASE SelectUnseen
  <2>1. pull' \in PullState
    BY <1>7 DEF SelectUnseen, TypeOK, PullState
  <2> QED BY <1>7, <2>1 DEF SelectUnseen, TypeOK
<1>8. CASE DropUnseen
  <2>1. PICK k \in pull.keys : Tombstone(k) /\ pull' = [pull EXCEPT !.keys = @ \ {k}]
    BY <1>8 DEF DropUnseen
  <2>2. k \in Key
    BY DEF TypeOK, PullState
  <2> QED BY <1>8, <2>1, <2>2, PullType, TombstoneType DEF DropUnseen, TypeOK
<1>9. CASE DropGone
  <2>1. \A k \in Key : mirror[k] \in Row /\ [mirror[k] EXCEPT !.live = FALSE] \in Row
    BY DEF TypeOK, Row
  <2>2. mirror' \in [Key -> Row]
    BY <1>9, <2>1 DEF DropGone
  <2>3. pull' \in PullState
    <3>1. PICK i \in pull.ids : pull' = [pull EXCEPT !.ids = @ \ {i}]
      BY <1>9 DEF DropGone
    <3>2. pull \in PullState
      BY DEF TypeOK
    <3> QED BY <3>1, <3>2, PullType
  <2> QED BY <1>9, <2>2, <2>3 DEF DropGone, TypeOK
<1>10. CASE PullDone
  BY <1>10, PullType DEF PullDone, TypeOK
<1>11. CASE FetchFails
  <2>1. used' \in [so : [Event -> Nat], max : Plans]
    BY <1>11, SpendType DEF FetchFails, Event
  <2>2. backoff' \in 0..30 /\ streak' \in Nat
    BY <1>11, BackoffType DEF FetchFails, PullFailed, TypeOK
  <2> QED BY <1>11, <2>1, <2>2, PullType DEF FetchFails, PullFailed, TypeOK
<1>12. CASE ReplyLost
  <2>1. used' \in [so : [Event -> Nat], max : Plans]
    BY <1>12, SpendType DEF ReplyLost, Event
  <2>2. cursor' \in CursorState
    BY <1>12 DEF ReplyLost, StreamServed, CursorState
  <2>3. backoff' \in 0..30 /\ streak' \in Nat
    BY <1>12, BackoffType DEF ReplyLost, PullFailed, TypeOK
  <2> QED BY <1>12, <2>1, <2>2, <2>3, PullType DEF ReplyLost, PullFailed, TypeOK
<1>13. CASE WriteFails
  <2>1. used' \in [so : [Event -> Nat], max : Plans]
    BY <1>13, SpendType DEF WriteFails, Event
  <2>2. (boot \/ Dropped) \in BOOLEAN /\ (lost \/ (pull.mode = "stream" /\ ~Dropped)) \in BOOLEAN
    BY DEF TypeOK
  <2> QED BY <1>13, <2>1, <2>2, PullType DEF WriteFails, TypeOK
<1>14. CASE Restart
  <2>1. used' \in [so : [Event -> Nat], max : Plans]
    BY <1>14, SpendType DEF Restart, Event
  <2> QED BY <1>14, <2>1, PullType DEF Restart, TypeOK
<1>15. CASE BackoffEnds
  BY <1>15 DEF BackoffEnds, TypeOK
<1>16. ASSUME NEW paused \in BOOLEAN, SetPaused(paused) PROVE TypeOK'
  <2>1. used' \in [so : [Event -> Nat], max : Plans]
    BY <1>16, SpendType DEF SetPaused, Event, TypeOK
  <2> QED BY <1>16, <2>1 DEF SetPaused, TypeOK
<1>17. ASSUME NEW S \in OtherLapi, SwitchRow(S) PROVE TypeOK'
  <2>1. used' \in [so : [Event -> Nat], max : Plans]
    BY <1>17, SpendType DEF SwitchRow, Event
  <2>2. active' \in SUBSET Decision /\ nextBan' \in Nat
    BY <1>17, OtherLapiType DEF SwitchRow
  <2>3. cursor' \in CursorState
    BY <1>17, OtherLapiType DEF SwitchRow, NoCursor, CursorState, Decision
  <2> QED BY <1>17, <2>1, <2>2, <2>3 DEF SwitchRow, TypeOK
<1>18. CASE SwitchFile
  BY <1>18 DEF SwitchFile, TypeOK
<1>19. CASE RemoveSource
  <2>1. used' \in [so : [Event -> Nat], max : Plans]
    BY <1>19, SpendType DEF RemoveSource, Event
  <2> QED BY <1>19, <2>1 DEF RemoveSource, TypeOK
<1>20. CASE AddSource
  <2>1. cursor' \in CursorState
    BY <1>20 DEF AddSource, NoCursor, CursorState, Decision, TypeOK
  <2>2. lost' \in BOOLEAN
    BY <1>20 DEF AddSource, TypeOK
  <2> QED BY <1>20, <2>1, <2>2 DEF AddSource, TypeOK
<1>21. ASSUME NEW k \in Key, Unban(k) PROVE TypeOK'
  <2>1. used' \in [so : [Event -> Nat], max : Plans]
    BY <1>21, SpendType DEF Unban, Event
  <2> QED BY <1>21, <2>1, TombstoneType DEF Unban, TypeOK
<1>22. ASSUME NEW k \in Key, Prune(k) PROVE TypeOK'
  BY <1>22 DEF Prune, TypeOK, Row, NoRow
<1>23. ASSUME NEW k \in Key, Ban(k) PROVE TypeOK'
  <2>1. active' \in SUBSET Decision /\ nextBan' \in Nat
    BY <1>23 DEF Ban, TypeOK, Decision
  <2>2. cursor' \in CursorState
    BY <1>23 DEF Ban, TypeOK, CursorState
  <2> QED BY <1>23, <2>1, <2>2 DEF Ban, TypeOK
<1>24. ASSUME NEW d \in active, Ends(d) PROVE TypeOK'
  <2>1. cursor' \in CursorState
    BY <1>24 DEF Ends, TypeOK, CursorState, Decision
  <2>2. lost' \in BOOLEAN
    BY <1>24 DEF Ends, TypeOK
  <2> QED BY <1>24, <2>1, <2>2 DEF Ends, TypeOK
<1>25. CASE UNCHANGED vars
  BY <1>25 DEF vars, TypeOK
<1> QED
  BY <1>1, <1>2, <1>3, <1>4, <1>5, <1>6, <1>7, <1>8, <1>9, <1>10, <1>11, <1>12, <1>13,
     <1>14, <1>15, <1>16, <1>17, <1>18, <1>19, <1>20, <1>21, <1>22, <1>23, <1>24, <1>25
     DEF Next, Cycle, Faults, Admin, Lapi

LEMMA TypeInit == Init => TypeOK
<1> SUFFICES ASSUME Init PROVE TypeOK
  OBVIOUS
<1>1. cursor \in CursorState
  BY DEF Init, NoCursor, CursorState
<1>2. mirror \in [Key -> Row]
  BY DEF Init, NoRow, Row
<1>3. used \in [so : [Event -> Nat], max : Plans]
  BY DEF Init
<1>4. pull \in PullState
  BY PullType DEF Init
<1>5. boot \in BOOLEAN /\ prevOk \in BOOLEAN /\ lost \in BOOLEAN
  BY Zenon DEF Init
<1>6. /\ active = {} /\ nextBan = 1 /\ source = "on" /\ backoff = 0 /\ streak = 0
      /\ told = "up" /\ env = "same"
  BY Zenon DEF Init
<1> QED BY <1>1, <1>2, <1>3, <1>4, <1>5, <1>6 DEF TypeOK

\* The mirror and all it is kept with have their types: the backoff stays
\* within its thirty minutes however often a source fails (_pull_source).
THEOREM TypeCorrect == Spec => []TypeOK
BY TypeInit, TypeStep, PTL DEF Spec

-----------------------------------------------------------------------------
(* Every step keeps the invariant *)

\* What the invariant is about.
core == <<lapi, mirror, boot, lost, pull>>

\* The types of what the invariant speaks of.
LEMMA CoreTypes ==
    ASSUME TypeOK
    PROVE  /\ nextBan \in Nat /\ boot \in BOOLEAN /\ lost \in BOOLEAN
           /\ \A d \in active : d.id \in Nat /\ d.key \in Key /\ d = [id |-> d.id, key |-> d.key]
           /\ \A x \in pull.todo : x.id \in Nat /\ x.key \in Key /\ x = [id |-> x.id, key |-> x.key]
           /\ \A k \in Key : mirror[k].live \in BOOLEAN /\ mirror[k].lapi \in Nat
           /\ pull.seen \subseteq Key /\ pull.keys \subseteq Key
           /\ cursor.gone \subseteq Nat
BY DEF TypeOK, Decision, PullState, Row, CursorState

\* A pull that has not fetched anything holds nothing.
LEMMA Resting ==
    ASSUME PullInv, pull.pc \in {"idle", "synced"}
    PROVE  /\ pull.mode = "none" /\ pull.todo = {} /\ pull.seen = {}
           /\ pull.keys = {} /\ pull.ids = {}
BY DEF PullInv, Idle

\* The same of Idle, under either of its labels.
LEMMA IdleRests ==
    ASSUME pull' \in {Idle, [Idle EXCEPT !.pc = "synced"]}
    PROVE  /\ pull'.mode = "none" /\ pull'.todo = {} /\ pull'.seen = {}
           /\ pull'.keys = {} /\ pull'.ids = {} /\ pull'.pc \in {"idle", "synced"}
           /\ pull' = [Idle EXCEPT !.pc = pull'.pc]
BY DEF Idle

\* The invariant's parts about the pull hold of a pull that holds nothing.
LEMMA RestingInv ==
    ASSUME pull' \in {Idle, [Idle EXCEPT !.pc = "synced"]}
    PROVE  PullInv' /\ OrderInv' /\ DropInv'
BY IdleRests DEF PullInv, OrderInv, DropInv

\* Steps that change nothing of it.
LEMMA CoreSame ==
    ASSUME Inv, UNCHANGED core
    PROVE  LapiInv' /\ PullInv' /\ OrderInv' /\ DropInv' /\ RowInv'
BY DEF Inv, core, lapi, LapiInv, PullInv, OrderInv, DropInv, RowInv, Idle

\* A pull that ends or starts over before it fetched anything.
LEMMA RestStep ==
    ASSUME Inv, TickSync \/ TickSkip \/ FetchFails
    PROVE  LapiInv' /\ PullInv' /\ OrderInv' /\ DropInv' /\ RowInv'
<1>1. pull.pc \in {"idle", "synced"}
  BY DEF TickSync, TickSkip, FetchFails, Pullable
<1>2. pull' \in {Idle, [Idle EXCEPT !.pc = "synced"]} /\ UNCHANGED <<lapi, mirror>>
  BY DEF TickSync, TickSkip, FetchFails, PullFailed, lapi
<1>3. (UNCHANGED <<boot, lost>>) \/ ~boot'
  BY DEF TickSync, TickSkip, FetchFails, PullFailed, memory
<1>4. LapiInv'
  BY <1>2 DEF Inv, LapiInv, lapi
<1>5. RowInv'
  BY <1>1, <1>2, <1>3, Resting, IdleRests DEF Inv, RowInv, lapi
<1> QED BY <1>2, <1>4, <1>5, RestingInv

\* A restart forgets everything the invariant says of a pull.
LEMMA RestartStep ==
    ASSUME Inv, Restart
    PROVE  LapiInv' /\ PullInv' /\ OrderInv' /\ DropInv' /\ RowInv'
<1>1. pull' = Idle /\ ~boot' /\ UNCHANGED lapi
  BY DEF Restart
<1>2. LapiInv'
  BY <1>1 DEF Inv, LapiInv, lapi
<1>3. RowInv'
  BY <1>1, IdleRests DEF RowInv
<1> QED BY <1>1, <1>2, <1>3, RestingInv

\* The whole active set is fetched.
LEMMA FetchAllStep ==
    ASSUME Inv, FetchAll
    PROVE  LapiInv' /\ PullInv' /\ OrderInv' /\ DropInv' /\ RowInv'
<1>1. /\ pull'.pc = "upsert" /\ pull'.mode = "boot" /\ pull'.todo = active /\ pull'.seen = KeysOf(active)
      /\ pull'.keys = {} /\ pull'.ids = {}
  BY DEF FetchAll, Idle
<1>2. UNCHANGED <<active, nextBan, cursor, boot>> /\ ~boot
  BY DEF FetchAll, lapi, memory
<1>3. LapiInv'
  BY <1>2 DEF Inv, LapiInv
<1>4. PullInv'
  BY <1>1, <1>2 DEF Inv, PullInv, LapiInv
<1>5. OrderInv' /\ DropInv' /\ RowInv'
  BY <1>1, <1>2 DEF OrderInv, DropInv, RowInv
<1> QED BY <1>3, <1>4, <1>5

\* A delta is fetched, and the cursor moves.
LEMMA FetchDeltaStep ==
    ASSUME Inv, FetchDelta
    PROVE  LapiInv' /\ PullInv' /\ OrderInv' /\ DropInv' /\ RowInv'
<1> DEFINE T == {d \in active : d.id \in cursor.new}
<1>1. /\ pull'.pc = "upsert" /\ pull'.mode = "stream" /\ pull'.todo = T /\ pull'.seen = KeysOf(active)
      /\ pull'.keys = {} /\ pull'.ids = cursor.gone
  BY DEF FetchDelta, Idle
<1>2. UNCHANGED <<active, nextBan, mirror, boot, lost>> /\ boot
  BY DEF FetchDelta, memory
<1>3. cursor'.new = {} /\ cursor'.gone = {}
  BY DEF FetchDelta, StreamServed
<1>4. pull.mode = "none" /\ pull.todo = {}
  BY Resting DEF FetchDelta, Pullable, Inv
<1>5. LapiInv'
  BY <1>2, <1>3 DEF Inv, LapiInv
<1>6. PullInv'
  BY <1>1, <1>2 DEF Inv, PullInv, LapiInv
<1>7. OrderInv'
  BY <1>1, <1>2, <1>3 DEF Inv, LapiInv, OrderInv
<1>8. ~lost => \A d \in active :
          d \in T \/ (mirror[d.key].live => \E e \in active : e.key = d.key /\ e.id = mirror[d.key].lapi /\ d.id <= e.id)
  BY <1>2, <1>4 DEF Inv, RowInv
<1>9. RowInv'
  BY <1>1, <1>2, <1>3, <1>8 DEF RowInv
<1>10. DropInv'
  <2> SUFFICES ASSUME ~lost, NEW k \in KeysOf(active), mirror[k].live, mirror[k].lapi \in cursor.gone
               PROVE  \E x \in T : x.key = k
    BY <1>1, <1>2 DEF DropInv
  <2>1. PICK d \in active : d.key = k
    BY DEF KeysOf
  <2>2. d \in T
    BY <1>8, <2>1 DEF Inv, LapiInv
  <2> QED BY <2>1, <2>2
<1> QED BY <1>5, <1>6, <1>7, <1>9, <1>10

\* One decision of an answer becomes a row.
LEMMA UpsertStep ==
    ASSUME Inv, UpsertNext
    PROVE  LapiInv' /\ PullInv' /\ OrderInv' /\ DropInv' /\ RowInv'
<1>1. PICK y \in pull.todo : /\ \A e \in pull.todo : y.id <= e.id
                             /\ mirror' = [mirror EXCEPT ![y.key] = [lapi |-> y.id, live |-> TRUE]]
                             /\ pull' = [pull EXCEPT !.todo = @ \ {y}]
  BY DEF UpsertNext, Upsert
<1>2. /\ pull'.pc = pull.pc /\ pull'.mode = pull.mode /\ pull'.todo = pull.todo \ {y}
      /\ pull'.seen = pull.seen /\ pull'.keys = pull.keys /\ pull'.ids = pull.ids
  BY <1>1 DEF Inv, TypeOK, PullState
<1>3. UNCHANGED <<active, nextBan, cursor, boot, lost>>
  BY DEF UpsertNext, lapi, memory
<1>4. y.key \in Key /\ y.id \in Nat
  BY CoreTypes DEF Inv
<1>5. /\ mirror'[y.key].lapi = y.id /\ mirror'[y.key].live
      /\ \A k \in Key : k # y.key => mirror'[k] = mirror[k]
  BY <1>1, <1>4 DEF Inv, TypeOK
<1>6. LapiInv'
  BY <1>3 DEF Inv, LapiInv
<1>7. PullInv'
  <2>1. pull.pc = "upsert"
    BY DEF UpsertNext
  <2> QED BY <1>2, <1>3, <2>1 DEF Inv, PullInv
<1>8. \A x \in pull.todo : x # y => y.id < x.id
  BY <1>1, <1>4, CoreTypes DEF Inv, PullInv
<1>9. OrderInv'
  BY <1>2, <1>3, <1>8 DEF Inv, OrderInv
<1>10. DropInv'
  <2> SUFFICES ASSUME ~lost, NEW k \in pull.seen, mirror'[k].live, mirror'[k].lapi \in pull.ids
               PROVE  \E x \in pull.todo \ {y} : x.key = k
    BY <1>2, <1>3 DEF DropInv
  <2>1. k # y.key /\ k \in Key
    BY <1>5, CoreTypes DEF Inv, PullInv
  <2>2. PICK x \in pull.todo : x.key = k
    BY <1>5, <2>1 DEF Inv, DropInv
  <2> QED BY <2>1, <2>2
<1>11. RowInv'
  <2> SUFFICES ASSUME ~lost, boot \/ pull.mode = "boot", NEW d \in active, d.id \notin cursor.new,
                      d \notin pull.todo \ {y}, mirror'[d.key].live
               PROVE  \E e \in active : e.key = d.key /\ e.id = mirror'[d.key].lapi /\ d.id <= e.id
    BY <1>2, <1>3 DEF RowInv
  <2>0. d.key \in Key /\ d.id \in Nat
    BY CoreTypes DEF Inv
  <2>1. CASE d.key # y.key
    <3>1. mirror'[d.key] = mirror[d.key] /\ d \notin pull.todo
      BY <1>5, <2>0, <2>1
    <3> QED BY <3>1 DEF Inv, RowInv
  <2>2. CASE d = y
    BY <1>5, <2>0, <2>2
  <2>3. CASE d.key = y.key /\ d # y
    <3>1. d.id < y.id /\ (y \notin active => y.id < d.id)
      BY <2>3 DEF Inv, OrderInv
    <3>2. y \in active
      BY <1>4, <2>0, <3>1
    <3> QED BY <1>4, <1>5, <2>0, <2>3, <3>1, <3>2
  <2> QED BY <2>1, <2>2, <2>3
<1> QED BY <1>6, <1>7, <1>9, <1>10, <1>11

\* A label or the list of unseen rows: nothing is written.
LEMMA PhaseStep ==
    ASSUME Inv, UpsertsDone \/ SelectUnseen
    PROVE  LapiInv' /\ PullInv' /\ OrderInv' /\ DropInv' /\ RowInv'
<1>1. UNCHANGED <<active, nextBan, cursor, mirror, boot, lost>>
  BY DEF UpsertsDone, SelectUnseen, lapi, memory
<1>2. /\ pull'.pc \in {"select", "drop"} /\ pull'.mode = pull.mode /\ pull'.todo = pull.todo
      /\ pull'.seen = pull.seen /\ pull'.ids = pull.ids
  BY DEF UpsertsDone, SelectUnseen, Inv, TypeOK, PullState
<1>3. \A k \in pull'.keys : k \in pull.keys \/ k \notin pull.seen
  BY DEF UpsertsDone, SelectUnseen, Inv, TypeOK, PullState
<1>4. pull.todo = {} /\ pull.mode # "none"
  BY DEF UpsertsDone, SelectUnseen, Inv, PullInv
<1>5. LapiInv'
  BY <1>1 DEF Inv, LapiInv
<1>6. PullInv'
  BY <1>1, <1>2, <1>3, <1>4 DEF Inv, PullInv
<1>7. OrderInv' /\ DropInv' /\ RowInv'
  BY <1>1, <1>2, <1>4 DEF Inv, OrderInv, DropInv, RowInv
<1> QED BY <1>5, <1>6, <1>7

\* A row that is tombstoned, or deleted as a tombstone, leaves the invariant's
\* parts about rows with less to say.
LEMMA FewerLive ==
    ASSUME Inv, TypeOK', UNCHANGED <<active, nextBan, cursor, boot, lost>>,
           \A k \in Key : mirror'[k].live => mirror'[k] = mirror[k],
           pull'.mode = pull.mode, pull'.todo = pull.todo, pull'.seen = pull.seen,
           pull'.ids \subseteq pull.ids
    PROVE  LapiInv' /\ OrderInv' /\ DropInv' /\ RowInv'
<1>1. LapiInv' /\ OrderInv'
  BY DEF Inv, LapiInv, OrderInv
<1>2. DropInv'
  BY CoreTypes DEF Inv, DropInv
<1>3. RowInv'
  BY CoreTypes DEF Inv, RowInv
<1> QED BY <1>1, <1>2, <1>3

\* The tombstones of a pull.
LEMMA DropStep ==
    ASSUME Inv, TypeOK', DropUnseen \/ DropGone
    PROVE  LapiInv' /\ PullInv' /\ OrderInv' /\ DropInv' /\ RowInv'
<1>1. UNCHANGED <<active, nextBan, cursor, boot, lost>>
  BY DEF DropUnseen, DropGone, lapi, memory
<1>2. /\ pull'.pc = pull.pc /\ pull'.mode = pull.mode /\ pull'.todo = pull.todo
      /\ pull'.seen = pull.seen /\ pull'.ids \subseteq pull.ids /\ pull'.keys \subseteq pull.keys
  BY DEF DropUnseen, DropGone, Inv, TypeOK, PullState
<1>3. \A k \in Key : mirror'[k].live => mirror'[k] = mirror[k]
  <2>1. CASE DropUnseen
    <3>1. PICK j \in pull.keys : mirror' = [mirror EXCEPT ![j].live = FALSE]
      BY <2>1 DEF DropUnseen, Tombstone
    <3>2. \A k \in Key : mirror[k] = [lapi |-> mirror[k].lapi, live |-> mirror[k].live]
      BY DEF Inv, TypeOK, Row
    <3> QED BY <3>1, <3>2 DEF Inv, TypeOK
  <2>2. CASE DropGone
    <3>1. PICK i \in pull.ids :
             mirror' = [k \in Key |-> IF k \in RowsOf(i) THEN [mirror[k] EXCEPT !.live = FALSE]
                                                         ELSE mirror[k]]
      BY <2>2 DEF DropGone
    <3>2. \A k \in Key : [mirror[k] EXCEPT !.live = FALSE].live = FALSE
      BY DEF Inv, TypeOK, Row
    <3> QED BY <3>1, <3>2
  <2> QED BY <2>1, <2>2
<1>4. pull.pc = "drop"
  BY DEF DropUnseen, DropGone
<1>5. PullInv'
  BY <1>1, <1>2, <1>4 DEF Inv, PullInv
<1> QED BY <1>1, <1>2, <1>3, <1>5, FewerLive

\* An operator's unban, and the pruning of tombstones.
LEMMA LocalStep ==
    ASSUME Inv, TypeOK', NEW j \in Key, Unban(j) \/ Prune(j)
    PROVE  LapiInv' /\ PullInv' /\ OrderInv' /\ DropInv' /\ RowInv'
<1>1. UNCHANGED <<active, nextBan, cursor, boot, lost, pull>>
  BY DEF Unban, Prune, lapi, memory
<1>2. \A k \in Key : mirror[k] = [lapi |-> mirror[k].lapi, live |-> mirror[k].live]
  BY DEF Inv, TypeOK, Row
<1>3. \A k \in Key : mirror'[k].live => mirror'[k] = mirror[k]
  BY <1>2 DEF Unban, Prune, Tombstone, NoRow, Inv, TypeOK
<1>4. PullInv'
  BY <1>1 DEF Inv, PullInv, Idle
<1> QED BY <1>1, <1>3, <1>4, FewerLive

\* A pull ends: complete, cut short by a statement that raised, or with its
\* answer lost.
LEMMA EndStep ==
    ASSUME Inv, PullDone \/ WriteFails \/ ReplyLost
    PROVE  LapiInv' /\ PullInv' /\ OrderInv' /\ DropInv' /\ RowInv'
<1>1. pull' = Idle
  BY DEF PullDone, WriteFails, ReplyLost, PullFailed
<1>2. LapiInv'
  <2>1. CASE PullDone \/ WriteFails
    BY <2>1 DEF PullDone, WriteFails, Inv, LapiInv, lapi
  <2>2. CASE ReplyLost
    <3>1. cursor'.new = {} /\ cursor'.gone = {} /\ UNCHANGED <<active, nextBan>>
      BY <2>2 DEF ReplyLost, StreamServed, PullFailed
    <3> QED BY <3>1 DEF Inv, LapiInv
  <2> QED BY <2>1, <2>2
<1>3. RowInv'
  <2>1. CASE ReplyLost
    BY <2>1 DEF ReplyLost, RowInv
  <2>2. CASE (PullDone \/ WriteFails) /\ Dropped
    <3>1. UNCHANGED <<active, nextBan, cursor, mirror>>
      BY <2>2 DEF PullDone, WriteFails, lapi
    <3>5. lost => lost'
      BY <2>2, Zenon DEF PullDone, WriteFails
    <3>2. pull.todo = {} /\ pull.pc = "drop"
      BY <2>2 DEF Dropped, Inv, PullInv
    <3>3. pull.mode # "none" => boot \/ pull.mode = "boot"
      BY DEF Inv, PullInv, TypeOK, PullState
    <3>4. pull.mode # "none"
      BY <3>2 DEF Inv, PullInv
    <3> QED BY <3>1, <3>2, <3>3, <3>4, <3>5 DEF Inv, RowInv
  <2>3. CASE WriteFails /\ ~Dropped
    <3>0. pull'.mode = "none"
      BY <1>1 DEF Idle
    <3>1. (boot' <=> boot) /\ (lost' <=> lost \/ pull.mode = "stream")
      BY <2>3, Zenon DEF WriteFails
    <3>2. pull.mode = "boot" \/ pull.mode = "stream"
      BY <2>3 DEF WriteFails, Inv, PullInv, TypeOK, PullState
    <3> QED BY <3>0, <3>1, <3>2 DEF Inv, PullInv, RowInv
  <2> QED BY <2>1, <2>2, <2>3 DEF PullDone
<1> QED BY <1>1, <1>2, <1>3, RestingInv

\* The LAPI bans.
LEMMA BanStep ==
    ASSUME Inv, NEW k \in Key, Ban(k)
    PROVE  LapiInv' /\ PullInv' /\ OrderInv' /\ DropInv' /\ RowInv'
<1> DEFINE b == [id |-> nextBan, key |-> k]
<1>1. /\ active' = active \cup {b} /\ nextBan' = nextBan + 1
      /\ cursor'.new = cursor.new \cup {nextBan} /\ cursor'.gone = cursor.gone
  BY DEF Ban, Inv, TypeOK, CursorState
<1>2. UNCHANGED <<mirror, boot, lost, pull>>
  BY DEF Ban, memory
<1>3. b.id = nextBan /\ b.key = k
  OBVIOUS
<1> HIDE DEF b
<1>4. LapiInv'
  BY <1>1, <1>3, CoreTypes DEF Inv, LapiInv
<1>5. PullInv' /\ DropInv'
  BY <1>2 DEF Inv, PullInv, DropInv, Idle
<1>6. OrderInv'
  BY <1>1, <1>2, <1>3, CoreTypes DEF Inv, OrderInv
<1>7. RowInv'
  BY <1>1, <1>2, <1>3, CoreTypes DEF Inv, RowInv
<1> QED BY <1>4, <1>5, <1>6, <1>7

\* A decision ends: the oldest of its identity.
LEMMA EndsStep ==
    ASSUME Inv, NEW d \in active, Ends(d)
    PROVE  LapiInv' /\ PullInv' /\ OrderInv' /\ DropInv' /\ RowInv'
<1>1. /\ active' = active \ {d} /\ nextBan' = nextBan
      /\ cursor'.new = cursor.new \ {d.id}
      /\ cursor'.gone \subseteq cursor.gone \cup {d.id}
  BY DEF Ends, Inv, TypeOK, CursorState
<1>2. UNCHANGED <<mirror, boot, pull>> /\ (lost => lost')
  BY DEF Ends, memory
<1>3. \A e \in active : e # d => e.id # d.id
  BY DEF Inv, LapiInv
<1>4. \A e \in active : e.key = d.key /\ e # d => d.id < e.id
  BY <1>3, CoreTypes DEF Ends, Inv
<1>5. LapiInv'
  BY <1>1, <1>3, CoreTypes DEF Inv, LapiInv
<1>6. PullInv' /\ DropInv'
  BY <1>2 DEF Inv, PullInv, DropInv, Idle
<1>7. OrderInv'
  BY <1>1, <1>2, <1>3, <1>4 DEF Inv, OrderInv
<1>8. RowInv'
  <2> SUFFICES ASSUME ~lost', boot \/ pull.mode = "boot", NEW c \in active, c # d,
                      c.id \notin cursor.new, c \notin pull.todo, mirror[c.key].live
               PROVE  \E e \in active \ {d} : e.key = c.key /\ e.id = mirror[c.key].lapi /\ c.id <= e.id
    BY <1>1, <1>2, <1>3 DEF RowInv
  <2>1. PICK e \in active : e.key = c.key /\ e.id = mirror[c.key].lapi /\ c.id <= e.id
    BY <1>2 DEF Inv, RowInv
  <2>2. e # d
    BY <1>4, <2>1, CoreTypes DEF Inv
  <2> QED BY <2>1, <2>2
<1> QED BY <1>5, <1>6, <1>7, <1>8

\* Another LAPI, or another key: everything active is new to it.
LEMMA SwitchStep ==
    ASSUME Inv, TypeOK', AddSource \/ \E S \in OtherLapi : SwitchRow(S)
    PROVE  LapiInv' /\ PullInv' /\ OrderInv' /\ DropInv' /\ RowInv'
<1>1. /\ \A d, e \in active' : d.id = e.id => d = e
      /\ \A d \in active' : d.id < nextBan'
  <2>1. CASE AddSource
    BY <2>1 DEF AddSource, Inv, LapiInv
  <2>2. CASE \E S \in OtherLapi : SwitchRow(S)
    BY <2>2, OtherLapiType DEF SwitchRow
  <2> QED BY <2>1, <2>2
<1>2. cursor'.gone = {} /\ \A d \in active' : d.id \in cursor'.new
  BY DEF AddSource, SwitchRow, NoCursor
<1>3. UNCHANGED <<mirror, boot, pull>> /\ (lost => lost')
  <2>1. UNCHANGED <<mirror, boot, pull>>
    BY DEF AddSource, SwitchRow, memory
  <2>2. lost => lost'
    BY Zenon DEF AddSource, SwitchRow
  <2> QED BY <2>1, <2>2
<1>4. LapiInv'
  BY <1>1, <1>2 DEF LapiInv
<1>5. PullInv' /\ DropInv'
  BY <1>3 DEF Inv, PullInv, DropInv, Idle
<1>6. OrderInv' /\ RowInv'
  BY <1>2 DEF OrderInv, RowInv
<1> QED BY <1>4, <1>5, <1>6

LEMMA InvStep == Inv /\ [Next]_vars => Inv'
<1> SUFFICES ASSUME Inv, [Next]_vars PROVE Inv'
  OBVIOUS
<1> DEFINE Goal == LapiInv' /\ PullInv' /\ OrderInv' /\ DropInv' /\ RowInv'
<1>1. TypeOK'
  BY TypeStep DEF Inv
<1>2. ASSUME TickSync \/ TickSkip \/ FetchFails \/ Restart \/ FetchAll \/ FetchDelta PROVE Goal
  BY <1>2, RestStep, RestartStep, FetchAllStep, FetchDeltaStep
<1>3. ASSUME UpsertNext \/ UpsertsDone \/ SelectUnseen \/ DropUnseen \/ DropGone PROVE Goal
  BY <1>1, <1>3, UpsertStep, PhaseStep, DropStep
<1>4. ASSUME PullDone \/ WriteFails \/ ReplyLost PROVE Goal
  BY <1>4, EndStep
<1>5. ASSUME NEW k \in Key, Unban(k) \/ Prune(k) \/ Ban(k) PROVE Goal
  BY <1>1, <1>5, LocalStep, BanStep
<1>6. ASSUME NEW d \in active, Ends(d) PROVE Goal
  BY <1>6, EndsStep
<1>7. ASSUME AddSource \/ \E S \in OtherLapi : SwitchRow(S) PROVE Goal
  BY <1>1, <1>7, SwitchStep
<1>8. ASSUME BackoffEnds \/ SwitchFile \/ RemoveSource \/ (\E paused \in BOOLEAN : SetPaused(paused)) PROVE Goal
  <2>1. UNCHANGED core
    BY <1>8 DEF BackoffEnds, SwitchFile, RemoveSource, SetPaused, core, lapi, memory
  <2> QED BY <2>1, CoreSame
<1>9. ASSUME UNCHANGED vars PROVE Goal
  <2>1. UNCHANGED core
    BY <1>9 DEF vars, core, lapi, memory
  <2> QED BY <2>1, CoreSame
<1>10. Goal
  BY <1>2, <1>3, <1>4, <1>5, <1>6, <1>7, <1>8, <1>9 DEF Next, Cycle, Faults, Admin, Lapi
<1> QED BY <1>1, <1>10 DEF Inv

LEMMA InvInit == Init => Inv
<1> SUFFICES ASSUME Init PROVE Inv
  OBVIOUS
<1>1. active = {} /\ pull = Idle /\ cursor.gone = {} /\ nextBan = 1
  BY DEF Init, NoCursor
<1>2. LapiInv /\ OrderInv /\ RowInv
  BY <1>1 DEF LapiInv, OrderInv, RowInv
<1>3. PullInv /\ DropInv
  BY <1>1 DEF PullInv, DropInv, Idle
<1> QED BY <1>2, <1>3, TypeInit DEF Inv

\* A step that tombstones a row is one of a pull, of an operator, or one
\* that the invariant rules out.
LEMMA OnlyIfGoneStep ==
    ASSUME Inv, Next, NEW k \in Key, mirror[k].live, ~mirror'[k].live, used'.so.unban = used.so.unban
    PROVE  lost \/ k \notin pull.seen
<1>1. CASE DropUnseen
  <2>1. PICK j \in pull.keys : mirror' = [mirror EXCEPT ![j].live = FALSE]
    BY <1>1 DEF DropUnseen, Tombstone
  <2>2. k = j
    BY <2>1 DEF Inv, TypeOK
  <2> QED BY <2>2 DEF Inv, PullInv
<1>2. CASE DropGone
  <2>1. PICK i \in pull.ids :
           mirror' = [h \in Key |-> IF h \in RowsOf(i) THEN [mirror[h] EXCEPT !.live = FALSE]
                                                       ELSE mirror[h]]
    BY <1>2 DEF DropGone
  <2>2. mirror[k].lapi \in pull.ids
    BY <2>1 DEF RowsOf
  <2>3. pull.todo = {}
    BY <1>2 DEF DropGone, Inv, PullInv
  <2> QED BY <2>2, <2>3 DEF Inv, DropInv
<1>3. CASE \E j \in Key : Unban(j)
  BY <1>3 DEF Unban, Spend, Event, Inv, TypeOK
<1>4. CASE \E j \in Key : Prune(j)
  BY <1>4 DEF Prune, Inv, TypeOK
<1>5. CASE UpsertNext
  <2>1. PICK d \in pull.todo : mirror' = [mirror EXCEPT ![d.key] = [lapi |-> d.id, live |-> TRUE]]
    BY <1>5 DEF UpsertNext, Upsert
  <2> QED BY <2>1 DEF Inv, TypeOK
<1>6. CASE UNCHANGED mirror
  BY <1>6
<1>7. \/ UNCHANGED mirror \/ UpsertNext \/ DropUnseen \/ DropGone
      \/ (\E j \in Key : Unban(j)) \/ (\E j \in Key : Prune(j))
  BY DEF Next, Cycle, Faults, Admin, Lapi, TickSync, TickSkip, FetchAll, FetchDelta, UpsertsDone,
         SelectUnseen, PullDone, FetchFails, ReplyLost, PullFailed, WriteFails, Restart, BackoffEnds,
         SetPaused, SwitchRow, SwitchFile, RemoveSource, AddSource, Ban, Ends
<1> QED BY <1>1, <1>2, <1>3, <1>4, <1>5, <1>6, <1>7

\* A pull never drops a ban its LAPI still had when it answered, unless an
\* earlier answer was lost: for any number of identities and renewals, and
\* through every failure, restart, save and re-creation of the source
\* (_bootstrap, _stream_apply).
THEOREM DroppedOnlyIfGone == Spec => TombstonedOnlyIfGone
<1>1. Inv /\ [Next]_vars =>
         [\A k \in Key : mirror[k].live /\ ~mirror'[k].live /\ used'.so.unban = used.so.unban
             => lost \/ k \notin pull.seen]_vars
  BY OnlyIfGoneStep
<1> QED BY <1>1, InvInit, InvStep, PTL DEF Spec, TombstonedOnlyIfGone

=============================================================================
