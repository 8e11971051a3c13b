--------------------------- MODULE FailoverProofs ---------------------------
(***************************************************************************)
(* Proofs about Failover, for any hosts, addresses, roles, batch size and  *)
(* number of faults.                                                       *)
(***************************************************************************)
EXTENDS Failover, TLAPS

-----------------------------------------------------------------------------
(* What an actor is at *)

Busy == [pc : Step, phase : {"run", "adding", "removing"}, want : SUBSET Entry, add : SUBSET Entry,
         rem : SUBSET Entry, cur : SUBSET Entry, id : Nat, ok : BOOLEAN]

\* Only the test has a row, and only a run takes a snapshot for its diff.
Tidy(j) == j # Idle => (j.pc = "snap" => j.phase = "run") /\ (j.phase = "run" => j.id = 0)

\* What p does next leaves a test under its number.
Carries(p, j) ==
    /\ j \in Job /\ Tidy(j)
    /\ job[p] # Idle /\ job[p].id # 0 => j # Idle /\ j.id = job[p].id

JobsTidy == \A p \in Actor : Tidy(job[p])

LEMMA JobIsBusy ==
    ASSUME TypeOK, NEW p \in Actor
    PROVE  /\ job[p].pc \in Step => job[p] \in Busy /\ job[p] # Idle
           /\ job[p] # Idle => job[p] \in Busy
           /\ Busy \subseteq Job /\ Idle \in Job
  BY DEF TypeOK, Job, Busy, Idle, Step

LEMMA BusyNotIdle == \A j \in Busy : j # Idle
  BY DEF Busy, Idle, Step

LEMMA BeginBusy ==
    ASSUME NEW pc \in Step, NEW phase \in {"run", "adding", "removing"}, NEW want \in SUBSET Entry, NEW id \in Nat
    PROVE  /\ Begin(pc, phase, want, id) \in Busy
           /\ Begin(pc, phase, want, id).phase = phase /\ Begin(pc, phase, want, id).id = id
           /\ Begin(pc, phase, want, id).pc = pc
  BY DEF Begin, Busy

\* A busy actor that keeps its number and its phase, and does not go back
\* to the snapshot.
LEMMA GoesOn ==
    ASSUME TypeOK, JobsTidy, NEW p \in Actor, job[p].pc \in Step,
           NEW j \in Busy, j.id = job[p].id, j.pc # "snap",
           j.phase = job[p].phase \/ j.phase # "run"
    PROVE  Carries(p, j)
  BY JobIsBusy, BusyNotIdle DEF JobsTidy, Tidy, Carries

\* A result is noted.
LEMMA ResultNoted ==
    ASSUME NEW j \in Busy, NEW pc \in Step, NEW b \in BOOLEAN
    PROVE  LET k == [j EXCEPT !.pc = pc, !.ok = b]
           IN  k \in Busy /\ k.id = j.id /\ k.pc = pc /\ k.phase = j.phase
  BY DEF Busy

LEMMA ReturnsTidy ==
    ASSUME TypeOK, JobsTidy, NEW p \in Actor, job[p].pc \in Step
    PROVE  Carries(p, Returned(p)) /\ Returned(p).pc # "activate"
<1>1. job[p] \in Busy /\ job[p] # Idle /\ Busy \subseteq Job /\ Idle \in Job
  BY JobIsBusy
<1>2. CASE job[p].phase = "run"
  BY <1>1, <1>2 DEF Returned, Carries, JobsTidy, Tidy, Idle
<1>3. CASE job[p].phase = "adding"
  <2> DEFINE j == [job[p] EXCEPT !.pc = "check", !.add = {}, !.cur = {}]
  <2>1. Returned(p) = j
    BY <1>3 DEF Returned
  <2>2. j \in Busy /\ j.id = job[p].id /\ j.pc = "check" /\ j.phase = job[p].phase
    BY <1>1 DEF Busy, Step
  <2> HIDE DEF j
  <2> QED BY <2>1, <2>2, GoesOn
<1>4. CASE job[p].phase = "removing"
  <2> DEFINE j == [job[p] EXCEPT !.pc = "absent", !.rem = {}, !.cur = {}]
  <2>1. Returned(p) = j
    BY <1>4 DEF Returned
  <2>2. j \in Busy /\ j.id = job[p].id /\ j.pc = "absent" /\ j.phase = job[p].phase
    BY <1>1 DEF Busy, Step
  <2> HIDE DEF j
  <2> QED BY <2>1, <2>2, GoesOn
<1> QED BY <1>1, <1>2, <1>3, <1>4 DEF Busy

-----------------------------------------------------------------------------
(* The inductive invariant *)

\* The row of a test is there as long as a test of that number goes on.
SynthInv ==
    \A h \in Host : synth[h].id # 0 =>
        orphan[h] \/ \E p \in Actor : HostOf(p) = h /\ InTest(p) /\ job[p].id = synth[h].id

\* Until a database is copied the setting says what the operator said.
RoleInv == ~copied => \A h \in Host : told[h] = Role(roleDb[h], h)

Inv == TypeOK /\ JobsTidy /\ StagedExplained /\ SynthInv /\ RoleInv /\ StandbyQuietAlone

LEMMA RoleType ==
    ASSUME NEW h \in Host, NEW db \in {"unset", "primary", "standby"}
    PROVE  Role(db, h) \in {"primary", "standby"}
  BY FailoverAssumption DEF Role

LEMMA InvInit == Init => Inv
<1> SUFFICES ASSUME Init PROVE Inv
  OBVIOUS
<1>1. told \in [Host -> {"primary", "standby"}]
  BY RoleType DEF Init
<1>2. job \in [Actor -> Job]
  BY DEF Init, Job, Idle
<1>3. quiet \in [Host -> BOOLEAN]
  BY DEF Init
<1>4. synth \in [Host -> [id : Nat, live : BOOLEAN]]
  BY DEF Init, NoSynth
<1>5. used \in 0..MaxEvents
  BY FailoverAssumption DEF Init
<1>6. rows \in [Host -> SUBSET Addr]
  BY DEF Init
<1>7. TypeOK
  <2>1. unapplied \in BOOLEAN /\ copied \in BOOLEAN /\ orphan \in [Host -> BOOLEAN]
    BY Zenon DEF Init
  <2>2. /\ roleDb \in [Host -> {"unset", "primary", "standby"}]
        /\ poller \in [Host -> {"owner", "none", "respawn", "down"}]
    BY DEF Init
  <2>3. kind \in Kind /\ page \in Host /\ tokens \in 0..1
    BY DEF Init
  <2>4. alias \subseteq Entry /\ active \subseteq Entry
    BY DEF Init
  <2> QED BY <1>1, <1>2, <1>3, <1>4, <1>5, <1>6, <2>1, <2>2, <2>3, <2>4 DEF TypeOK
<1>8. JobsTidy /\ StagedExplained
  BY DEF Init, JobsTidy, Tidy, StagedExplained
<1>9. SynthInv
  BY DEF Init, SynthInv, NoSynth
<1>10. RoleInv /\ StandbyQuietAlone
  BY Zenon DEF Init, RoleInv, StandbyQuietAlone
<1> QED BY <1>7, <1>8, <1>9, <1>10 DEF Inv

\* A step of an actor that leaves the databases alone.
LEMMA Wrote ==
    ASSUME Inv, NEW p \in Actor, NEW j, Carries(p, j), Becomes(p, j), used' \in 0..MaxEvents,
           UNCHANGED <<conf, dbs, roles, copied, orphan>>,
           alias' \subseteq Entry, active' \subseteq Entry, unapplied' \in BOOLEAN, tokens' \in 0..1,
           StagedExplained'
    PROVE  Inv'
<1>1. job' \in [Actor -> Job] /\ job'[p] = j /\ \A q \in Actor : q # p => job'[q] = job[q]
  BY DEF Becomes, Carries, Inv, TypeOK
<1>2. TypeOK'
  BY <1>1 DEF Inv, TypeOK, conf, dbs, roles
<1>3. JobsTidy'
  BY <1>1 DEF Inv, JobsTidy, Carries
<1>4. SynthInv'
  BY <1>1 DEF Inv, SynthInv, InTest, Carries, dbs
<1>5. RoleInv' /\ StandbyQuietAlone'
  BY DEF Inv, RoleInv, StandbyQuietAlone, dbs, roles
<1> QED BY <1>2, <1>3, <1>4, <1>5 DEF Inv

\* An actor that only thinks or reads.
LEMMA Carried ==
    ASSUME Inv, NEW p \in Actor, NEW j, Carries(p, j), Becomes(p, j),
           job[p].pc # "activate", used' \in 0..MaxEvents,
           UNCHANGED <<conf, dbs, roles, alias, active, unapplied, copied, orphan>>,
           tokens' \in 0..1
    PROVE  Inv'
<1>1. \A q \in Actor : q # p => job'[q] = job[q]
  BY DEF Becomes, Inv, TypeOK
<1>2. StagedExplained'
  BY <1>1 DEF Inv, StagedExplained
<1>3. alias' \subseteq Entry /\ active' \subseteq Entry /\ unapplied' \in BOOLEAN
  BY DEF Inv, TypeOK
<1> QED BY <1>2, <1>3, Wrote

\* Events are counted up to their bound.
LEMMA RiskType == ASSUME TypeOK, NEW ok, Risk(ok) \/ Spend PROVE used' \in 0..MaxEvents
  BY FailoverAssumption DEF Risk, Spend, TypeOK

LEMMA ReadType == ASSUME TypeOK, NEW ok PROVE Read(ok) \subseteq Entry
  BY DEF Read, TypeOK

LEMMA StartStep ==
    ASSUME Inv, NEW p \in Actor, StartRun(p) \/ StartTest(p)
    PROVE  Inv'
<1>1. used' \in 0..MaxEvents /\ tokens' \in 0..1
  BY RiskType DEF StartRun, StartTest, Inv, TypeOK, target
<1>2. HostOf(p) \in Host /\ job[p] = Idle
  BY DEF Actor, HostOf, StartRun, StartTest
<1>3. CASE StartRun(p)
  <2> DEFINE j == Begin("snap", "run", Desired(HostOf(p)), 0)
  <2>1. Desired(HostOf(p)) \subseteq Entry
    BY <1>2 DEF Desired, Inv, TypeOK, Entry
  <2>2. j \in Busy /\ j.phase = "run" /\ j.id = 0
    BY <2>1, BeginBusy DEF Step
  <2> HIDE DEF j
  <2>3. Carries(p, j)
    BY <1>2, <2>2, JobIsBusy DEF Carries, Tidy, Inv
  <2>4. Becomes(p, j)
    BY <1>3 DEF StartRun, j
  <2> QED BY <1>1, <1>2, <1>3, <2>3, <2>4, Carried DEF StartRun, target, Idle
<1>4. CASE StartTest(p)
  <2> DEFINE j == Begin("insert", "adding", {}, synth[HostOf(p)].id + 1)
  <2>1. synth[HostOf(p)].id + 1 \in Nat
    BY <1>2 DEF Inv, TypeOK
  <2>2. j \in Busy /\ j.phase = "adding" /\ j.pc = "insert"
    BY <2>1, BeginBusy DEF Step
  <2> HIDE DEF j
  <2>3. Carries(p, j)
    BY <1>2, <2>2, JobIsBusy DEF Carries, Tidy, Inv
  <2>4. Becomes(p, j)
    BY <1>4 DEF StartTest, j
  <2> QED BY <1>1, <1>2, <1>4, <2>3, <2>4, Carried DEF StartTest, target, Idle
<1> QED BY <1>3, <1>4

\* The steps that read the target.
LEMMA ReadStep ==
    ASSUME Inv, NEW p \in Actor, NEW ok \in BOOLEAN,
           Snapshot(p, ok) \/ Reread(p, ok) \/ CheckAdd(p, ok) \/ FindEntry(p, ok) \/ CheckGone(p, ok)
    PROVE  Inv'
<1>1. used' \in 0..MaxEvents
  BY RiskType DEF Snapshot, Reread, CheckAdd, FindEntry, CheckGone, Inv
<1>2. /\ UNCHANGED <<conf, dbs, roles, alias, active, unapplied, copied, orphan>> /\ tokens' = tokens
      /\ job[p].pc \in Step /\ job[p].pc # "activate"
  BY DEF Snapshot, Reread, CheckAdd, FindEntry, CheckGone, target, Step
<1>3. job[p] \in Busy /\ Read(ok) \subseteq Entry
  BY <1>2, JobIsBusy, ReadType DEF Inv
<1>4. \E j : Carries(p, j) /\ Becomes(p, j)
  <2>1. CASE Snapshot(p, ok)
    <3>1. PICK a \in Batch(job[p].want \ Read(ok)), r \in Batch(Read(ok) \ job[p].want) :
            Becomes(p, IF a \cup r = {} THEN Idle
                       ELSE [job[p] EXCEPT !.pc = "push", !.want = {}, !.add = a, !.rem = r])
      BY <2>1 DEF Snapshot
    <3>2. a \subseteq Entry /\ r \subseteq Entry
      BY <1>3 DEF Batch, Busy
    <3> DEFINE j == [job[p] EXCEPT !.pc = "push", !.want = {}, !.add = a, !.rem = r]
    <3>3. j \in Busy /\ j.id = job[p].id /\ j.pc = "push" /\ j.phase = job[p].phase
      BY <1>3, <3>2 DEF Busy, Step
    <3> HIDE DEF j
    <3>4. Carries(p, j)
      BY <1>2, <3>3, GoesOn DEF Inv
    <3>5. Carries(p, Idle)
      BY <1>2, <2>1, JobIsBusy DEF Carries, Snapshot, Inv, JobsTidy, Tidy
    <3> QED BY <3>1, <3>4, <3>5 DEF j
  <2>2. CASE Reread(p, ok)
    <3> DEFINE j == [job[p] EXCEPT !.pc = "patch", !.cur = Read(ok)]
    <3>1. j \in Busy /\ j.id = job[p].id /\ j.pc = "patch" /\ j.phase = job[p].phase
      BY <1>3 DEF Busy, Step
    <3>2. Becomes(p, j)
      BY <2>2 DEF Reread
    <3> HIDE DEF j
    <3> QED BY <1>2, <3>1, <3>2, GoesOn DEF Inv
  <2>3. CASE CheckAdd(p, ok)
    <3> DEFINE b == Synth \in Read(ok)
               j == [job[p] EXCEPT !.pc = "soft", !.ok = b]
    <3>2. Becomes(p, j)
      BY <2>3 DEF CheckAdd
    <3>3. b \in BOOLEAN /\ "soft" \in Step /\ job[p] \in Busy
      BY <1>3 DEF Step
    <3> HIDE DEF b
    <3>1. j \in Busy /\ j.id = job[p].id /\ j.pc = "soft" /\ j.phase = job[p].phase
      BY <3>3, ResultNoted
    <3> HIDE DEF j
    <3> QED BY <1>2, <3>1, <3>2, GoesOn DEF Inv
  <2>4. CASE FindEntry(p, ok)
    <3> DEFINE j == [job[p] EXCEPT !.pc = "push", !.phase = "removing", !.add = {}, !.rem = {Synth}]
               k == [job[p] EXCEPT !.pc = "absent", !.phase = "removing"]
    <3>1. j \in Busy /\ j.id = job[p].id /\ j.pc = "push" /\ j.phase = "removing"
      BY <1>3 DEF Busy, Step, Entry
    <3>2. k \in Busy /\ k.id = job[p].id /\ k.pc = "absent" /\ k.phase = "removing"
      BY <1>3 DEF Busy, Step
    <3>3. Becomes(p, j) \/ Becomes(p, k)
      BY <2>4 DEF FindEntry
    <3> HIDE DEF j, k
    <3> QED BY <1>2, <3>1, <3>2, <3>3, GoesOn DEF Inv
  <2>5. CASE CheckGone(p, ok)
    <3> DEFINE j == [job[p] EXCEPT !.pc = "purge", !.ok = @ /\ Synth \notin Read(ok)]
    <3>1. j \in Busy /\ j.id = job[p].id /\ j.pc = "purge" /\ j.phase = job[p].phase
      BY <1>3 DEF Busy, Step
    <3>2. Becomes(p, j)
      BY <2>5 DEF CheckGone
    <3> HIDE DEF j
    <3> QED BY <1>2, <3>1, <3>2, GoesOn DEF Inv
  <2> QED BY <2>1, <2>2, <2>3, <2>4, <2>5
<1> QED BY <1>1, <1>2, <1>4, Carried DEF Inv, TypeOK

\* pfSense: the alias is replaced, then loaded.
LEMMA PatchStep ==
    ASSUME Inv, NEW p \in Actor, NEW l \in BOOLEAN, NEW a \in BOOLEAN, Patch(p, l, a)
    PROVE  Inv'
<1> DEFINE j == [job[p] EXCEPT !.pc = "activate", !.add = {}, !.rem = {}, !.cur = {}]
<1>1. job[p].pc = "patch" /\ job[p].pc \in Step
  BY DEF Patch, Step
<1>2. job[p] \in Busy
  BY <1>1, JobIsBusy DEF Inv
<1>3. j \in Busy /\ j.id = job[p].id /\ j.pc = "activate" /\ j.phase = job[p].phase
  BY <1>2 DEF Busy, Step
<1>4. Becomes(p, IF l /\ a THEN j ELSE Returned(p))
  BY DEF Patch
<1> HIDE DEF j
<1>5. Carries(p, j) /\ Carries(p, Returned(p))
  BY <1>1, <1>3, GoesOn, ReturnsTidy DEF Inv
<1>6. alias' \subseteq Entry
  BY <1>2 DEF Patch, NewSet, Busy, Inv, TypeOK
<1>7. used' \in 0..MaxEvents
  BY RiskType DEF Patch, Inv
<1>8. unapplied' \in BOOLEAN
  BY Zenon DEF Patch, Inv, TypeOK
<1>9. StagedExplained'
  <2>1. CASE l /\ a
    <3>1. job'[p].pc = "activate"
      BY <1>3, <1>4, <2>1 DEF Becomes, Inv, TypeOK
    <3> QED BY <3>1 DEF StagedExplained
  <2>2. CASE l /\ ~a
    BY <2>2 DEF Patch, StagedExplained
  <2>3. CASE ~l
    <3>1. \A q \in Actor : q # p => job'[q] = job[q]
      BY <1>4 DEF Becomes, Inv, TypeOK
    <3>2. alias' = alias /\ active' = active /\ (unapplied => unapplied')
      BY <2>3 DEF Patch
    <3> QED BY <1>1, <3>1, <3>2 DEF Inv, StagedExplained
  <2> QED BY <2>1, <2>2, <2>3
<1>10. UNCHANGED <<conf, dbs, roles, active, tokens, copied, orphan>>
  BY DEF Patch
<1>11. active' \subseteq Entry /\ tokens' \in 0..1
  BY <1>10 DEF Inv, TypeOK
<1>12. CASE l /\ a
  BY <1>4, <1>5, <1>6, <1>7, <1>8, <1>9, <1>10, <1>11, <1>12, Wrote
<1>13. CASE ~(l /\ a)
  BY <1>4, <1>5, <1>6, <1>7, <1>8, <1>9, <1>10, <1>11, <1>13, Wrote
<1> QED BY <1>12, <1>13

LEMMA ActivateStep ==
    ASSUME Inv, NEW p \in Actor, NEW ok \in BOOLEAN, Activate(p, ok)
    PROVE  Inv'
<1>1. Carries(p, Returned(p)) /\ Becomes(p, Returned(p))
  BY ReturnsTidy DEF Activate, Step, Inv
<1>2. used' \in 0..MaxEvents
  BY RiskType DEF Activate, Inv
<1>3. alias' \subseteq Entry /\ active' \subseteq Entry /\ tokens' \in 0..1
  BY DEF Activate, Inv, TypeOK
<1>4. unapplied' \in BOOLEAN
  BY Zenon DEF Activate
<1>5. StagedExplained'
  BY DEF Activate, StagedExplained
<1> QED BY <1>1, <1>2, <1>3, <1>4, <1>5, Wrote DEF Activate

\* The other adapters: what is written is enforced at once.
LEMMA PushStep ==
    ASSUME Inv, NEW p \in Actor, NEW x \in Entry, NEW l \in BOOLEAN, PushEntry(p, x, l)
    PROVE  Inv'
<1> DEFINE j == [job[p] EXCEPT !.add = @ \ {x}, !.rem = IF job[p].add = {} THEN @ \ {x} ELSE @]
<1>1. job[p].pc = "push" /\ job[p].pc \in Step
  BY DEF PushEntry, Step
<1>2. job[p] \in Busy
  BY <1>1, JobIsBusy DEF Inv
<1>3. j \in Busy /\ j.id = job[p].id /\ j.pc = "push" /\ j.phase = job[p].phase
  BY <1>1, <1>2 DEF Busy
<1>4. Becomes(p, IF j.add \cup j.rem = {} THEN Returned(p) ELSE j)
  BY DEF PushEntry
<1> HIDE DEF j
<1>5. Carries(p, j) /\ Carries(p, Returned(p))
  BY <1>1, <1>3, GoesOn, ReturnsTidy DEF Inv
<1>6. used' \in 0..MaxEvents
  BY RiskType DEF PushEntry, Inv
<1>7. UNCHANGED <<conf, dbs, roles, tokens, copied, orphan>>
  BY DEF PushEntry
<1>8. \A q \in Actor : q # p => job'[q] = job[q]
  BY <1>4 DEF Becomes, Inv, TypeOK
<1>9. /\ alias' \subseteq Entry /\ active' \subseteq Entry /\ unapplied' = unapplied
      /\ UNCHANGED <<alias, active>> \/ active' = alias'
  BY DEF PushEntry, Write, Inv, TypeOK
<1>10. StagedExplained'
  BY <1>1, <1>8, <1>9 DEF Inv, StagedExplained
<1>11. unapplied' \in BOOLEAN /\ tokens' \in 0..1
  BY <1>7, <1>9 DEF Inv, TypeOK
<1>12. CASE j.add \cup j.rem = {}
  BY <1>4, <1>5, <1>6, <1>7, <1>9, <1>10, <1>11, <1>12, Wrote
<1>13. CASE j.add \cup j.rem # {}
  BY <1>4, <1>5, <1>6, <1>7, <1>9, <1>10, <1>11, <1>13, Wrote
<1> QED BY <1>12, <1>13

LEMMA ChunkStep ==
    ASSUME Inv, NEW p \in Actor, NEW how \in {"ok", "late", "error", "raise", "429", "denied"}, Chunk(p, how)
    PROVE  Inv'
<1> DEFINE j == [job[p] EXCEPT !.add = {}]
<1>1. job[p].pc = "push" /\ job[p].pc \in Step
  BY DEF Chunk, Step
<1>2. job[p] \in Busy
  BY <1>1, JobIsBusy DEF Inv
<1>3. j \in Busy /\ j.id = job[p].id /\ j.pc = "push" /\ j.phase = job[p].phase
  BY <1>1, <1>2 DEF Busy
<1>4. Becomes(p, j) \/ Becomes(p, Returned(p))
  BY DEF Chunk
<1> HIDE DEF j
<1>5. Carries(p, j) /\ Carries(p, Returned(p))
  BY <1>1, <1>3, GoesOn, ReturnsTidy DEF Inv
<1>6. used' \in 0..MaxEvents
  BY RiskType DEF Chunk, Inv, TypeOK
<1>7. UNCHANGED <<conf, dbs, roles, copied, orphan>>
  BY DEF Chunk
<1>8. \A q \in Actor : q # p => job'[q] = job[q]
  BY <1>4 DEF Becomes, Inv, TypeOK
<1>9. /\ alias' \subseteq Entry /\ active' \subseteq Entry /\ unapplied' = unapplied
      /\ UNCHANGED <<alias, active>> \/ active' = alias'
  BY <1>2 DEF Chunk, Write, Inv, TypeOK, Busy
<1>10. StagedExplained'
  BY <1>1, <1>8, <1>9 DEF Inv, StagedExplained
<1>11. unapplied' \in BOOLEAN
  BY <1>9 DEF Inv, TypeOK
<1>12. tokens' \in 0..1
  <2>1. (how = "denied") <=> (tokens = 0)
    BY DEF Chunk
  <2>2. tokens' = IF how \in {"429", "denied"} THEN 0 ELSE tokens - 1
    BY DEF Chunk, TokensAfter
  <2>3. tokens \in 0..1
    BY DEF Inv, TypeOK
  <2> QED BY <2>1, <2>2, <2>3
<1> QED BY <1>4, <1>5, <1>6, <1>7, <1>9, <1>10, <1>11, <1>12, Wrote

-----------------------------------------------------------------------------
\* The steps of the test that write its row.
LEMMA RowStep ==
    ASSUME Inv, NEW p \in Actor, NEW j \in Job, Becomes(p, j), Tidy(j), job[p].pc # "activate",
           UNCHANGED <<conf, rows, roleDb, roles, target, copied>>, used' \in 0..MaxEvents,
           synth' \in [Host -> [id : Nat, live : BOOLEAN]], orphan' \in [Host -> BOOLEAN], SynthInv'
    PROVE  Inv'
<1>1. job' \in [Actor -> Job] /\ job'[p] = j /\ \A q \in Actor : q # p => job'[q] = job[q]
  BY DEF Becomes, Inv, TypeOK
<1>2. TypeOK'
  BY <1>1 DEF Inv, TypeOK, conf, roles, target
<1>3. JobsTidy' /\ StagedExplained'
  BY <1>1 DEF Inv, JobsTidy, StagedExplained, target
<1>4. RoleInv' /\ StandbyQuietAlone'
  BY DEF Inv, RoleInv, StandbyQuietAlone, roles
<1> QED BY <1>2, <1>3, <1>4 DEF Inv

LEMMA InsertStep == ASSUME Inv, NEW p \in Actor, InsertSynth(p) PROVE Inv'
<1> DEFINE j == [job[p] EXCEPT !.pc = "push", !.add = {Synth}]
<1>1. job[p].pc \in Step /\ job[p].pc # "activate" /\ HostOf(p) \in Host
  BY DEF InsertSynth, Step, Actor, HostOf
<1>2. job[p] \in Busy
  BY <1>1, JobIsBusy DEF Inv
<1>3. j \in Busy /\ j.id = job[p].id /\ j.pc = "push" /\ j.phase = job[p].phase /\ job[p].id \in Nat
  BY <1>2 DEF Busy, Step, Entry
<1>4. Becomes(p, j)
  BY DEF InsertSynth
<1> HIDE DEF j
<1>5. Carries(p, j) /\ j # Idle
  BY <1>1, <1>3, GoesOn, BusyNotIdle DEF Inv
<1>6. job'[p] = j /\ \A q \in Actor : q # p => job'[q] = job[q]
  BY <1>4 DEF Becomes, Inv, TypeOK
<1>7. /\ synth' = [synth EXCEPT ![HostOf(p)] = [id |-> job[p].id, live |-> TRUE]]
      /\ orphan' = [orphan EXCEPT ![HostOf(p)] = FALSE]
  BY DEF InsertSynth
<1>8. /\ synth' \in [Host -> [id : Nat, live : BOOLEAN]]
      /\ orphan' \in [Host -> BOOLEAN] /\ used' \in 0..MaxEvents
  <2>1. synth' \in [Host -> [id : Nat, live : BOOLEAN]]
    BY <1>3, <1>7 DEF Inv, TypeOK
  <2>2. orphan' \in [Host -> BOOLEAN]
    BY <1>7, Zenon DEF Inv, TypeOK
  <2> QED BY <2>1, <2>2 DEF InsertSynth, Inv, TypeOK
<1>9. SynthInv'
  <2> SUFFICES ASSUME NEW h \in Host, synth'[h].id # 0
               PROVE  orphan'[h] \/ \E q \in Actor : HostOf(q) = h /\ InTest(q)' /\ job'[q].id = synth'[h].id
    BY DEF SynthInv
  <2>1. CASE h = HostOf(p)
    <3>1. synth'[h].id = job[p].id
      BY <1>1, <1>7, <2>1 DEF Inv, TypeOK
    <3> QED BY <1>3, <1>5, <1>6, <2>1, <3>1 DEF InTest
  <2>2. CASE h # HostOf(p)
    <3>1. synth'[h] = synth[h] /\ orphan'[h] = orphan[h]
      BY <1>7, <2>2 DEF Inv, TypeOK
    <3>2. orphan[h] \/ \E q \in Actor : HostOf(q) = h /\ InTest(q) /\ job[q].id = synth[h].id
      BY <3>1 DEF Inv, SynthInv
    <3> QED BY <1>6, <2>2, <3>1, <3>2 DEF InTest
  <2> QED BY <2>1, <2>2
<1> QED BY <1>1, <1>4, <1>5, <1>8, <1>9, RowStep DEF InsertSynth, Carries

LEMMA SoftStep == ASSUME Inv, NEW p \in Actor, SoftDelete(p) PROVE Inv'
<1> DEFINE j == [job[p] EXCEPT !.pc = "find"]
<1>1. job[p].pc \in Step /\ job[p].pc # "activate" /\ HostOf(p) \in Host
  BY DEF SoftDelete, Step, Actor, HostOf
<1>2. job[p] \in Busy
  BY <1>1, JobIsBusy DEF Inv
<1>3. j \in Busy /\ j.id = job[p].id /\ j.pc = "find" /\ j.phase = job[p].phase
  BY <1>2 DEF Busy, Step
<1>4. Becomes(p, j)
  BY DEF SoftDelete
<1> HIDE DEF j
<1>5. Carries(p, j)
  BY <1>1, <1>3, GoesOn DEF Inv
<1>6. job'[p] = j /\ \A q \in Actor : q # p => job'[q] = job[q]
  BY <1>4 DEF Becomes, Inv, TypeOK
<1>7. /\ synth' \in [Host -> [id : Nat, live : BOOLEAN]]
      /\ \A h \in Host : synth'[h].id = synth[h].id
      /\ orphan' = orphan /\ used' = used
  BY <1>1 DEF SoftDelete, Inv, TypeOK
<1>8. SynthInv'
  BY <1>5, <1>6, <1>7 DEF Inv, SynthInv, InTest, Carries
<1>9. orphan' \in [Host -> BOOLEAN] /\ used' \in 0..MaxEvents
  BY <1>7 DEF Inv, TypeOK
<1> QED BY <1>1, <1>4, <1>5, <1>7, <1>8, <1>9, RowStep DEF SoftDelete, Carries

LEMMA RaisesStep == ASSUME Inv, NEW p \in Actor, TestRaises(p) PROVE Inv'
<1> DEFINE j == [job[p] EXCEPT !.pc = "purge"]
<1>1. job[p].pc \in Step /\ job[p].pc # "activate"
  BY DEF TestRaises, Step
<1>2. job[p] \in Busy
  BY <1>1, JobIsBusy DEF Inv
<1>3. j \in Busy /\ j.id = job[p].id /\ j.pc = "purge" /\ j.phase = job[p].phase
  BY <1>2 DEF Busy, Step
<1>4. Becomes(p, j)
  BY DEF TestRaises
<1> HIDE DEF j
<1>5. Carries(p, j)
  BY <1>1, <1>3, GoesOn DEF Inv
<1>6. used' \in 0..MaxEvents /\ tokens' \in 0..1
  BY RiskType DEF TestRaises, Inv, TypeOK, target
<1> QED BY <1>1, <1>4, <1>5, <1>6, Carried DEF TestRaises, target

LEMMA PurgeStep == ASSUME Inv, NEW p \in Actor, NEW ok \in BOOLEAN, Purge(p, ok) PROVE Inv'
<1> DEFINE h == HostOf(p)
<1>1. job[p].pc # "activate" /\ h \in Host /\ Becomes(p, Idle) /\ Idle \in Job /\ Tidy(Idle)
  BY JobIsBusy DEF Purge, Actor, HostOf, Tidy, Inv
<1>2. \A q \in Actor : q # p => job'[q] = job[q]
  BY <1>1 DEF Becomes, Inv, TypeOK
<1>3. used' \in 0..MaxEvents
  BY RiskType DEF Purge, Inv
<1>4. CASE ok /\ synth[h].id = job[p].id
  <2>1. synth' = [synth EXCEPT ![h] = NoSynth] /\ orphan' = [orphan EXCEPT ![h] = FALSE]
    BY <1>4 DEF Purge
  <2>2. synth' \in [Host -> [id : Nat, live : BOOLEAN]] /\ synth'[h].id = 0
    BY <1>1, <2>1 DEF NoSynth, Inv, TypeOK
  <2>3. orphan' \in [Host -> BOOLEAN]
    BY <2>1, Zenon DEF Inv, TypeOK
  <2>4. \A g \in Host : g # h => synth'[g] = synth[g] /\ orphan'[g] = orphan[g]
    BY <2>1 DEF Inv, TypeOK
  <2>5. SynthInv'
    BY <1>2, <2>2, <2>4 DEF Inv, SynthInv, InTest
  <2> QED BY <1>1, <1>3, <2>2, <2>3, <2>5, RowStep DEF Purge
<1>5. CASE ~(ok /\ synth[h].id = job[p].id)
  <2>1. /\ synth' = synth
        /\ orphan' = [orphan EXCEPT ![h] = orphan[h] \/ synth[h].id = job[p].id]
    BY <1>5 DEF Purge
  <2>2. orphan \in [Host -> BOOLEAN] /\ (synth[h].id = job[p].id) \in BOOLEAN
    BY DEF Inv, TypeOK
  <2>3. orphan' \in [Host -> BOOLEAN]
    BY <2>1, <2>2, Zenon
  <2>4. /\ synth[h].id = job[p].id => orphan'[h]
        /\ \A g \in Host : orphan[g] => orphan'[g]
    BY <1>1, <2>1, <2>2
  <2>5. SynthInv'
    BY <1>2, <2>1, <2>4 DEF Inv, SynthInv, InTest
  <2>6. synth' \in [Host -> [id : Nat, live : BOOLEAN]]
    BY <2>1 DEF Inv, TypeOK
  <2> QED BY <1>1, <1>3, <2>3, <2>5, <2>6, RowStep DEF Purge
<1> QED BY <1>4, <1>5

-----------------------------------------------------------------------------
\* Bans, roles and copies.
LEMMA DbStep ==
    ASSUME Inv, NEW h \in Host,
           \/ \E x \in Addr : BanChanges(h, x)
           \/ \E r \in {"primary", "standby"} : SetRole(h, r)
           \/ \E to \in Host : CopyDb(h, to)
    PROVE  Inv'
<1>1. used' \in 0..MaxEvents
  BY RiskType DEF BanChanges, SetRole, CopyDb, Inv
<1>2. UNCHANGED <<conf, poller, quiet, target, job>>
  BY DEF BanChanges, SetRole, CopyDb, roles
<1>3. JobsTidy' /\ StagedExplained'
  BY <1>2 DEF Inv, JobsTidy, StagedExplained, target
<1>4. CASE \E x \in Addr : BanChanges(h, x)
  <2>1. rows' \in [Host -> SUBSET Addr] /\ UNCHANGED <<synth, roleDb, told, copied, orphan>>
    BY <1>4 DEF BanChanges, Inv, TypeOK, roles
  <2>2. TypeOK'
    BY <1>1, <1>2, <2>1 DEF Inv, TypeOK, conf, target
  <2>3. SynthInv'
    BY <1>2, <2>1 DEF Inv, SynthInv, InTest
  <2>4. RoleInv' /\ StandbyQuietAlone'
    BY <1>2, <2>1 DEF Inv, RoleInv, StandbyQuietAlone
  <2> QED BY <1>3, <2>2, <2>3, <2>4 DEF Inv
<1>5. ASSUME NEW r \in {"primary", "standby"}, SetRole(h, r)
      PROVE  Inv'
  <2>1. /\ roleDb' = [roleDb EXCEPT ![h] = r] /\ told' = [told EXCEPT ![h] = r]
        /\ UNCHANGED <<rows, synth, copied, orphan>>
    BY <1>5 DEF SetRole
  <2>2. TypeOK'
    BY <1>1, <1>2, <2>1 DEF Inv, TypeOK, conf, target
  <2>3. SynthInv'
    BY <1>2, <2>1 DEF Inv, SynthInv, InTest
  <2>4. RoleInv'
    <3> SUFFICES ASSUME ~copied, NEW g \in Host PROVE told'[g] = Role(roleDb'[g], g)
      BY <2>1 DEF RoleInv
    <3>1. told[g] = Role(roleDb[g], g)
      BY DEF Inv, RoleInv
    <3> QED BY <2>1, <3>1 DEF Role, Inv, TypeOK
  <2>5. StandbyQuietAlone'
    BY <1>2, <2>1 DEF Inv, StandbyQuietAlone
  <2> QED BY <1>3, <2>2, <2>3, <2>4, <2>5 DEF Inv
<1>6. ASSUME NEW to \in Host, CopyDb(h, to)
      PROVE  Inv'
  <2>1. /\ rows' = [rows EXCEPT ![to] = rows[h]] /\ synth' = [synth EXCEPT ![to] = synth[h]]
        /\ roleDb' = [roleDb EXCEPT ![to] = roleDb[h]]
        /\ orphan' = [orphan EXCEPT ![to] = synth[h].id # 0]
    BY <1>6 DEF CopyDb
  <2>2. copied' /\ copied' = TRUE /\ told' = told
    BY <1>6 DEF CopyDb, roles
  <2>3. orphan' \in [Host -> BOOLEAN] /\ copied' \in BOOLEAN
    <3>1. orphan \in [Host -> BOOLEAN] /\ (synth[h].id # 0) \in BOOLEAN
      BY DEF Inv, TypeOK
    <3> QED BY <2>1, <2>2, <3>1, Zenon
  <2>4. TypeOK'
    BY <1>1, <1>2, <2>1, <2>2, <2>3 DEF Inv, TypeOK, conf, target
  <2>5. SynthInv'
    <3> SUFFICES ASSUME NEW g \in Host, synth'[g].id # 0
                 PROVE  orphan'[g] \/ \E q \in Actor : HostOf(q) = g /\ InTest(q)' /\ job'[q].id = synth'[g].id
      BY DEF SynthInv
    <3>1. CASE g = to
      <4>1. synth'[g] = synth[h] /\ orphan'[g] = (synth[h].id # 0)
        BY <2>1, <3>1 DEF Inv, TypeOK
      <4> QED BY <4>1
    <3>2. CASE g # to
      <4>1. synth'[g] = synth[g] /\ orphan'[g] = orphan[g]
        BY <2>1, <3>2 DEF Inv, TypeOK
      <4> QED BY <1>2, <4>1 DEF Inv, SynthInv, InTest
    <3> QED BY <3>1, <3>2
  <2>6. RoleInv' /\ StandbyQuietAlone'
    BY <2>2 DEF RoleInv, StandbyQuietAlone
  <2> QED BY <1>3, <2>4, <2>5, <2>6 DEF Inv
<1> QED BY <1>4, <1>5, <1>6

\* A process that ends leaves its row behind, and its writes unloaded.
LEMMA LostStep ==
    ASSUME Inv, NEW h \in Host, NEW actors \in SUBSET Actor, Lost(h, actors),
           UNCHANGED <<conf, dbs, told, alias, active, tokens, copied>>, used' \in 0..MaxEvents,
           poller' \in [Host -> {"owner", "none", "respawn", "down"}], quiet' \in [Host -> BOOLEAN],
           \A p \in actors : HostOf(p) = h,
           StandbyQuietAlone'
    PROVE  Inv'
<1>1. job' = [p \in Actor |-> IF p \in actors THEN Idle ELSE job[p]]
  BY DEF Lost
<1>2. job' \in [Actor -> Job]
  BY <1>1, JobIsBusy DEF Inv, TypeOK
<1>3. unapplied' \in BOOLEAN /\ orphan' \in [Host -> BOOLEAN]
  <2>1. orphan \in [Host -> BOOLEAN] /\ unapplied \in BOOLEAN
    BY DEF Inv, TypeOK
  <2>2. unapplied' = (unapplied \/ \E p \in actors : job[p].pc = "activate")
    BY DEF Lost
  <2>3. orphan' = [orphan EXCEPT ![h] = orphan[h] \/ \E p \in actors : /\ job[p] # Idle /\ job[p].id # 0
                                                                      /\ job[p].id = synth[h].id]
    BY DEF Lost
  <2> QED BY <2>1, <2>2, <2>3, Zenon
<1>4. TypeOK'
  BY <1>2, <1>3 DEF Inv, TypeOK, conf, dbs
<1>5. JobsTidy'
  BY <1>1 DEF Inv, JobsTidy, Tidy
<1>6. StagedExplained'
  <2>1. unapplied' = (unapplied \/ \E p \in actors : job[p].pc = "activate")
    BY DEF Lost
  <2> QED BY <1>1, <2>1 DEF Inv, StagedExplained
<1>7. SynthInv'
  <2> SUFFICES ASSUME NEW g \in Host, synth[g].id # 0
               PROVE  orphan'[g] \/ \E q \in Actor : HostOf(q) = g /\ InTest(q)' /\ job'[q].id = synth[g].id
    BY DEF SynthInv, dbs
  <2>1. orphan[g] \/ \E q \in Actor : HostOf(q) = g /\ InTest(q) /\ job[q].id = synth[g].id
    BY DEF Inv, SynthInv
  <2>2. orphan' = [orphan EXCEPT ![h] = orphan[h] \/ \E p \in actors : /\ job[p] # Idle /\ job[p].id # 0
                                                                      /\ job[p].id = synth[h].id]
    BY DEF Lost
  <2>3. orphan[g] => orphan'[g]
    BY <2>2 DEF Inv, TypeOK
  <2>4. ASSUME NEW q \in Actor, HostOf(q) = g, InTest(q), job[q].id = synth[g].id
        PROVE  orphan'[g] \/ (InTest(q)' /\ job'[q].id = synth[g].id)
    <3>1. CASE q \in actors
      <4>1. g = h
        BY <2>4, <3>1
      <4> QED BY <2>2, <2>4, <3>1, <4>1 DEF InTest, Inv, TypeOK
    <3>2. CASE q \notin actors
      BY <1>1, <2>4, <3>2 DEF InTest
    <3> QED BY <3>1, <3>2
  <2> QED BY <2>1, <2>3, <2>4
<1>8. RoleInv'
  BY DEF Inv, RoleInv, dbs
<1> QED BY <1>4, <1>5, <1>6, <1>7, <1>8 DEF Inv

\* A process started under a role reads the one it was told.
LEMMA StartedQuiet ==
    ASSUME Inv, NEW h \in Host, poller' = [poller EXCEPT ![h] = Started(h)],
           quiet' = [quiet EXCEPT ![h] = told[h] = "standby"], copied' = copied
    PROVE  /\ poller' \in [Host -> {"owner", "none", "respawn", "down"}]
           /\ quiet' \in [Host -> BOOLEAN] /\ StandbyQuietAlone'
<1>1. poller' \in [Host -> {"owner", "none", "respawn", "down"}]
  BY DEF Inv, TypeOK, Started
<1>2. quiet' \in [Host -> BOOLEAN]
  <2>1. quiet \in [Host -> BOOLEAN] /\ (told[h] = "standby") \in BOOLEAN
    BY DEF Inv, TypeOK
  <2> QED BY <2>1, Zenon
<1>3. ASSUME ~copied, NEW g \in Host, poller'[g] = "owner"
      PROVE  ~quiet'[g]
  <2>1. CASE g = h
    <3>1. poller'[g] = Started(h) /\ quiet'[g] = (told[h] = "standby")
      BY <2>1 DEF Inv, TypeOK
    <3>2. told[h] = Role(roleDb[h], h)
      BY <1>3 DEF Inv, RoleInv
    <3>3. told[h] # "standby"
      BY <1>3, <3>1, <3>2 DEF Started
    <3> QED BY <3>1, <3>3, Zenon
  <2>2. CASE g # h
    <3>1. poller'[g] = poller[g] /\ quiet'[g] = quiet[g]
      BY <2>2 DEF Inv, TypeOK
    <3> QED BY <1>3, <3>1 DEF Inv, StandbyQuietAlone
  <2> QED BY <2>1, <2>2
<1> QED BY <1>1, <1>2, <1>3 DEF StandbyQuietAlone

LEMMA ProcessStep ==
    ASSUME Inv, NEW h \in Host, Stop(h) \/ Restart(h) \/ WorkerDies(h) \/ Respawn(h)
    PROVE  Inv'
<1>1. used' \in 0..MaxEvents
  BY RiskType DEF Stop, Restart, WorkerDies, Respawn, Inv, TypeOK
<1>2. CASE Stop(h) \/ WorkerDies(h)
  <2>1. PICK st \in {"down", "respawn"}, actors \in SUBSET Actor :
           poller' = [poller EXCEPT ![h] = st] /\ Lost(h, actors) /\ \A p \in actors : HostOf(p) = h
    <3>1. <<h, "poller">> \in Actor /\ HostOf(<<h, "poller">>) = h
      BY DEF Actor, HostOf
    <3> QED BY <1>2, <3>1 DEF Stop, WorkerDies
  <2>2. UNCHANGED <<conf, dbs, told, quiet, alias, active, tokens, copied>>
    BY <1>2 DEF Stop, WorkerDies
  <2>3. poller' \in [Host -> {"owner", "none", "respawn", "down"}] /\ quiet' \in [Host -> BOOLEAN]
    BY <2>1, <2>2 DEF Inv, TypeOK
  <2>4. StandbyQuietAlone'
    BY <2>1, <2>2 DEF Inv, StandbyQuietAlone, TypeOK
  <2> QED BY <1>1, <2>1, <2>2, <2>3, <2>4, LostStep
<1>3. CASE Restart(h)
  <2>1. /\ poller' \in [Host -> {"owner", "none", "respawn", "down"}]
        /\ quiet' \in [Host -> BOOLEAN] /\ StandbyQuietAlone'
    BY <1>3, StartedQuiet DEF Restart
  <2> DEFINE actors == {p \in Actor : HostOf(p) = h}
  <2>2. Lost(h, actors) /\ actors \in SUBSET Actor /\ \A p \in actors : HostOf(p) = h
    BY <1>3 DEF Restart
  <2>3. UNCHANGED <<conf, dbs, told, alias, active, tokens, copied>>
    BY <1>3 DEF Restart
  <2> HIDE DEF actors
  <2> QED BY <1>1, <2>1, <2>2, <2>3, LostStep
<1>4. CASE Respawn(h)
  <2>1. /\ poller' \in [Host -> {"owner", "none", "respawn", "down"}]
        /\ quiet' \in [Host -> BOOLEAN] /\ StandbyQuietAlone'
    BY <1>4, StartedQuiet DEF Respawn
  <2>2. UNCHANGED <<conf, dbs, told, target, job, copied, orphan, used>>
    BY <1>4 DEF Respawn
  <2>3. TypeOK'
    BY <2>1, <2>2 DEF Inv, TypeOK, conf, dbs, target
  <2>4. JobsTidy' /\ StagedExplained' /\ SynthInv' /\ RoleInv'
    BY <2>2 DEF Inv, JobsTidy, StagedExplained, SynthInv, InTest, RoleInv, dbs, target
  <2> QED BY <2>1, <2>3, <2>4 DEF Inv
<1> QED BY <1>2, <1>3, <1>4

LEMMA InvStep == Inv /\ [Next]_vars => Inv'
<1> SUFFICES ASSUME Inv, [Next]_vars PROVE Inv'
  OBVIOUS
<1>1. CASE Refill \/ UNCHANGED vars
  <2>1. /\ UNCHANGED <<conf, dbs, roles, alias, active, unapplied, job, copied, orphan, used>>
        /\ tokens' \in 0..1
    BY <1>1 DEF Refill, vars, conf, dbs, roles, Inv, TypeOK
  <2>2. TypeOK'
    BY <2>1 DEF Inv, TypeOK, conf, dbs, roles
  <2>3. JobsTidy' /\ StagedExplained' /\ SynthInv'
    BY <2>1 DEF Inv, JobsTidy, StagedExplained, SynthInv, InTest, dbs
  <2>4. RoleInv' /\ StandbyQuietAlone'
    BY <2>1 DEF Inv, RoleInv, StandbyQuietAlone, dbs, roles
  <2> QED BY <2>2, <2>3, <2>4 DEF Inv
<1>2. CASE \E p \in Actor : StartRun(p) \/ StartTest(p) \/ Go(p)
  <2>1. PICK p \in Actor : StartRun(p) \/ StartTest(p) \/ Go(p)
    BY <1>2
  <2>2. CASE Go(p)
    BY <2>2, ReadStep, ActivateStep, PatchStep, PushStep, ChunkStep, InsertStep, SoftStep, RaisesStep, PurgeStep DEF Go
  <2> QED BY <2>1, <2>2, StartStep
<1>3. CASE \E h \in Host : \/ \E x \in Addr : BanChanges(h, x)
                           \/ \E r \in {"primary", "standby"} : SetRole(h, r)
                           \/ \E to \in Host : CopyDb(h, to)
                           \/ Stop(h) \/ Restart(h) \/ WorkerDies(h) \/ Respawn(h)
  BY <1>3, DbStep, ProcessStep
<1> QED BY <1>1, <1>2, <1>3 DEF Next

-----------------------------------------------------------------------------
\* However many hosts and threads write to one target and test it at once,
\* and wherever a process ends: what pfSense stores it also loads or a call
\* is known to have failed, and a test leaves its row behind only if it was
\* cut short or its own purge failed, or if the row came with a copied
\* database (pfsense_adapter.apply, run_test).
THEOREM TargetStaysSound == Spec => []TargetSound
<1>1. SynthInv => SynthPurged
  BY DEF SynthInv, SynthPurged
<1>2. Inv => TargetSound
  BY <1>1 DEF Inv, TargetSound
<1> QED BY <1>2, InvInit, InvStep, PTL DEF Spec

\* For any number of hosts, promotions, demotions and restarts: unless a
\* database is copied, a host that started as a standby does not poll
\* (ha.get_role and the start of app.py).
THEOREM StandbyStaysQuiet == Spec => []StandbyQuietAlone
<1>1. Inv => StandbyQuietAlone
  BY DEF Inv
<1> QED BY <1>1, InvInit, InvStep, PTL DEF Spec
=============================================================================
