---------------------------- MODULE UpkeepProofs ----------------------------
(***************************************************************************)
(* Proofs about what keeps the installation going: Watch, for any number   *)
(* of events, faults and error lines, and Backup, for any number of        *)
(* bundles, kept ones, events and faults.                                  *)
(***************************************************************************)
EXTENDS Watch, Backup, TLAPS, FiniteSetTheorems, WellFoundedInduction

-----------------------------------------------------------------------------
(* Types *)

Place == [at : Step, used : Band, key : Key \cup {"none"}, on : BOOLEAN, then : Step,
          from : 0..(MaxEvents + 1), got : SUBSET Line]

\* Where nothing is under way but the cycle itself.
Quiet   == Step \ {"remember", "scanned"}
Calm(p) == p \in Place /\ p.at \in Quiet /\ p.then \in Quiet /\ p.key = "none"

LEMMA AtCalm == \A step \in Quiet : Calm(At(step))
<1> SUFFICES ASSUME NEW step \in Quiet PROVE Calm(At(step))
  OBVIOUS
<1>1. At(step) \in Place
  BY WatchAssumption DEF At, Place, Step, Band, Quiet
<1>2. At(step).at = step /\ At(step).then = "wal" /\ At(step).key = "none"
  BY DEF At
<1> QED BY <1>1, <1>2 DEF Calm, Quiet, Step

LEMMA UsedCalm ==
    ASSUME NEW p, Calm(p), NEW u \in Band
    PROVE  Calm([p EXCEPT !.used = u])
  BY DEF Calm, Place

LEMMA SpendType ==
    ASSUME TypeOK, NEW k \in {"event", "fault"}, Spend(k)
    PROVE  spent' \in [{"event", "fault"} -> Nat]
  BY DEF TypeOK, Spend

\* A statement that raised, a command that failed.
LEMMA Costs ==
    ASSUME NEW ok, Saves(ok) \/ Tries(ok)
    PROVE  UNCHANGED spent \/ Spend("event") \/ Spend("fault")
  BY DEF Saves, Tries

\* What a message leaves behind.
ToNote(k, on, then) == [At("remember") EXCEPT !.used = poller.used, !.key = k, !.on = on, !.then = then]

LEMMA NotedType ==
    ASSUME TypeOK, NEW k \in Key, NEW on \in BOOLEAN, NEW then \in Step
    PROVE  LET p == ToNote(k, on, then)
           IN  p \in Place /\ p.at = "remember" /\ p.key = k /\ p.on = on /\ p.then = then
<1>1. poller.used \in Band /\ "remember" \in Step
  BY DEF TypeOK, Step
<1> DEFINE p0 == At("remember")
<1>2. p0 \in Place /\ p0.at = "remember"
  BY <1>1, WatchAssumption DEF At, Place, Band, Step
<1>3. ToNote(k, on, then) = [p0 EXCEPT !.used = poller.used, !.key = k, !.on = on, !.then = then]
  BY DEF ToNote
<1> HIDE DEF p0
<1> QED BY <1>1, <1>2, <1>3 DEF Place

LEMMA TellType ==
    ASSUME TypeOK, NEW k \in Key, NEW on \in BOOLEAN, NEW then \in Step, Tell(k, on, then)
    PROVE  /\ poller' \in Place /\ poller' = ToNote(k, on, then)
           /\ flags' \subseteq Key /\ said' \subseteq Key /\ twice' \subseteq Key /\ lost' \subseteq Key
<1>1. poller' = ToNote(k, on, then)
  BY DEF Tell, ToNote
<1>2. poller' \in Place
  BY <1>1, NotedType
<1> QED BY <1>1, <1>2 DEF Tell, TypeOK

LEMMA TypeInit == Init => TypeOK
<1> SUFFICES ASSUME Init PROVE TypeOK
  OBVIOUS
<1>1. poller \in Place
  BY AtCalm DEF Init, Step, Quiet, Calm
<1>2. second \in 0..MaxEvents /\ cursor \in 0..(MaxEvents + 1) /\ level \in Band /\ wal \in 0..2
      /\ since \in 0..MaxEvents
  BY WatchAssumption DEF Init, Band
<1>3. up \in BOOLEAN /\ stopping \in BOOLEAN /\ shown \in BOOLEAN /\ held \in BOOLEAN /\ stage \in BOOLEAN /\ breach \in BOOLEAN
  BY Zenon DEF Init
<1>4. conf \subseteq Conf /\ flags \subseteq Key /\ said \subseteq Key
  BY DEF Init, Conf, Key
<1>5. rate \in [Category -> {"none", "recent", "old"}] /\ spent \in [{"event", "fault"} -> Nat]
  BY DEF Init
<1> QED BY <1>1, <1>2, <1>3, <1>4, <1>5 DEF Init, TypeOK, Place, Dest

\* The type invariant by what is written together.
ToldType == flags \subseteq Key /\ said \subseteq Key /\ twice \subseteq Key /\ lost \subseteq Key
HostType ==
    /\ stopping \in BOOLEAN
    /\ level \in Band /\ shown \in BOOLEAN /\ wal \in 0..2 /\ held \in BOOLEAN /\ stage \in BOOLEAN
ReplType ==
    /\ dest \in Dest
    /\ rate \in [Category -> {"none", "recent", "old"}] /\ heard \subseteq {"warn", "critical", "unwritable"}
    /\ journal \subseteq Line /\ second \in 0..MaxEvents /\ cursor \in 0..(MaxEvents + 1)
    /\ seen \subseteq Line /\ since \in 0..MaxEvents
MiscType ==
    /\ conf \subseteq Conf /\ breach \in BOOLEAN /\ clock \in {"none", "new", "old"}
    /\ drill \in {"none", "fresh", "old"} /\ focus \in Foci

LEMMA TypeParts ==
    TypeOK <=> /\ up \in BOOLEAN /\ poller \in Place /\ ToldType /\ HostType /\ ReplType /\ MiscType
               /\ spent \in [{"event", "fault"} -> Nat]
  BY DEF TypeOK, Place, ToldType, HostType, ReplType, MiscType

LEMMA TypeNext ==
    ASSUME up' \in BOOLEAN, poller' \in Place, ToldType', HostType', ReplType', MiscType',
           spent' \in [{"event", "fault"} -> Nat]
    PROVE  TypeOK'
  BY DEF TypeOK, Place, ToldType, HostType, ReplType, MiscType

LEMMA SameParts ==
    ASSUME TypeOK
    PROVE  /\ UNCHANGED told => ToldType'
           /\ UNCHANGED host => HostType'
           /\ UNCHANGED repl => ReplType'
           /\ UNCHANGED misc => MiscType'
  BY TypeParts DEF told, host, repl, scan, misc, ToldType, HostType, ReplType, MiscType

-----------------------------------------------------------------------------
(* The inductive invariant *)

\* Counters within their bounds.
CountInv ==
    /\ second <= spent["event"] /\ spent["event"] <= MaxEvents
    /\ IsFiniteSet(journal)

\* The settings say what was told, unless a write was lost or is to come.
KeyInv ==
    /\ poller.at # "remember" <=> poller.key = "none"
    /\ poller.then \in Quiet
    /\ \A k \in Key \ {"nodrill"} : k \notin lost =>
          IF poller.key = k THEN (k \in said <=> poller.on) /\ (k \in flags <=> ~poller.on)
                            ELSE (k \in said <=> k \in flags)

\* The cursor is a second past a line that was gone through.  What a scan
\* has not read lies before it began (at the cursor, if there is one), or is
\* no older than anything it has read.
ScanInv ==
    /\ \A l \in journal : l.sec <= second
    /\ seen \subseteq journal /\ (cursor = 0 \/ \E m \in seen : cursor = m.sec + 1)
    /\ poller.at = "scanned" =>
          /\ poller.got \subseteq journal /\ (cursor # 0 => poller.from = cursor) /\ poller.from \in 0..(MaxEvents + 1)
          /\ cursor = 0 => poller.from <= second
          /\ \A l \in journal \ poller.got : l.sec < poller.from \/ \A m \in poller.got : m.sec <= l.sec

Inv == TypeOK /\ CountInv /\ KeyInv /\ OnceEach /\ ScanInv /\ PassedOver

LEMMA InvInit == Init => Inv
<1> SUFFICES ASSUME Init PROVE Inv
  OBVIOUS
<1>1. TypeOK
  BY TypeInit
<1>2. CountInv
  BY WatchAssumption, FS_EmptySet DEF Init, CountInv
<1>3. Calm(poller)
  BY AtCalm DEF Init, Step, Quiet
<1>4. KeyInv
  BY <1>3 DEF Init, KeyInv, Key, Calm, Quiet
<1>5. OnceEach /\ ScanInv /\ PassedOver
  BY <1>3 DEF Init, OnceEach, ScanInv, PassedOver, Calm, Quiet
<1> QED BY <1>1, <1>2, <1>4, <1>5 DEF Inv

\* Something happens, or goes wrong.
LEMMA CountRest ==
    ASSUME Inv, UNCHANGED <<journal, second>>,
           UNCHANGED spent \/ Spend("event") \/ Spend("fault")
    PROVE  CountInv' /\ spent' \in [{"event", "fault"} -> Nat]
<1>1. spent' \in [{"event", "fault"} -> Nat]
  BY SpendType DEF Inv, TypeOK
<1>2. spent'["event"] = spent["event"] \/ (spent'["event"] = spent["event"] + 1 /\ spent["event"] < MaxEvents)
  BY DEF Spend, Limit, Inv, TypeOK
<1>3. spent["event"] \in Nat /\ MaxEvents \in Nat /\ second \in Nat
  BY WatchAssumption DEF Inv, TypeOK
<1> QED BY <1>1, <1>2, <1>3 DEF Inv, CountInv

\* Nothing is told, and no message is being noted.
LEMMA KeyRest ==
    ASSUME Inv, UNCHANGED told,
           \/ poller' = poller
           \/ poller.key = "none" /\ poller'.key = "none" /\ poller'.at # "remember" /\ poller'.then \in Quiet
    PROVE  KeyInv' /\ OnceEach'
<1>1. OnceEach'
  BY DEF Inv, OnceEach, told
<1>2. CASE poller' = poller
  BY <1>1, <1>2 DEF Inv, KeyInv, told
<1>3. CASE poller.key = "none" /\ poller'.key = "none" /\ poller'.at # "remember" /\ poller'.then \in Quiet
  <2>1. \A k \in Key : k # "none"
    BY DEF Key
  <2> QED BY <1>1, <1>3, <2>1 DEF Inv, KeyInv, told
<1> QED BY <1>2, <1>3

\* The journal rests.
LEMMA ScanRest ==
    ASSUME Inv, UNCHANGED <<journal, second, scan>>, poller' = poller \/ poller'.at # "scanned"
    PROVE  ScanInv' /\ PassedOver'
  BY DEF Inv, ScanInv, PassedOver, scan

\* A message: what it says was not said, as far as the settings can be trusted.
LEMMA TellKeys ==
    ASSUME Inv, NEW k \in Key, NEW on \in BOOLEAN, NEW then \in Quiet, Tell(k, on, then),
           poller.at # "remember", k # "nodrill" => (k \in flags <=> ~on)
    PROVE  KeyInv' /\ OnceEach' /\ poller'.at = "remember"
<1>1. poller'.at = "remember" /\ poller'.key = k /\ poller'.on = on /\ poller'.then = then
  BY TellType, NotedType DEF Inv, Quiet
<1>2. /\ said' = (IF on THEN said \cup {k} ELSE said \ {k})
      /\ twice' = (IF (k \in said) = on THEN twice \cup {k} ELSE twice)
      /\ flags' = flags /\ lost' = lost
  BY DEF Tell
<1>3. poller.key = "none" /\ k # "none"
  BY DEF Inv, KeyInv, Key
<1>4. \A x \in Key \ {"nodrill"} : x \notin lost => (x \in said <=> x \in flags)
  <2>1. \A x \in Key : x # poller.key
    BY <1>3 DEF Key
  <2> QED BY <2>1 DEF Inv, KeyInv
<1>5. KeyInv'
  BY <1>1, <1>2, <1>3, <1>4 DEF KeyInv
<1>6. OnceEach'
  BY <1>2, <1>4 DEF Inv, OnceEach
<1> QED BY <1>1, <1>5, <1>6

LEMMA TellStep ==
    ASSUME Inv, NEW k \in Key, NEW on \in BOOLEAN, NEW then \in Quiet, Tell(k, on, then),
           poller.at # "remember", k # "nodrill" => (k \in flags <=> ~on),
           UNCHANGED spent \/ Spend("event") \/ Spend("fault"),
           HostType', MiscType', UNCHANGED <<up, repl>>
    PROVE  Inv'
<1>1. KeyInv' /\ OnceEach' /\ poller'.at = "remember"
  BY TellKeys
<1>2. poller' \in Place /\ ToldType'
  BY TellType DEF Inv, ToldType, Quiet
<1>3. ReplType'
  BY SameParts DEF Inv
<1>4. TypeOK'
  <2>1. up' \in BOOLEAN /\ spent' \in [{"event", "fault"} -> Nat]
    BY CountRest DEF Inv, TypeOK, repl
  <2> QED BY <1>2, <1>3, <2>1, TypeNext
<1>5. CountInv' /\ ScanInv' /\ PassedOver'
  BY <1>1, CountRest, ScanRest DEF repl
<1> QED BY <1>1, <1>4, <1>5 DEF Inv

\* A step of the cycle that tells nothing.
LEMMA MoveStep ==
    ASSUME Inv, Calm(poller'), poller.at # "remember", UNCHANGED <<told, repl>>,
           UNCHANGED spent \/ Spend("event") \/ Spend("fault"),
           up' \in BOOLEAN, HostType', MiscType'
    PROVE  Inv'
<1>1. poller.key = "none"
  BY DEF Inv, KeyInv
<1>2. KeyInv' /\ OnceEach'
  BY <1>1, KeyRest DEF Calm, Quiet
<1>3. CountInv' /\ spent' \in [{"event", "fault"} -> Nat]
  BY CountRest DEF repl
<1>4. ScanInv' /\ PassedOver'
  BY ScanRest DEF repl, Calm, Quiet
<1>5. TypeOK'
  BY <1>3, SameParts, TypeNext DEF Inv, Calm
<1> QED BY <1>2, <1>3, <1>4, <1>5 DEF Inv

\* A step outside the poller.
LEMMA HostStep ==
    ASSUME Inv, poller' = poller, UNCHANGED <<told, journal, second, scan>>,
           UNCHANGED spent \/ Spend("event") \/ Spend("fault"),
           up' \in BOOLEAN, HostType', MiscType', ReplType'
    PROVE  Inv'
<1>1. KeyInv' /\ OnceEach' /\ ScanInv' /\ PassedOver'
  BY KeyRest, ScanRest
<1>2. CountInv' /\ spent' \in [{"event", "fault"} -> Nat]
  BY CountRest
<1>3. poller' \in Place /\ ToldType'
  BY TypeParts, SameParts DEF Inv
<1>4. TypeOK'
  BY <1>2, <1>3, TypeNext
<1> QED BY <1>1, <1>2, <1>4 DEF Inv

-----------------------------------------------------------------------------
(* The steps of the cycle *)

LEMMA RememberStep == ASSUME Inv, NEW ok \in BOOLEAN, Remember(ok) PROVE Inv'
<1>1. poller \in Place /\ poller.at = "remember" /\ poller.key \in Key /\ poller.then \in Quiet
  BY TypeParts DEF Inv, Remember, Is, KeyInv, Place
<1> DEFINE u == IF poller.then = "warn" THEN poller.used ELSE 0
<1>2. u \in Band
  BY <1>1 DEF Place, Band
<1>3. poller' = [At(poller.then) EXCEPT !.used = u]
  BY DEF Remember, Noted
<1> HIDE DEF u
<1>4. Calm(poller')
  BY <1>1, <1>2, <1>3, AtCalm, UsedCalm
<1>5. /\ flags' = (IF ~ok THEN flags ELSE IF poller.on THEN flags \cup {poller.key} ELSE flags \ {poller.key})
      /\ lost' = (IF ok THEN lost ELSE lost \cup {poller.key})
      /\ UNCHANGED <<up, said, twice, host, repl, misc>>
      /\ UNCHANGED spent \/ Spend("event") \/ Spend("fault")
  BY Costs DEF Remember
<1>6. TypeOK'
  <2>1. ToldType'
    BY <1>1, <1>5, TypeParts DEF Inv, ToldType
  <2>2. up' \in BOOLEAN /\ spent' \in [{"event", "fault"} -> Nat]
    BY <1>5, CountRest DEF Inv, TypeOK, repl
  <2> QED BY <1>4, <1>5, <2>1, <2>2, SameParts, TypeNext DEF Inv, Calm
<1>7. CountInv' /\ ScanInv' /\ PassedOver'
  BY <1>4, <1>5, CountRest, ScanRest DEF repl, Calm, Quiet
<1>8. OnceEach'
  BY <1>5 DEF Inv, OnceEach
<1>9. KeyInv'
  <2> SUFFICES ASSUME NEW k \in Key \ {"nodrill"}, k \notin lost' PROVE k \in said' <=> k \in flags'
    BY <1>4 DEF KeyInv, Calm, Quiet, Key
  <2>1. k \notin lost
    BY <1>5
  <2>2. CASE poller.key = k
    <3>1. ok
      BY <1>5, <2>2
    <3>2. k \in said <=> poller.on
      BY <2>1, <2>2 DEF Inv, KeyInv
    <3> QED BY <1>5, <2>2, <3>1, <3>2
  <2>3. CASE poller.key # k
    BY <1>5, <2>1, <2>3 DEF Inv, KeyInv
  <2> QED BY <2>2, <2>3
<1> QED BY <1>6, <1>7, <1>8, <1>9 DEF Inv

LEMMA WalStep == ASSUME Inv, NEW ok \in BOOLEAN, WalGuard(ok) PROVE Inv'
<1>1. poller.at = "wal" /\ poller.key = "none" /\ "usage" \in Quiet /\ "stop" \in Quiet
  BY DEF WalGuard, Is, Inv, KeyInv, Quiet, Step
<1>2. /\ UNCHANGED <<up, stopping, level, shown, held, stage, repl, misc>>
      /\ UNCHANGED spent \/ Spend("event") \/ Spend("fault")
  BY Costs DEF WalGuard, WalSmall
<1>3. wal' \in 0..2 /\ HostType' /\ MiscType'
  <2>1. wal' = wal \/ wal' = Checkpointed
    BY DEF WalGuard, WalSmall
  <2>2. wal \in 0..2 /\ Checkpointed \in 0..2
    BY DEF Checkpointed, Inv, TypeOK
  <2> QED BY <1>2, <2>1, <2>2, SameParts, TypeParts DEF Inv, HostType
<1>4. CASE wal = 0
  <2>1. /\ flags' = (IF ok THEN flags \ {"wal"} ELSE flags) /\ said' = said \ {"wal"}
        /\ lost' = (IF ok THEN lost ELSE lost \cup (flags \cap {"wal"})) /\ twice' = twice
        /\ poller' = At("usage")
    BY <1>4 DEF WalGuard, WalSmall, Goes
  <2>2. Calm(poller')
    BY <1>1, <2>1, AtCalm
  <2>3. ToldType'
    BY <2>1, TypeParts DEF Inv, ToldType
  <2>4. TypeOK'
    <3>1. up' \in BOOLEAN /\ spent' \in [{"event", "fault"} -> Nat]
      BY <1>2, CountRest DEF Inv, TypeOK, repl
    <3> QED BY <1>2, <1>3, <2>2, <2>3, <3>1, SameParts, TypeNext DEF Inv, Calm
  <2>5. CountInv' /\ ScanInv' /\ PassedOver'
    BY <1>2, <2>2, CountRest, ScanRest DEF repl, Calm, Quiet
  <2>6. OnceEach'
    BY <2>1 DEF Inv, OnceEach
  <2>7. KeyInv'
    <3> SUFFICES ASSUME NEW k \in Key \ {"nodrill"}, k \notin lost' PROVE k \in said' <=> k \in flags'
      BY <2>2 DEF KeyInv, Calm, Quiet, Key
    <3>1. k \notin lost /\ k # poller.key
      BY <1>1, <2>1 DEF Key
    <3>2. k \in said <=> k \in flags
      BY <3>1 DEF Inv, KeyInv
    <3> QED BY <2>1, <3>2
  <2> QED BY <2>4, <2>5, <2>6, <2>7 DEF Inv
<1>5. CASE wal # 0 /\ Tell("wal", TRUE, "stop") /\ "wal" \notin flags
  <2>1. "wal" \in Key
    BY DEF Key
  <2> QED BY <1>1, <1>2, <1>3, <1>5, <2>1, TellStep
<1>6. CASE wal # 0 /\ (Goes("stop") \/ Goes("usage")) /\ UNCHANGED told
  <2>1. Calm(poller')
    BY <1>1, <1>6, AtCalm DEF Goes
  <2>2. up' \in BOOLEAN
    BY <1>2 DEF Inv, TypeOK
  <2> QED BY <1>1, <1>2, <1>3, <1>6, <2>1, <2>2, MoveStep
<1>7. wal = 0 \/ (Tell("wal", TRUE, "stop") /\ "wal" \notin flags)
      \/ ((Goes("stop") \/ Goes("usage")) /\ UNCHANGED told)
  BY DEF WalGuard, WalSmall
<1> QED BY <1>4, <1>5, <1>6, <1>7

\* The steps that only move on.
LEMMA CycleStep ==
    ASSUME Inv,
           \/ \E ok \in BOOLEAN : AutoStop(ok) \/ Usage(ok)
           \/ (\E saved, on \in BOOLEAN : Body(saved, on)) \/ CycleEnds
    PROVE  Inv'
<1> USE Costs DEF Is, Goes
<1>1. {"wal", "usage", "critical", "jobs"} \subseteq Quiet
  BY DEF Quiet, Step
<1>2. ASSUME NEW ok \in BOOLEAN, AutoStop(ok) PROVE Inv'
  <2>1. /\ poller.at = "stop" /\ poller' = At("usage")
        /\ UNCHANGED <<up, told, level, shown, wal, held, stage, repl, misc>>
        /\ UNCHANGED spent \/ Spend("event") \/ Spend("fault")
        /\ stopping' = stopping \/ stopping' = (stopping \/ ok)
    BY <1>2 DEF AutoStop
  <2>2. stopping' \in BOOLEAN
    BY <2>1, Zenon DEF Inv, TypeOK
  <2>3. HostType' /\ MiscType' /\ up' \in BOOLEAN
    BY <2>1, <2>2, SameParts, TypeParts DEF Inv, HostType
  <2>4. Calm(poller')
    BY <1>1, <2>1, AtCalm
  <2> QED BY <2>1, <2>3, <2>4, MoveStep
<1>3. ASSUME NEW ok \in BOOLEAN, Usage(ok) PROVE Inv'
  <2>1. /\ poller.at = "usage" /\ poller' = [At("critical") EXCEPT !.used = UsageRead(ok)]
        /\ UNCHANGED <<up, told, host, repl, misc>>
        /\ UNCHANGED spent \/ Spend("event") \/ Spend("fault")
    BY <1>3 DEF Usage
  <2>2. UsageRead(ok) \in Band
    BY DEF UsageRead, Inv, TypeOK, Band
  <2>3. Calm(poller')
    BY <1>1, <2>1, <2>2, AtCalm, UsedCalm
  <2>4. HostType' /\ MiscType' /\ up' \in BOOLEAN
    BY <2>1, SameParts, TypeParts DEF Inv
  <2> QED BY <2>1, <2>3, <2>4, MoveStep
<1>4. ASSUME NEW saved \in BOOLEAN, NEW on \in BOOLEAN, Body(saved, on) PROVE Inv'
  <2>1. /\ poller.at = "body" /\ (poller' = At("jobs") \/ poller' = At("wal"))
        /\ shown' = (IF saved THEN level >= Critical ELSE shown)
        /\ UNCHANGED <<up, stopping, told, level, wal, held, stage, repl, misc>>
        /\ UNCHANGED spent \/ Spend("event") \/ Spend("fault")
    BY <1>4 DEF Body
  <2>2. shown \in BOOLEAN /\ (level >= Critical) \in BOOLEAN
    BY DEF Inv, TypeOK
  <2>3. shown' \in BOOLEAN
    BY <2>1, <2>2, Zenon
  <2>4. HostType' /\ MiscType' /\ up' \in BOOLEAN
    BY <2>1, <2>3, SameParts, TypeParts DEF Inv, HostType
  <2>5. Calm(poller')
    BY <1>1, <2>1, AtCalm
  <2> QED BY <2>1, <2>4, <2>5, MoveStep
<1>5. CASE CycleEnds
  <2>1. poller.at = "jobs" /\ poller' = At("wal") /\ UNCHANGED <<up, told, host, repl, misc, spent>>
    BY <1>5 DEF CycleEnds
  <2>2. Calm(poller')
    BY <1>1, <2>1, AtCalm
  <2>3. HostType' /\ MiscType' /\ up' \in BOOLEAN
    BY <2>1, SameParts, TypeParts DEF Inv
  <2> QED BY <2>1, <2>2, <2>3, MoveStep
<1> QED BY <1>2, <1>3, <1>4, <1>5

LEMMA JudgeStep == ASSUME Inv, NEW k \in {"critical", "warn"}, Judge(k) PROVE Inv'
<1>1. /\ poller.at = k /\ k \in Key /\ k # "nodrill" /\ After[k] \in Quiet
      /\ UNCHANGED <<up, host, repl, misc, spent>>
  BY DEF Judge, Is, Key, After, Quiet, Step
<1>2. HostType' /\ MiscType' /\ up' \in BOOLEAN
  BY <1>1, SameParts DEF Inv, TypeOK
<1>3. CASE Tell(k, TRUE, After[k]) /\ k \notin flags
  BY <1>1, <1>2, <1>3, TellStep
<1>4. CASE Tell(k, FALSE, After[k]) /\ k \in flags
  BY <1>1, <1>2, <1>4, TellStep
<1>5. CASE poller' = [poller EXCEPT !.at = After[k]] /\ UNCHANGED told
  <2>1. poller \in Place /\ poller.key = "none" /\ poller.then \in Quiet
    BY <1>1, TypeParts DEF Inv, KeyInv
  <2>2. Calm(poller')
    BY <1>1, <1>5, <2>1 DEF Calm, Place, Quiet
  <2> QED BY <1>1, <1>2, <1>5, <2>2, MoveStep
<1>6. \/ Tell(k, TRUE, After[k]) /\ k \notin flags
      \/ Tell(k, FALSE, After[k]) /\ k \in flags
      \/ poller' = [poller EXCEPT !.at = After[k]] /\ UNCHANGED told
  BY DEF Judge
<1> QED BY <1>3, <1>4, <1>5, <1>6

-----------------------------------------------------------------------------
(* The jobs *)

LEMMA TellJobs == ASSUME Inv, Digest \/ Remind PROVE Inv'
<1>1. /\ poller.at = "jobs" /\ {"digest", "drill", "nodrill"} \subseteq Key /\ "jobs" \in Quiet
      /\ UNCHANGED <<up, host, repl, misc, spent>>
  BY DEF Digest, Remind, Is, Key, Quiet, Step
<1>2. HostType' /\ MiscType'
  BY <1>1, SameParts DEF Inv
<1>3. \/ Tell("digest", TRUE, "jobs") /\ "digest" \notin flags
      \/ Tell("drill", TRUE, "jobs") /\ "drill" \notin flags
      \/ Tell("nodrill", TRUE, "jobs")
  BY DEF Digest, Remind
<1> QED BY <1>1, <1>2, <1>3, TellStep

LEMMA SloStep == ASSUME Inv, NEW ok \in BOOLEAN, CheckSlo(ok) PROVE Inv'
<1>1. /\ poller.at = "jobs" /\ "slo" \in Key /\ "jobs" \in Quiet /\ "slo" # "nodrill"
      /\ UNCHANGED <<up, host, repl, conf, breach, drill, focus>>
  BY DEF CheckSlo, Is, Key, Quiet, Step
<1>2. clock' \in {"none", "new", "old"}
  BY DEF CheckSlo, Inv, TypeOK
<1>3. HostType' /\ MiscType' /\ ReplType' /\ up' \in BOOLEAN
  BY <1>1, <1>2, SameParts, TypeParts DEF Inv, MiscType
<1>4. UNCHANGED spent \/ Spend("event") \/ Spend("fault")
  BY Costs DEF CheckSlo
<1>5. CASE UNCHANGED <<told, poller>>
  BY <1>1, <1>3, <1>4, <1>5, HostStep DEF repl
<1>6. CASE Tell("slo", TRUE, "jobs") /\ "slo" \notin flags
  BY <1>1, <1>3, <1>4, <1>6, TellStep
<1>7. CASE Tell("slo", FALSE, "jobs") /\ "slo" \in flags
  BY <1>1, <1>3, <1>4, <1>7, TellStep
<1>8. CASE /\ said' = said \ {"slo"} /\ lost' = lost \cup {"slo"} /\ UNCHANGED <<flags, poller>>
           /\ twice' = (IF "slo" \in said THEN twice ELSE twice \cup {"slo"})
  <2>1. ToldType' /\ poller' \in Place
    BY <1>1, <1>8, TypeParts DEF Inv, ToldType
  <2>2. CountInv' /\ spent' \in [{"event", "fault"} -> Nat] /\ ScanInv' /\ PassedOver'
    BY <1>1, <1>4, <1>8, CountRest, ScanRest DEF repl
  <2>3. TypeOK'
    BY <1>3, <2>1, <2>2, TypeNext
  <2>4. OnceEach'
    BY <1>8 DEF Inv, OnceEach
  <2>5. KeyInv'
    <3>1. poller.key = "none" /\ poller.then \in Quiet /\ poller.at # "remember"
      BY <1>1 DEF Inv, KeyInv
    <3> SUFFICES ASSUME NEW k \in Key \ {"nodrill"}, k \notin lost' PROVE k \in said' <=> k \in flags'
      BY <1>8, <3>1 DEF KeyInv, Key
    <3>2. k \notin lost /\ k # "slo" /\ k # poller.key
      BY <1>8, <3>1 DEF Key
    <3> QED BY <1>8, <3>2 DEF Inv, KeyInv
  <2> QED BY <2>2, <2>3, <2>4, <2>5 DEF Inv
<1>9. \/ Tell("slo", TRUE, "jobs") /\ "slo" \notin flags
      \/ Tell("slo", FALSE, "jobs") /\ "slo" \in flags
      \/ UNCHANGED <<told, poller>>
      \/ /\ said' = said \ {"slo"} /\ lost' = lost \cup {"slo"} /\ UNCHANGED <<flags, poller>>
         /\ twice' = (IF "slo" \in said THEN twice ELSE twice \cup {"slo"})
  BY DEF CheckSlo
<1> QED BY <1>5, <1>6, <1>7, <1>8, <1>9

LEMMA CheckpointStep == ASSUME Inv, CheckpointJob PROVE Inv'
<1>1. wal \in 0..2 /\ Checkpointed \in 0..2
  BY DEF Checkpointed, Inv, TypeOK
<1>2. UNCHANGED <<up, poller, stopping, told, level, shown, held, stage, repl, misc, spent>> /\ wal' = Checkpointed
  BY DEF CheckpointJob
<1>3. HostType' /\ MiscType' /\ ReplType' /\ up' \in BOOLEAN
  BY <1>1, <1>2, SameParts, TypeParts DEF Inv, HostType
<1> QED BY <1>2, <1>3, HostStep DEF repl

LEMMA FireType ==
    ASSUME Inv, NEW cat \in Category, NEW what \in {"warn", "critical", "unwritable"}, NEW ok, MaybeFire(cat, what, ok)
    PROVE  rate' \in [Category -> {"none", "recent", "old"}] /\ heard' \subseteq {"warn", "critical", "unwritable"}
<1>1. rate \in [Category -> {"none", "recent", "old"}] /\ heard \subseteq {"warn", "critical", "unwritable"}
  BY DEF Inv, TypeOK
<1>2. rate' = rate \/ rate' = [rate EXCEPT ![cat] = "recent"]
  BY DEF MaybeFire
<1>3. heard' = heard \/ heard' = heard \cup {what}
  BY DEF MaybeFire
<1> QED BY <1>1, <1>2, <1>3

LEMMA ProbeStep == ASSUME Inv, Probe PROVE Inv'
<1>1. UNCHANGED <<up, poller, told, host, misc, dest, journal, second, scan>>
  BY DEF Probe
<1>2. PICK ok \in BOOLEAN : ProbeFails(ok) \/ ProbePasses(ok)
  BY DEF Probe
<1>3. UNCHANGED spent \/ Spend("event") \/ Spend("fault")
  BY <1>2, Costs DEF ProbeFails, ProbePasses
<1>4. rate \in [Category -> {"none", "recent", "old"}] /\ heard \subseteq {"warn", "critical", "unwritable"}
      /\ dest \in Dest /\ {"space", "other"} \subseteq Category
  BY DEF Inv, TypeOK, Category
<1>5. rate' \in [Category -> {"none", "recent", "old"}] /\ heard' \subseteq {"warn", "critical", "unwritable"}
  <2>1. CASE ProbeFails(ok)
    <3>1. \A d \in Dest : Refusal[d] \subseteq Category
      BY DEF Refusal, Dest, Category
    <3>2. (\E cat \in Refusal[dest] : MaybeFire(cat, "unwritable", ok)) \/ MaybeFire("other", "unwritable", Writable)
      BY <2>1 DEF ProbeFails
    <3> QED BY <1>4, <3>1, <3>2, FireType
  <2>2. CASE ProbePasses(ok)
    <3>1. CASE UNCHANGED <<rate, heard>>
      BY <1>4, <3>1
    <3>2. CASE rate' = (IF ok THEN [rate EXCEPT !["space"] = "none"] ELSE rate) /\ heard' = {}
      BY <1>4, <3>2
    <3>3. CASE dest # "ok" /\ Refusal[dest] = {} /\ MaybeFire("space", dest, ok)
      <4>1. dest \in {"ok", "warn", "critical", "full", "away"} /\ Refusal["full"] # {} /\ Refusal["away"] # {}
        BY <1>4 DEF Refusal, Dest
      <4>2. dest \in {"warn", "critical", "unwritable"}
        BY <3>3, <4>1
      <4>3. "space" \in Category
        BY <1>4
      <4> QED BY <3>3, <4>2, <4>3, FireType
    <3> QED BY <2>2, <3>1, <3>2, <3>3 DEF ProbePasses
  <2> QED BY <1>2, <2>1, <2>2
<1>6. HostType' /\ MiscType' /\ ReplType' /\ up' \in BOOLEAN
  BY <1>1, <1>5, SameParts, TypeParts DEF Inv, ReplType, scan
<1> QED BY <1>1, <1>3, <1>6, HostStep

LEMMA ScanReadStep == ASSUME Inv, ScanRead PROVE Inv'
<1> DEFINE g == {l \in journal : l.sec >= ScanFrom}
<1>1. poller' = [At("scanned") EXCEPT !.from = ScanFrom, !.got = g] /\ UNCHANGED <<up, told, host, repl, misc, spent>>
  BY DEF ScanRead
<1>2. g \subseteq Line /\ g \subseteq journal /\ \A l \in journal \ g : ~(l.sec >= ScanFrom)
  BY DEF Inv, TypeOK
<1> HIDE DEF g
<1>0. ScanFrom \in 0..(MaxEvents + 1) /\ (cursor # 0 => ScanFrom = cursor) /\ (cursor = 0 => ScanFrom <= second)
  BY WatchAssumption DEF ScanFrom, Inv, TypeOK
<1>3. /\ poller' \in Place /\ poller'.at = "scanned" /\ poller'.key = "none" /\ poller'.then \in Quiet
      /\ poller'.got = g /\ poller'.from = ScanFrom
  <2>1. poller' = [at |-> "scanned", used |-> 0, key |-> "none", on |-> FALSE, then |-> "wal", from |-> ScanFrom, got |-> g]
    BY <1>1 DEF At
  <2>2. g \in SUBSET Line /\ {"scanned", "wal"} \subseteq Step /\ "wal" \in Quiet /\ 0 \in Band /\ FALSE \in BOOLEAN
    BY <1>2 DEF Step, Quiet, Band
  <2>3. poller' \in Place
    BY <1>0, <2>1, <2>2 DEF Place
  <2> QED BY <2>1, <2>2, <2>3
<1>4. poller.key = "none"
  BY DEF ScanRead, Is, Inv, KeyInv
<1>5. KeyInv' /\ OnceEach'
  BY <1>1, <1>3, <1>4, KeyRest
<1>6. CountInv' /\ spent' \in [{"event", "fault"} -> Nat]
  BY <1>1, CountRest DEF repl
<1>7. ScanInv' /\ PassedOver'
  <2>1. \A l \in journal : l.sec \in Int
    BY DEF Inv, TypeOK, Line
  <2>2. ScanFrom \in Int
    BY <1>0
  <2>3. \A l \in journal \ g : l.sec < ScanFrom
    BY <1>2, <2>1, <2>2
  <2> QED BY <1>0, <1>1, <1>2, <1>3, <2>3 DEF Inv, ScanInv, PassedOver, repl, scan
<1>8. TypeOK'
  <2>1. up' \in BOOLEAN
    BY <1>1 DEF Inv, TypeOK
  <2> QED BY <1>1, <1>3, <1>6, <2>1, SameParts, TypeNext DEF Inv
<1> QED BY <1>5, <1>6, <1>7, <1>8 DEF Inv

LEMMA ScanDoneStep == ASSUME Inv, NEW ok \in BOOLEAN, ScanDone(ok) PROVE Inv'
<1>1. /\ poller.at = "scanned" /\ poller' = At("jobs")
      /\ UNCHANGED <<up, told, host, misc, dest, heard, journal, second>>
      /\ UNCHANGED spent \/ Spend("event") \/ Spend("fault")
  BY Costs DEF ScanDone, Is, Goes
<1>2. Calm(poller')
  BY <1>1, AtCalm DEF Quiet, Step
<1>3. poller.key = "none"
  BY <1>1 DEF Inv, KeyInv
<1>4. KeyInv' /\ OnceEach'
  BY <1>1, <1>2, <1>3, KeyRest DEF Calm, Quiet
<1>5. CountInv' /\ spent' \in [{"event", "fault"} -> Nat]
  BY <1>1, CountRest
<1>6. \A l \in journal : l.sec \in 0..MaxEvents
  BY DEF Inv, TypeOK, Line
<1>7. MaxEvents \in Nat /\ cursor \in 0..(MaxEvents + 1) /\ journal \subseteq Line /\ seen \subseteq Line
  BY WatchAssumption DEF Inv, TypeOK
<1>8. rate' \in [Category -> {"none", "recent", "old"}]
  <2>1. rate' = rate \/ rate' = [rate EXCEPT !["journal"] = "recent"]
    BY DEF ScanDone
  <2> QED BY <2>1 DEF Inv, TypeOK, Category
<1>10. seen' \subseteq Line /\ cursor' \in 0..(MaxEvents + 1) /\ since' \in 0..MaxEvents /\ ScanInv' /\ PassedOver'
  <2>1. CASE UNCHANGED scan
    <3>1. ScanInv' /\ PassedOver'
      BY <1>1, <1>2, <2>1, ScanRest DEF Calm, Quiet
    <3> QED BY <1>7, <2>1, <3>1 DEF scan, Inv, TypeOK
  <2>2. CASE ~UNCHANGED scan
    <3>1. /\ seen' = seen \cup poller.got
          /\ since' = (IF cursor = 0 THEN poller.from ELSE since)
          /\ \E m \in poller.got : (\A l \in poller.got : l.sec <= m.sec) /\ cursor' = m.sec + 1
      BY <2>2 DEF ScanDone, scan
    <3>2. PICK m \in poller.got : (\A l \in poller.got : l.sec <= m.sec) /\ cursor' = m.sec + 1
      BY <3>1
    <3>3. /\ poller.got \subseteq journal /\ seen \subseteq journal /\ poller.from \in 0..(MaxEvents + 1)
          /\ (cursor # 0 => poller.from = cursor) /\ (cursor = 0 => poller.from <= second)
          /\ \A l \in journal \ poller.got : l.sec < poller.from \/ \A n \in poller.got : n.sec <= l.sec
      BY <1>1 DEF Inv, ScanInv
    <3>4. since' \in 0..MaxEvents
      <4>1. since \in 0..MaxEvents /\ second \in 0..MaxEvents
        BY DEF Inv, TypeOK
      <4> QED BY <1>7, <3>1, <3>3, <4>1
    <3>5. m.sec \in 0..MaxEvents /\ m \in seen'
      BY <1>6, <3>1, <3>2, <3>3
    <3>6. ScanInv'
      <4>1. poller'.at # "scanned"
        BY <1>2 DEF Calm, Quiet
      <4>2. seen' \subseteq journal
        BY <3>1, <3>3
      <4> QED BY <1>1, <3>2, <3>5, <4>1, <4>2 DEF Inv, ScanInv
    <3>7. PassedOver'
      <4> SUFFICES ASSUME NEW l \in journal \ seen', since' <= l.sec, l.sec < cursor'
                   PROVE  \E n \in seen' : n.sec = l.sec
        BY <1>1 DEF PassedOver
      <4>1. CASE cursor # 0 /\ l.sec < cursor
        BY <3>1, <4>1 DEF Inv, PassedOver
      <4>2. CASE m.sec <= l.sec
        <5>1. l.sec \in 0..MaxEvents /\ l.sec < m.sec + 1
          BY <1>6, <3>2
        <5>2. m.sec = l.sec
          BY <1>7, <3>5, <4>2, <5>1
        <5> QED BY <3>5, <5>2
      <4>3. l \in journal \ poller.got
        BY <3>1
      <4>4. CASE cursor = 0 /\ l.sec < poller.from
        <5>1. l.sec \in Int /\ poller.from \in Int /\ poller.from <= l.sec
          BY <1>6, <3>1, <3>3, <4>4
        <5> QED BY <4>4, <5>1
      <4> QED BY <3>2, <3>3, <4>1, <4>2, <4>3, <4>4
    <3> QED BY <1>7, <3>1, <3>2, <3>3, <3>4, <3>5, <3>6, <3>7
  <2> QED BY <2>1, <2>2
<1>9. TypeOK'
  <2>1. ReplType'
    BY <1>1, <1>7, <1>8, <1>10, TypeParts DEF Inv, ReplType
  <2>2. up' \in BOOLEAN
    BY <1>1 DEF Inv, TypeOK
  <2> QED BY <1>1, <1>2, <1>5, <2>1, <2>2, SameParts, TypeNext DEF Inv, Calm
<1> QED BY <1>4, <1>5, <1>9, <1>10 DEF Inv

-----------------------------------------------------------------------------
(* The host, the operator and time *)

LEMMA HostSteps ==
    ASSUME Inv,
           \/ Rebaseline \/ (\E l \in Band : DiskChanges(l)) \/ StageGrows \/ ReadHolds \/ WalGrows \/ Started
    PROVE  Inv'
<1>1. /\ poller' = poller /\ UNCHANGED <<told, repl, misc>>
      /\ UNCHANGED spent \/ Spend("event") \/ Spend("fault")
  BY Costs DEF Rebaseline, MaybeRebaseline, DiskChanges, StageGrows, ReadHolds, WalGrows, Started, Event
<1>2. up' \in BOOLEAN
  BY DEF Rebaseline, MaybeRebaseline, DiskChanges, StageGrows, ReadHolds, WalGrows, Started, Inv, TypeOK
<1>3. HostType'
  <2>1. HostType
    BY TypeParts DEF Inv
  <2>2. CASE (\E l \in Band : DiskChanges(l)) \/ StageGrows
    BY <2>1, <2>2 DEF DiskChanges, StageGrows, HostType
  <2>6. ASSUME NEW l \in Band, NEW ok \in BOOLEAN, MaybeRebaseline(l, ok) PROVE HostType'
    <3>1. stage' \in BOOLEAN
      BY <2>6, Zenon DEF MaybeRebaseline
    <3> QED BY <2>1, <2>6, <3>1 DEF MaybeRebaseline, HostType
  <2>3. CASE ReadHolds
    BY <2>1, <2>3 DEF ReadHolds, HostType
  <2>4. CASE WalGrows
    BY <2>1, <2>4 DEF WalGrows, HostType
  <2>5. CASE Started
    <3>1. wal' \in {0, wal} /\ UNCHANGED <<stopping, level, shown, stage>> /\ held' = FALSE
      BY <2>5 DEF Started
    <3>2. wal' \in 0..2
      BY <2>1, <3>1 DEF HostType
    <3>3. held' \in BOOLEAN
      BY <3>1
    <3> QED BY <2>1, <3>1, <3>2, <3>3 DEF HostType
  <2> QED BY <2>2, <2>3, <2>4, <2>5, <2>6 DEF Rebaseline
<1>4. MiscType' /\ ReplType'
  BY <1>1, SameParts DEF Inv
<1> QED BY <1>1, <1>2, <1>3, <1>4, HostStep DEF repl

LEMMA OutsideSteps ==
    ASSUME Inv,
           \/ (\E d \in Dest : DestChanges(d)) \/ HourPasses
           \/ SloChanges \/ GraceEnds \/ (\E c \in Conf : Toggle(c)) \/ DrillAges
    PROVE  Inv'
<1>1. /\ UNCHANGED <<up, poller, told, host, journal, second, scan>>
      /\ UNCHANGED spent \/ Spend("event")
  BY DEF DestChanges, HourPasses, SloChanges, GraceEnds, Toggle, DrillAges, Event, repl
<1>2. HostType' /\ up' \in BOOLEAN
  BY <1>1, SameParts, TypeParts DEF Inv
<1>3. HostType /\ ReplType /\ MiscType
  BY TypeParts DEF Inv
<1>4. MiscType' /\ ReplType'
  <2> USE DEF scan
  <2>1. CASE \E d \in Dest : DestChanges(d)
    BY <1>3, <2>1 DEF DestChanges, ReplType, MiscType, misc
  <2>2. CASE HourPasses
    <3>1. rate' \in [Category -> {"none", "recent", "old"}]
      BY <1>3, <2>2 DEF HourPasses, ReplType
    <3> QED BY <1>3, <2>2, <3>1 DEF HourPasses, ReplType, MiscType, misc
  <2>3. CASE SloChanges
    BY <1>3, <2>3, Zenon DEF SloChanges, ReplType, MiscType, repl
  <2>4. CASE GraceEnds \/ DrillAges
    BY <1>3, <2>4 DEF GraceEnds, DrillAges, ReplType, MiscType, repl
  <2>5. ASSUME NEW c \in Conf, Toggle(c) PROVE MiscType' /\ ReplType'
    <3>1. conf' = (IF c \in conf THEN conf \ {c} ELSE conf \cup {c})
          /\ UNCHANGED <<repl, breach, clock, drill, focus>>
      BY <2>5 DEF Toggle
    <3> QED BY <1>3, <3>1 DEF ReplType, MiscType, repl
  <2> QED BY <2>1, <2>2, <2>3, <2>4, <2>5
<1> QED BY <1>1, <1>2, <1>4, HostStep

LEMMA ErrorLineStep == ASSUME Inv, ErrorLine PROVE Inv'
<1> DEFINE new == [sec |-> second, no |-> Cardinality(journal) + 1]
<1>1. /\ journal' = journal \cup {new} /\ Cardinality(journal) < MaxLines
      /\ UNCHANGED <<up, poller, told, host, misc, spent, dest, rate, heard, second, scan>>
  BY DEF ErrorLine
<1>2. Cardinality(journal) \in Nat /\ MaxLines \in Nat /\ second \in 0..MaxEvents /\ MaxEvents \in Nat
  BY WatchAssumption, FS_CardinalityType DEF Inv, CountInv, TypeOK
<1>3. new \in Line /\ new.sec = second
  BY <1>1, <1>2 DEF Line
<1> HIDE DEF new
<1>4. IsFiniteSet(journal')
  BY <1>1, FS_AddElement DEF Inv, CountInv
<1>5. CountInv'
  BY <1>1, <1>4 DEF Inv, CountInv
<1>6. KeyInv' /\ OnceEach'
  BY <1>1, KeyRest
<1>7. ReplType'
  BY <1>1, <1>3, TypeParts DEF Inv, ReplType, scan
<1>8. TypeOK'
  <2>1. up' \in BOOLEAN /\ poller' \in Place /\ spent' \in [{"event", "fault"} -> Nat]
    BY <1>1, TypeParts DEF Inv
  <2> QED BY <1>1, <1>7, <2>1, SameParts, TypeNext DEF Inv
<1>9. \A l \in journal : l.sec \in Int /\ l.sec <= second
  BY DEF Inv, ScanInv, TypeOK, Line
<1>10. ScanInv'
  BY <1>1, <1>2, <1>3, <1>9 DEF Inv, ScanInv, scan
<1>11. PassedOver'
  <2> SUFFICES ASSUME NEW l \in journal' \ seen, since <= l.sec, l.sec < cursor
               PROVE  \E m \in seen : m.sec = l.sec
    BY <1>1 DEF PassedOver, scan
  <2>1. CASE l \in journal
    BY <2>1 DEF Inv, PassedOver
  <2>2. CASE l = new
    <3>1. cursor # 0 /\ l.sec = second
      BY <1>2, <1>3, <2>2
    <3>2. PICK m \in seen : cursor = m.sec + 1
      BY <3>1 DEF Inv, ScanInv
    <3>3. m.sec \in Int /\ m.sec <= second
      BY <1>9 DEF Inv, ScanInv
    <3>4. m.sec = second
      BY <1>2, <3>1, <3>2, <3>3
    <3> QED BY <3>1, <3>4
  <2> QED BY <1>1, <2>1, <2>2
<1> QED BY <1>5, <1>6, <1>8, <1>10, <1>11 DEF Inv

LEMMA SecondStep == ASSUME Inv, SecondPasses PROVE Inv'
<1>1. /\ Spend("event") /\ second' = second + 1
      /\ UNCHANGED <<up, poller, told, host, misc, dest, rate, heard, journal, scan>>
  BY DEF SecondPasses, Event
<1>2. spent \in [{"event", "fault"} -> Nat] /\ MaxEvents \in Nat /\ second \in 0..MaxEvents
  BY WatchAssumption DEF Inv, TypeOK
<1>3. spent' \in [{"event", "fault"} -> Nat] /\ spent'["event"] = spent["event"] + 1 /\ spent["event"] < MaxEvents
  BY <1>1, <1>2 DEF Spend, Limit
<1>4. CountInv' /\ second' \in 0..MaxEvents
  BY <1>1, <1>2, <1>3 DEF Inv, CountInv
<1>5. KeyInv' /\ OnceEach'
  BY <1>1, KeyRest
<1>6. TypeOK'
  <2>1. ReplType'
    BY <1>1, <1>4, TypeParts DEF Inv, ReplType, scan
  <2>2. up' \in BOOLEAN /\ poller' \in Place
    BY <1>1, TypeParts DEF Inv
  <2> QED BY <1>1, <1>3, <2>1, <2>2, SameParts, TypeNext DEF Inv
<1>7. ScanInv' /\ PassedOver'
  <2>1. \A l \in journal : l.sec \in Int
    BY DEF Inv, TypeOK, Line
  <2>2. \A l \in journal : l.sec <= second'
    BY <1>1, <1>2, <2>1 DEF Inv, ScanInv
  <2>3. cursor = 0 /\ poller.at = "scanned" => poller.from <= second'
    BY <1>1, <1>2 DEF Inv, ScanInv
  <2> QED BY <1>1, <2>2, <2>3 DEF Inv, ScanInv, PassedOver, scan
<1> QED BY <1>4, <1>5, <1>6, <1>7 DEF Inv

\* What was told is over, in the settings too.
LEMMA OverSteps == ASSUME Inv, DayTurns \/ CompleteDrill PROVE Inv'
<1>1. /\ Spend("event") /\ UNCHANGED <<up, poller, twice, lost, host, repl>>
      /\ \E over \in SUBSET Key : poller.key \notin over /\ flags' = flags \ over /\ said' = said \ over
  <2>1. CASE DayTurns
    <3>1. {"digest"} \in SUBSET Key /\ poller.key \notin {"digest"}
      BY <2>1 DEF DayTurns, Key
    <3> QED BY <2>1, <3>1 DEF DayTurns, Event
  <2>2. CASE CompleteDrill
    <3>1. {"drill", "nodrill"} \in SUBSET Key /\ poller.key \notin {"drill", "nodrill"}
      BY <2>2 DEF CompleteDrill, Key
    <3> QED BY <2>2, <3>1 DEF CompleteDrill, Event
  <2> QED BY <2>1, <2>2
<1>2. PICK over \in SUBSET Key : poller.key \notin over /\ flags' = flags \ over /\ said' = said \ over
  BY <1>1
<1>3. MiscType'
  <2>1. MiscType
    BY TypeParts DEF Inv
  <2> QED BY <2>1 DEF DayTurns, CompleteDrill, MiscType, misc
<1>4. CountInv' /\ spent' \in [{"event", "fault"} -> Nat] /\ ScanInv' /\ PassedOver'
  BY <1>1, CountRest, ScanRest DEF repl
<1>5. OnceEach' /\ KeyInv'
  BY <1>1, <1>2 DEF Inv, OnceEach, KeyInv
<1>6. TypeOK'
  <2>1. ToldType'
    BY <1>1, <1>2, TypeParts DEF Inv, ToldType
  <2>2. up' \in BOOLEAN /\ poller' \in Place
    BY <1>1, TypeParts DEF Inv
  <2> QED BY <1>1, <1>3, <1>4, <2>1, <2>2, SameParts, TypeNext DEF Inv
<1> QED BY <1>4, <1>5, <1>6 DEF Inv

LEMMA CrashStep == ASSUME Inv, Crash \/ Stopped PROVE Inv'
<1>1. /\ UNCHANGED spent \/ Spend("event") \/ Spend("fault")
      /\ poller' = At("wal") /\ UNCHANGED <<flags, said, twice, repl, misc>>
      /\ lost' = (IF poller.at = "remember" THEN lost \cup {poller.key} ELSE lost)
  BY DEF Crash, Stopped, Goes
<1>0. up' \in BOOLEAN /\ HostType'
  BY TypeParts DEF Crash, Stopped, host, Inv, HostType
<1>2. Calm(poller')
  BY <1>1, AtCalm DEF Quiet, Step
<1>3. CountInv' /\ spent' \in [{"event", "fault"} -> Nat] /\ ScanInv' /\ PassedOver'
  BY <1>1, <1>2, CountRest, ScanRest DEF repl, Calm, Quiet
<1>4. poller.at = "remember" => poller.key \in Key
  <2>1. poller.key \in Key \cup {"none"}
    BY TypeParts DEF Inv, Place
  <2> QED BY <2>1 DEF Inv, KeyInv
<1>5. TypeOK'
  <2>1. ToldType'
    BY <1>1, <1>4, TypeParts DEF Inv, ToldType
  <2> QED BY <1>0, <1>1, <1>2, <1>3, <2>1, SameParts, TypeNext DEF Inv, Calm
<1>6. OnceEach'
  BY <1>1 DEF Inv, OnceEach
<1>7. KeyInv'
  <2> SUFFICES ASSUME NEW k \in Key \ {"nodrill"}, k \notin lost' PROVE k \in said' <=> k \in flags'
    BY <1>2 DEF KeyInv, Calm, Quiet, Key
  <2>1. k \notin lost /\ k # "none"
    BY <1>1 DEF Key
  <2>2. k # poller.key
    BY <1>1, <2>1 DEF Inv, KeyInv
  <2> QED BY <1>1, <2>1, <2>2 DEF Inv, KeyInv
<1> QED BY <1>3, <1>5, <1>6, <1>7 DEF Inv

-----------------------------------------------------------------------------
LEMMA InvStep == Inv /\ [Next]_vars => Inv'
<1> SUFFICES ASSUME Inv, [Next]_vars PROVE Inv'
  OBVIOUS
<1>1. CASE Cycle
  BY <1>1, RememberStep, WalStep, CycleStep, JudgeStep, ScanDoneStep DEF Cycle
<1>2. CASE Job
  BY <1>2, TellJobs, SloStep, CheckpointStep, ProbeStep, ScanReadStep, HostSteps DEF Job
<1>3. CASE Crash \/ Stopped
  BY <1>3, CrashStep
<1>4. CASE Started \/ (\E l \in Band : DiskChanges(l)) \/ StageGrows \/ ReadHolds \/ WalGrows
  BY <1>4, HostSteps
<1>5. CASE \/ (\E d \in Dest : DestChanges(d)) \/ HourPasses
           \/ SloChanges \/ GraceEnds \/ (\E c \in Conf : Toggle(c)) \/ DrillAges
  BY <1>5, OutsideSteps
<1>6. CASE ErrorLine \/ SecondPasses
  BY <1>6, ErrorLineStep, SecondStep
<1>7. CASE DayTurns \/ CompleteDrill
  BY <1>7, OverSteps
<1>8. CASE UNCHANGED vars
  <2>1. UNCHANGED <<up, poller, told, host, repl, misc, spent>>
    BY <1>8 DEF vars
  <2>2. up' \in BOOLEAN /\ HostType' /\ ReplType' /\ MiscType'
    BY <2>1, SameParts, TypeParts DEF Inv
  <2> QED BY <2>1, <2>2, HostStep DEF repl
<1> QED BY <1>1, <1>2, <1>3, <1>4, <1>5, <1>6, <1>7, <1>8 DEF Next

\* MessagesSound always holds: of a thing that stands, the operator is told
\* once (check_and_alert, check_wal_guard, alert_if_breached, maybe_fire_daily,
\* the reminder of a recorded drill) unless the write of its flag was lost,
\* and scan_journal_errors passes over no line of the journal but one of a
\* second it has gone through, for any number of events, faults and lines.
THEOREM MessagesStaySound == Spec => []MessagesSound
<1>1. Inv => MessagesSound
  BY DEF Inv, MessagesSound
<1> QED BY <1>1, InvInit, InvStep, PTL DEF Spec

-----------------------------------------------------------------------------
(* Backups: least and greatest numbers, finite stores *)

LEMMA Least ==
    ASSUME NEW S, S \subseteq Nat, S # {}
    PROVE  \E x \in S : \A y \in S : x <= y
<1> DEFINE R == OpToRel(<, Nat)
<1>1. IsWellFoundedOn(R, Nat)
  BY NatLessThanWellFounded
<1>2. \A x, y \in Nat : x < y => <<x, y>> \in R
  BY DEF OpToRel
<1> HIDE DEF R
<1>3. PICK x \in S : \A y \in S : ~ (<<y, x>> \in R)
  BY <1>1, WFMin
<1>4. ASSUME NEW y \in S PROVE x <= y
  <2>1. x \in Nat /\ y \in Nat /\ ~(y < x)
    BY <1>2, <1>3, Zenon
  <2> QED BY <2>1
<1> QED BY <1>4

LEMMA Greatest ==
    ASSUME NEW n \in Nat, NEW S, S \subseteq 1..n, S # {}
    PROVE  \E x \in S : \A y \in S : y <= x
<1> DEFINE T == {n - x : x \in S}
<1>1. T \subseteq Nat /\ T # {}
  <2>1. \A x \in S : n - x \in Nat
    OBVIOUS
  <2> QED BY <2>1
<1> HIDE DEF T
<1>2. PICK t \in T : \A u \in T : t <= u
  BY <1>1, Least
<1>3. PICK x \in S : t = n - x
  BY DEF T
<1>4. ASSUME NEW y \in S PROVE y <= x
  <2>1. n - y \in T
    BY DEF T
  <2>2. n - x <= n - y /\ x \in Nat /\ y \in Nat
    BY <1>2, <1>3, <2>1
  <2> QED BY <2>2
<1> QED BY <1>4

LEMMA FiniteStore ==
    ASSUME NEW B, B \subseteq Bundle
    PROVE  IsFiniteSet(B)
<1> USE BackupAssumption
<1> DEFINE T == (Kind \X (1..MaxBundle)) \X BOOLEAN
           f == [b \in Bundle |-> <<<<b.kind, b.no>>, b.whole>>]
<1>1. IsFiniteSet(Kind)
  <2>1. IsFiniteSet({"daily"})
    BY FS_Singleton
  <2>2. IsFiniteSet({"daily"} \cup {"monthly"})
    BY <2>1, FS_AddElement
  <2>3. IsFiniteSet(({"daily"} \cup {"monthly"}) \cup {"manual"})
    BY <2>2, FS_AddElement
  <2>4. Kind = ({"daily"} \cup {"monthly"}) \cup {"manual"}
    BY DEF Kind
  <2> QED BY <2>3, <2>4
<1>2. IsFiniteSet(BOOLEAN)
  <2>1. IsFiniteSet({TRUE})
    BY FS_Singleton
  <2>2. IsFiniteSet({TRUE} \cup {FALSE})
    BY <2>1, FS_AddElement
  <2>3. BOOLEAN = {TRUE} \cup {FALSE}
    OBVIOUS
  <2> QED BY <2>2, <2>3
<1>3. IsFiniteSet(1..MaxBundle)
  BY FS_Interval
<1>4. IsFiniteSet(T)
  BY <1>1, <1>2, <1>3, FS_Product
<1>5. f \in Injection(Bundle, T)
  <2>1. f \in [Bundle -> T]
    BY DEF Bundle
  <2>2. ASSUME NEW a \in Bundle, NEW b \in Bundle, f[a] = f[b] PROVE a = b
    <3>1. a.kind = b.kind /\ a.no = b.no /\ a.whole = b.whole
      BY <2>2
    <3> QED BY <3>1 DEF Bundle
  <2> HIDE DEF f, T
  <2> QED BY <2>1, <2>2 DEF Injection, IsInjective
<1>6. IsFiniteSet(Bundle)
  BY <1>4, <1>5, FS_Injection
<1> QED BY <1>6, FS_Subset

LEMMA FiniteNumbers ==
    ASSUME NEW S, S \subseteq 1..MaxBundle
    PROVE  IsFiniteSet(S) /\ Cardinality(S) \in Nat
<1>1. IsFiniteSet(1..MaxBundle)
  BY BackupAssumption, FS_Interval
<1>2. IsFiniteSet(S)
  BY <1>1, FS_Subset
<1> QED BY <1>2, FS_CardinalityType

LEMMA MoreNumbers ==
    ASSUME NEW S, NEW T, S \subseteq T, T \subseteq 1..MaxBundle, Cardinality(S) >= Keep
    PROVE  Cardinality(T) >= Keep
<1>1. IsFiniteSet(T) /\ Cardinality(T) \in Nat /\ Cardinality(S) \in Nat
  BY FiniteNumbers
<1>2. Cardinality(S) <= Cardinality(T)
  BY <1>1, FS_Subset
<1> QED BY <1>1, <1>2, BackupAssumption

-----------------------------------------------------------------------------
(* Backups: retention *)

\* The newer bundles of a kind.
Above(B, k, n) == {m \in Keys(B, k) : m > n}

\* Every name to delete has as many newer ones of its kind as are kept.
Expendable(B, D) == \A x \in D : Cardinality(Above(B, x[1], x[2])) >= Keep

LEMMA AboveType ==
    ASSUME NEW B, B \subseteq Bundle, NEW k, NEW n
    PROVE  Above(B, k, n) \subseteq 1..MaxBundle
  BY DEF Above, Keys, Bundle

LEMMA DoomedExpendable ==
    ASSUME NEW B
    PROVE  Doomed(B) \subseteq Name /\ Expendable(B, Doomed(B))
  BY DEF Doomed, Name, Kind, Expendable, Above

\* Deleting leaves the names that are not doomed.
LEMMA KeysKept ==
    ASSUME NEW B, NEW D, NEW k, NEW m \in Keys(B, k), <<k, m>> \notin D
    PROVE  m \in Keys(Without(B, D), k)
<1>1. PICK b \in B : b.kind = k /\ b.no = m
  BY DEF Keys
<1>2. b \in Without(B, D)
  BY <1>1 DEF Without
<1> QED BY <1>1, <1>2 DEF Keys

\* Deleting expendable names D leaves those of another list E expendable.
LEMMA SweepKeepsExpendable ==
    ASSUME NEW B, B \subseteq Bundle, NEW D, D \subseteq Name, Expendable(B, D), NEW E, E \subseteq Name, Expendable(B, E)
    PROVE  Expendable(Without(B, D), E)
<1> SUFFICES ASSUME NEW x \in E PROVE Cardinality(Above(Without(B, D), x[1], x[2])) >= Keep
  BY DEF Expendable
<1> DEFINE k == x[1]
           n == x[2]
           W == Without(B, D)
           S == {m \in 1..MaxBundle : <<k, m>> \in D}
<1>0. W \subseteq Bundle /\ n \in 1..MaxBundle /\ MaxBundle \in Nat
  BY BackupAssumption DEF Without, Name
<1>1. Cardinality(Above(B, k, n)) >= Keep
  BY DEF Expendable
<1> HIDE DEF W, k, n
<1>2. CASE \A m \in S : m <= n
  <2>1. ASSUME NEW m \in Above(B, k, n) PROVE m \in Above(W, k, n)
    <3>1. m \in Keys(B, k) /\ m > n /\ m \in 1..MaxBundle
      BY AboveType DEF Above
    <3>2. <<k, m>> \notin D
      BY <1>0, <1>2, <3>1
    <3> QED BY <3>1, <3>2, KeysKept DEF Above, W
  <2> QED BY <1>0, <1>1, <2>1, AboveType, MoreNumbers DEF W, k, n
<1>3. CASE \E m \in S : m > n
  <2>1. PICK g \in S : \A m \in S : m <= g
    BY <1>0, <1>3, Greatest
  <2>2. <<k, g>> \in D /\ g \in 1..MaxBundle /\ g > n
    BY <1>0, <1>3, <2>1
  <2>3. Cardinality(Above(B, k, g)) >= Keep
    BY <2>2 DEF Expendable
  <2>4. ASSUME NEW m \in Above(B, k, g) PROVE m \in Above(W, k, n)
    <3>1. m \in Keys(B, k) /\ m > g /\ m \in 1..MaxBundle
      BY AboveType DEF Above
    <3>2. <<k, m>> \notin D
      BY <1>0, <2>1, <2>2, <3>1
    <3>3. m > n
      BY <1>0, <2>2, <3>1
    <3> QED BY <3>1, <3>2, <3>3, KeysKept DEF Above, W
  <2> QED BY <1>0, <2>3, <2>4, AboveType, MoreNumbers DEF W, k, n
<1> QED BY <1>0, <1>2, <1>3

Halves(B) == {b \in B : ~b.whole}

\* What is left holds a whole bundle, or as many halves as are kept.
LEMMA SweepLeaves ==
    ASSUME NEW B, B \subseteq Bundle, NEW D, D \subseteq Name, D # {}, Expendable(B, D)
    PROVE  (\E b \in Without(B, D) : b.whole) \/ Cardinality(Halves(Without(B, D))) >= Keep
<1> SUFFICES ASSUME \A b \in Without(B, D) : ~b.whole PROVE Cardinality(Halves(Without(B, D))) >= Keep
  OBVIOUS
<1> DEFINE W == Without(B, D)
           H == Halves(W)
           S == {m \in 1..MaxBundle : \E k \in Kind : <<k, m>> \in D}
<1>0. W \subseteq Bundle /\ H = W /\ MaxBundle \in Nat
  BY BackupAssumption DEF Without, Halves
<1>1. S # {}
  BY DEF Name
<1>2. PICK g \in S : \A m \in S : m <= g
  BY <1>0, <1>1, Greatest
<1>3. PICK k \in Kind : <<k, g>> \in D
  OBVIOUS
<1> DEFINE M == Above(B, k, g)
           f == [m \in M |-> [kind |-> k, no |-> m, whole |-> FALSE]]
<1>4. Cardinality(M) >= Keep /\ M \subseteq 1..MaxBundle
  BY <1>3, AboveType DEF Expendable
<1>5. ASSUME NEW m \in M PROVE [kind |-> k, no |-> m, whole |-> FALSE] \in H
  <2>1. m \in Keys(B, k) /\ m > g /\ m \in 1..MaxBundle
    BY <1>4 DEF Above
  <2>2. <<k, m>> \notin D
    BY <1>2, <2>1
  <2>3. m \in Keys(W, k)
    BY <2>1, <2>2, KeysKept
  <2>4. PICK b \in W : b.kind = k /\ b.no = m
    BY <2>3 DEF Keys
  <2>5. b \in Bundle /\ ~b.whole
    BY <1>0, <2>4
  <2>6. b = [kind |-> k, no |-> m, whole |-> FALSE]
    BY <2>4, <2>5 DEF Bundle
  <2> QED BY <1>0, <2>4, <2>6
<1>6. IsFiniteSet(H) /\ Cardinality(H) \in Nat
  BY <1>0, FiniteStore, FS_CardinalityType
<1> HIDE DEF M, H
<1>7. f \in Injection(M, H)
  <2>1. f \in [M -> H]
    BY <1>5
  <2>2. \A m \in M : f[m].no = m
    OBVIOUS
  <2> HIDE DEF f
  <2> QED BY <2>1, <2>2 DEF Injection, IsInjective
<1>8. Cardinality(M) <= Cardinality(H)
  BY <1>6, <1>7, FS_Injection
<1>9. Cardinality(M) \in Nat
  BY <1>4, FiniteNumbers
<1> QED BY <1>4, <1>6, <1>8, <1>9, BackupAssumption DEF H

-----------------------------------------------------------------------------
(* Backups: types *)

Numbered == {"write", "ship", "stamp"}
NumberedTask == [pc : Numbered, plan : Plan, kind : Kind, to : Store, no : 1..MaxBundle]

LEMMA TaskFields ==
    ASSUME NEW j \in Task
    PROVE  /\ j.pc = "build" => j.plan \in Plan /\ j.kind \in Kind
           /\ j.pc \in Numbered => j \in NumberedTask /\ j.plan \in Plan /\ j.kind \in Kind /\ j.to \in Store /\ j.no \in 1..MaxBundle
           /\ j.pc = "delete" => j.plan \in Plan /\ j.kind \in Kind /\ j.to \in Store /\ j.doomed \subseteq Name
           /\ j.pc = "test" => j.plan \in Plan /\ j.what \in {"main", "offbox"}
           /\ j.pc = "get" => j.plan \in Plan /\ j.what \in {"main", "offbox"} /\ j.from \in Store
           /\ j.pc \in {"testdue", "offdue"} => j.plan \in Plan \ {"page"}
<1>1. CASE j \in [pc : {"idle"}]
  BY <1>1 DEF Numbered
<1>2. CASE j \in [pc : {"build"}, plan : Plan, kind : Kind]
  BY <1>2 DEF Numbered
<1>3. CASE j \in NumberedTask
  BY <1>3 DEF NumberedTask, Numbered
<1>4. CASE j \in [pc : {"delete"}, plan : Plan, kind : Kind, to : Store, doomed : SUBSET Name]
  BY <1>4 DEF Numbered
<1>5. CASE j \in [pc : {"test"}, plan : Plan, what : {"main", "offbox"}]
  BY <1>5 DEF Numbered
<1>6. CASE j \in [pc : {"get"}, plan : Plan, what : {"main", "offbox"}, from : Store, pick : SUBSET Name]
  BY <1>6 DEF Numbered
<1>7. CASE j \in [pc : {"testdue", "offdue"}, plan : Plan \ {"page"}]
  BY <1>7 DEF Numbered
<1> QED BY <1>1, <1>2, <1>3, <1>4, <1>5, <1>6, <1>7 DEF Task, NumberedTask, Numbered

LEMMA TaskMade ==
    /\ Idle \in Task
    /\ \A plan \in Plan, k \in Kind : NewRun(plan, k) \in Task
    /\ \A plan \in Plan, k \in Kind, s \in Store, n \in 1..MaxBundle, pc \in Numbered :
         [pc |-> pc, plan |-> plan, kind |-> k, to |-> s, no |-> n] \in Task
    /\ \A plan \in Plan, k \in Kind, s \in Store, D \in SUBSET Name :
         [pc |-> "delete", plan |-> plan, kind |-> k, to |-> s, doomed |-> D] \in Task
    /\ \A plan \in Plan, w \in {"main", "offbox"} : NewTest(plan, w) \in Task
    /\ \A plan \in Plan, w \in {"main", "offbox"}, s \in Store, D \in SUBSET Name :
         [pc |-> "get", plan |-> plan, what |-> w, from |-> s, pick |-> D] \in Task
    /\ \A plan \in Plan \ {"page"}, pc \in {"testdue", "offdue"} : [pc |-> pc, plan |-> plan] \in Task
    /\ NumberedTask \subseteq Task
<1>1. Idle \in Task /\ NumberedTask \subseteq Task
  BY DEF Task, Idle, NumberedTask, Numbered
<1>2. \A plan \in Plan, k \in Kind : NewRun(plan, k) \in Task
  BY DEF Task, NewRun
<1>3. \A plan \in Plan, k \in Kind, s \in Store, n \in 1..MaxBundle, pc \in Numbered :
         [pc |-> pc, plan |-> plan, kind |-> k, to |-> s, no |-> n] \in Task
  BY <1>1 DEF NumberedTask
<1>4. \A plan \in Plan, k \in Kind, s \in Store, D \in SUBSET Name :
         [pc |-> "delete", plan |-> plan, kind |-> k, to |-> s, doomed |-> D] \in Task
  BY DEF Task
<1>5. \A plan \in Plan, w \in {"main", "offbox"} : NewTest(plan, w) \in Task
  BY DEF Task, NewTest
<1>6. \A plan \in Plan, w \in {"main", "offbox"}, s \in Store, D \in SUBSET Name :
         [pc |-> "get", plan |-> plan, what |-> w, from |-> s, pick |-> D] \in Task
  BY DEF Task
<1>7. \A plan \in Plan \ {"page"}, pc \in {"testdue", "offdue"} : [pc |-> pc, plan |-> plan] \in Task
  BY DEF Task
<1> QED BY <1>1, <1>2, <1>3, <1>4, <1>5, <1>6, <1>7

\* Every number in a store or in a run under way was given out once, to a
\* run of one kind.
NumberInv ==
    /\ \A s \in Store : \A b \in bundles[s] : b.no <= last
    /\ \A p \in Actor : job[p].pc \in Numbered =>
         /\ job[p].no <= last
         /\ \A s \in Store : \A b \in bundles[s] : b.no = job[p].no => b.kind = job[p].kind
    /\ \A p, q \in Actor : p # q /\ job[p].pc \in Numbered /\ job[q].pc \in Numbered => job[p].no # job[q].no

\* What a run has found too old is so although others store and delete.
SweepInv == \A p \in Actor : job[p].pc = "delete" => Expendable(bundles[job[p].to], job[p].doomed)

BackupInv == BackupTypeOK /\ WholeKept /\ NumberInv /\ SweepInv

\* An actor's task, with its type and those of the stores.
LEMMA BackupFacts ==
    ASSUME BackupInv
    PROVE  /\ job \in [Actor -> Task] /\ \A p \in Actor : job[p] \in Task
           /\ bundles \in [Store -> SUBSET Bundle] /\ \A s \in Store : bundles[s] \subseteq Bundle
           /\ last \in 0..MaxBundle /\ MaxBundle \in Nat /\ Keep \in Nat /\ backend \in Store
           /\ usedUp \in [{"event", "fault"} -> Nat]
  BY BackupAssumption DEF BackupInv, BackupTypeOK

LEMMA BackupStart ==
    ASSUME BackupInit
    PROVE  BackupInv
<1> USE BackupAssumption DEF BackupInit
<1>1. job \in [Actor -> Task] /\ \A p \in Actor : job[p].pc = "idle"
  BY TaskMade DEF Idle
<1>2. BackupTypeOK
  <2>1. bundles \in [Store -> SUBSET Bundle] /\ last \in 0..MaxBundle /\ had \subseteq Store /\ backend \in Store
    BY DEF Store
  <2>2. /\ enabled \in BOOLEAN /\ offsite \in BOOLEAN /\ everOk \in BOOLEAN /\ shipped \in BOOLEAN
        /\ monthlyMade \in BOOLEAN /\ owed \in BOOLEAN
    BY Zenon
  <2>3. /\ daily \in {"never", "fresh", "day", "late"} /\ due \subseteq Interval /\ alerted \subseteq Finding
        /\ tested \in [{"main", "offbox"} -> {"never", "ok", "failed"}] /\ usedUp \in [{"event", "fault"} -> Nat]
    OBVIOUS
  <2> QED BY <1>1, <2>1, <2>2, <2>3 DEF BackupTypeOK
<1>3. WholeKept
  BY DEF WholeKept
<1>4. NumberInv /\ SweepInv
  BY <1>1 DEF NumberInv, SweepInv, Numbered
<1> QED BY <1>2, <1>3, <1>4 DEF BackupInv

LEMMA UsesType ==
    ASSUME BackupInv, NEW k \in {"event", "fault"}, Uses(k)
    PROVE  usedUp' \in [{"event", "fault"} -> Nat]
  BY BackupFacts DEF Uses

LEMMA RiskType ==
    ASSUME BackupInv, NEW ok, Risk(ok)
    PROVE  usedUp' \in [{"event", "fault"} -> Nat]
  BY BackupFacts, UsesType DEF Risk

\* A step after which the actor holds no number and has nothing to delete.
LEMMA CalmStep ==
    ASSUME BackupInv, UNCHANGED stores, NEW p \in Actor, NEW j \in Task, Becomes(p, j), j.pc \notin Numbered \cup {"delete"}
    PROVE  job' \in [Actor -> Task] /\ WholeKept' /\ NumberInv' /\ SweepInv'
<1>1. /\ job' = [job EXCEPT ![p] = j] /\ job \in [Actor -> Task]
      /\ bundles' = bundles /\ last' = last /\ had' = had
  BY BackupFacts DEF Becomes, stores
<1>2. job' \in [Actor -> Task] /\ job'[p] = j /\ \A q \in Actor \ {p} : job'[q] = job[q]
  BY <1>1
<1>3. WholeKept'
  BY <1>1 DEF BackupInv, WholeKept
<1>4. NumberInv'
  BY <1>1, <1>2 DEF BackupInv, NumberInv
<1>5. SweepInv'
  BY <1>1, <1>2 DEF BackupInv, SweepInv
<1> QED BY <1>2, <1>3, <1>4, <1>5

LEMMA SameStep ==
    ASSUME BackupInv, UNCHANGED <<stores, job>>
    PROVE  job' \in [Actor -> Task] /\ WholeKept' /\ NumberInv' /\ SweepInv'
  BY DEF BackupInv, BackupTypeOK, WholeKept, NumberInv, SweepInv, stores

\* The task that follows a run.
LEMMA RunDoneTask ==
    ASSUME BackupInv, NEW p \in Actor, NEW ok, RunDone(p, ok)
    PROVE  /\ \E j \in Task : Becomes(p, j) /\ j.pc \in {"idle", "testdue"}
           /\ daily' \in {"never", "fresh", "day", "late"}
<1>1. daily' \in {"never", "fresh", "day", "late"}
  BY DEF RunDone, BackupInv, BackupTypeOK
<1>2. CASE job[p].plan = "schedule" \/ (job[p].plan \in {"timer", "copied"} /\ ok)
  <2> DEFINE j == [pc |-> "testdue", plan |-> job[p].plan]
  <2>1. Becomes(p, j)
    BY <1>2 DEF RunDone
  <2>2. job[p].plan \in Plan \ {"page"}
    BY <1>2 DEF Plan
  <2>3. j \in Task /\ j.pc = "testdue"
    BY <2>2, TaskMade
  <2> QED BY <1>1, <2>1, <2>3
<1>3. CASE ~(job[p].plan = "schedule" \/ (job[p].plan \in {"timer", "copied"} /\ ok))
  <2>1. Becomes(p, Idle)
    BY <1>3 DEF RunDone
  <2>2. Idle \in Task /\ Idle.pc = "idle"
    BY TaskMade DEF Idle
  <2> QED BY <1>1, <2>1, <2>2
<1> QED BY <1>2, <1>3

-----------------------------------------------------------------------------
(* Backups: the steps *)

\* Storing keeps the numbers of a kind, adding its own.
LEMMA StoredKeys ==
    ASSUME BackupInv, NEW p \in Actor, job[p].pc \in Numbered, NEW s \in Store
    PROVE  LET new == [kind |-> job[p].kind, no |-> job[p].no, whole |-> TRUE]
               B == {b \in bundles[s] : b.no # job[p].no} \cup {new}
           IN  /\ Stored(s, job[p].kind, job[p].no) = [bundles EXCEPT ![s] = B]
               /\ B \subseteq Bundle /\ new \in B /\ new.whole
               /\ \A k : Keys(bundles[s], k) \subseteq Keys(B, k)
               /\ \A b \in B : b = new \/ b \in bundles[s]
<1> DEFINE new == [kind |-> job[p].kind, no |-> job[p].no, whole |-> TRUE]
           B == {b \in bundles[s] : b.no # job[p].no} \cup {new}
<1>1. Stored(s, job[p].kind, job[p].no) = [bundles EXCEPT ![s] = B]
  BY DEF Stored
<1>2. new \in Bundle /\ new.whole /\ new.kind = job[p].kind /\ new.no = job[p].no
  BY BackupFacts, TaskFields DEF Bundle
<1> HIDE DEF new
<1>3. B \subseteq Bundle
  BY <1>2, BackupFacts
<1>4. ASSUME NEW k, NEW n \in Keys(bundles[s], k) PROVE n \in Keys(B, k)
  <2>1. PICK b \in bundles[s] : b.kind = k /\ b.no = n
    BY DEF Keys
  <2>2. CASE b.no = job[p].no
    <3>1. k = job[p].kind
      BY <2>1, <2>2 DEF BackupInv, NumberInv
    <3> QED BY <1>2, <2>1, <2>2, <3>1 DEF Keys
  <2>3. CASE b.no # job[p].no
    BY <2>1, <2>3 DEF Keys
  <2> QED BY <2>2, <2>3
<1> QED BY <1>1, <1>2, <1>3, <1>4 DEF new

LEMMA ExpendableGrows ==
    ASSUME NEW B, NEW C, B \subseteq Bundle, C \subseteq Bundle, \A k : Keys(B, k) \subseteq Keys(C, k), NEW D, Expendable(B, D)
    PROVE  Expendable(C, D)
<1> SUFFICES ASSUME NEW x \in D PROVE Cardinality(Above(C, x[1], x[2])) >= Keep
  BY DEF Expendable
<1>1. Cardinality(Above(B, x[1], x[2])) >= Keep
  BY DEF Expendable
<1>2. Above(B, x[1], x[2]) \subseteq Above(C, x[1], x[2]) /\ Above(C, x[1], x[2]) \subseteq 1..MaxBundle
  BY AboveType DEF Above
<1> QED BY <1>1, <1>2, MoreNumbers

\* Others' lists stay expendable when the keys of a store only grow.
LEMMA SweepInvGrows ==
    ASSUME BackupInv, NEW p \in Actor, NEW j \in Task, Becomes(p, j), j.pc # "delete",
           NEW s \in Store, NEW C, C \subseteq Bundle, bundles' = [bundles EXCEPT ![s] = C],
           \A k : Keys(bundles[s], k) \subseteq Keys(C, k)
    PROVE  SweepInv'
<1> SUFFICES ASSUME NEW q \in Actor, job'[q].pc = "delete" PROVE Expendable(bundles'[job'[q].to], job'[q].doomed)
  BY DEF SweepInv
<1>1. q # p /\ job'[q] = job[q] /\ job[q].to \in Store
  BY BackupFacts, TaskFields DEF Becomes
<1>2. Expendable(bundles[job[q].to], job[q].doomed)
  BY <1>1 DEF BackupInv, SweepInv
<1>3. CASE job[q].to = s
  BY <1>1, <1>2, <1>3, BackupFacts, ExpendableGrows
<1>4. CASE job[q].to # s
  BY <1>1, <1>2, <1>4, BackupFacts
<1> QED BY <1>3, <1>4

LEMMA BuildStep ==
    ASSUME BackupInv, NEW p \in Actor, NEW ok \in BOOLEAN, Build(p, ok)
    PROVE  BackupInv'
<1>0. job[p].pc = "build" /\ usedUp' \in [{"event", "fault"} -> Nat] /\ UNCHANGED <<had, settings, due, monthlyMade, owed, everOk, tested, shipped, alerted>>
  BY RiskType DEF Build
<1>1. CASE ok
  <2> DEFINE half == [kind |-> job[p].kind, no |-> last + 1, whole |-> FALSE]
             B == bundles["local"] \cup {half}
             j == [pc |-> "write", plan |-> job[p].plan, kind |-> job[p].kind, to |-> backend, no |-> last + 1]
  <2>1. /\ last < MaxBundle /\ last' = last + 1 /\ daily' = daily /\ Becomes(p, j)
        /\ bundles' = IF backend = "local" THEN [bundles EXCEPT !["local"] = B] ELSE bundles
    BY <1>1 DEF Build
  <2>2. last + 1 \in 1..MaxBundle /\ last' \in 0..MaxBundle /\ last \in Nat
    BY <2>1, BackupFacts
  <2>3. half \in Bundle /\ half.no = last + 1 /\ ~half.whole /\ half.kind = job[p].kind
    BY <1>0, <2>2, BackupFacts, TaskFields DEF Bundle
  <2>4. j \in Task /\ j.pc = "write" /\ j.no = last + 1 /\ j.kind = job[p].kind /\ "write" \in Numbered
    <3>1. job[p].plan \in Plan /\ job[p].kind \in Kind /\ backend \in Store /\ "write" \in Numbered
      BY <1>0, BackupFacts, TaskFields DEF Numbered
    <3> QED BY <2>2, <3>1, TaskMade
  <2> HIDE DEF half, j
  <2>5. /\ bundles' \in [Store -> SUBSET Bundle]
        /\ \A s \in Store : bundles[s] \subseteq bundles'[s] /\ \A b \in bundles'[s] : b \in bundles[s] \/ b = half
    BY <2>1, <2>3, BackupFacts DEF Store
  <2>6. job' \in [Actor -> Task] /\ job'[p] = j /\ \A q \in Actor \ {p} : job'[q] = job[q]
    BY <2>1, <2>4, BackupFacts DEF Becomes
  <2>7. BackupTypeOK'
    BY <1>0, <2>1, <2>2, <2>5, <2>6 DEF BackupInv, BackupTypeOK, settings
  <2>8. WholeKept'
    <3> SUFFICES ASSUME NEW s \in had, ~\E b \in bundles'[s] : b.whole PROVE Cardinality({b \in bundles'[s] : ~b.whole}) >= Keep
      BY <1>0 DEF WholeKept
    <3>1. s \in Store
      BY DEF BackupInv, BackupTypeOK
    <3>2. Cardinality(Halves(bundles[s])) >= Keep
      BY <2>5, <3>1 DEF BackupInv, WholeKept, Halves
    <3>3. Halves(bundles[s]) \subseteq Halves(bundles'[s]) /\ Halves(bundles'[s]) \subseteq Bundle
      BY <2>5, <3>1 DEF Halves
    <3>4. IsFiniteSet(Halves(bundles'[s])) /\ IsFiniteSet(Halves(bundles[s]))
      BY <3>3, FiniteStore, FS_Subset
    <3>5. /\ Cardinality(Halves(bundles[s])) <= Cardinality(Halves(bundles'[s]))
          /\ Cardinality(Halves(bundles'[s])) \in Nat /\ Cardinality(Halves(bundles[s])) \in Nat
      BY <3>3, <3>4, FS_Subset, FS_CardinalityType
    <3>6. Cardinality(Halves(bundles'[s])) >= Keep
      BY <3>2, <3>5, BackupFacts
    <3> QED BY <3>6 DEF Halves
  <2>9. NumberInv'
    <3>1. ASSUME NEW s \in Store, NEW b \in bundles'[s] PROVE b.no <= last'
      <4>1. b \in Bundle /\ b.no \in Nat /\ (b.no <= last \/ b.no = last + 1)
        BY <2>3, <2>5 DEF BackupInv, NumberInv, Bundle
      <4> QED BY <2>1, <2>2, <4>1
    <3>2. ASSUME NEW q \in Actor, job'[q].pc \in Numbered
          PROVE  /\ job'[q].no <= last'
                 /\ \A s \in Store : \A b \in bundles'[s] : b.no = job'[q].no => b.kind = job'[q].kind
      <4>1. CASE q = p
        <5>1. ASSUME NEW s \in Store, NEW b \in bundles'[s], b.no = last + 1 PROVE b.kind = job[p].kind
          <6>1. b \in bundles[s] => b.no <= last
            BY DEF BackupInv, NumberInv
          <6> QED BY <2>2, <2>3, <2>5, <5>1, <6>1
        <5> QED BY <2>1, <2>2, <2>4, <2>6, <4>1, <5>1
      <4>2. CASE q # p
        <5>1. /\ job'[q] = job[q] /\ job[q].no <= last /\ job[q].no \in Nat /\ job[q].no # last + 1
              /\ \A s \in Store : \A b \in bundles[s] : b.no = job[q].no => b.kind = job[q].kind
          <6>1. job'[q] = job[q] /\ job[q].no \in 1..MaxBundle
            BY <2>6, <3>2, <4>2, BackupFacts, TaskFields
          <6>2. /\ job[q].no <= last
                /\ \A s \in Store : \A b \in bundles[s] : b.no = job[q].no => b.kind = job[q].kind
            BY <3>2, <6>1 DEF BackupInv, NumberInv
          <6> QED BY <2>2, <6>1, <6>2
        <5> QED BY <2>1, <2>2, <2>3, <2>5, <5>1
      <4> QED BY <4>1, <4>2
    <3>3. ASSUME NEW q \in Actor, NEW r \in Actor, q # r, job'[q].pc \in Numbered, job'[r].pc \in Numbered
          PROVE  job'[q].no # job'[r].no
      <4>1. \A a \in Actor \ {p} : job[a].pc \in Numbered => job[a].no \in Nat /\ job[a].no <= last
        BY BackupFacts, TaskFields DEF BackupInv, NumberInv
      <4> QED BY <2>2, <2>4, <2>6, <3>3, <4>1 DEF BackupInv, NumberInv
    <3> QED BY <3>1, <3>2, <3>3 DEF NumberInv
  <2>10. SweepInv'
    <3> SUFFICES ASSUME NEW q \in Actor, job'[q].pc = "delete" PROVE Expendable(bundles'[job'[q].to], job'[q].doomed)
      BY DEF SweepInv
    <3>1. q # p /\ job'[q] = job[q] /\ job[q].to \in Store
      BY <2>4, <2>6, BackupFacts, TaskFields
    <3>2. Expendable(bundles[job[q].to], job[q].doomed)
      BY <3>1 DEF BackupInv, SweepInv
    <3>3. /\ bundles[job[q].to] \subseteq Bundle /\ bundles'[job[q].to] \subseteq Bundle
          /\ \A k : Keys(bundles[job[q].to], k) \subseteq Keys(bundles'[job[q].to], k)
      BY <2>5, <3>1, BackupFacts DEF Keys
    <3> QED BY <3>1, <3>2, <3>3, ExpendableGrows
  <2> QED BY <2>7, <2>8, <2>9, <2>10 DEF BackupInv
<1>2. CASE ~ok
  <2>1. RunDone(p, FALSE) /\ UNCHANGED stores
    BY <1>0, <1>2 DEF Build, stores
  <2>2. PICK j \in Task : Becomes(p, j) /\ j.pc \in {"idle", "testdue"}
    BY <2>1, RunDoneTask
  <2>3. job' \in [Actor -> Task] /\ WholeKept' /\ NumberInv' /\ SweepInv'
    BY <2>1, <2>2, CalmStep DEF Numbered
  <2>4. daily' \in {"never", "fresh", "day", "late"}
    BY <2>1, RunDoneTask
  <2> QED BY <1>0, <2>1, <2>3, <2>4 DEF BackupInv, BackupTypeOK, stores, settings
<1> QED BY <1>1, <1>2

\* A step that changes one store, and the task of one actor.
LEMMA StoreStep ==
    ASSUME BackupInv, NEW p \in Actor, NEW j \in Task, Becomes(p, j), last' = last, NEW s \in Store,
           NEW C, C \subseteq Bundle, bundles' = [bundles EXCEPT ![s] = C],
           had \subseteq had', had' \subseteq had \cup {s},
           (\E b \in C : b.whole) \/ Cardinality(Halves(C)) >= Keep \/ (C = bundles[s] /\ had' = had),
           j.pc \in Numbered => job[p].pc \in Numbered /\ j.no = job[p].no /\ j.kind = job[p].kind,
           \A b \in C : b \in bundles[s] \/ (job[p].pc \in Numbered /\ b.no = job[p].no /\ b.kind = job[p].kind)
    PROVE  /\ job' \in [Actor -> Task] /\ bundles' \in [Store -> SUBSET Bundle] /\ had' \subseteq Store
           /\ WholeKept' /\ NumberInv'
<1>1. job' \in [Actor -> Task] /\ job'[p] = j /\ \A q \in Actor \ {p} : job'[q] = job[q]
  BY BackupFacts DEF Becomes
<1>2. bundles' \in [Store -> SUBSET Bundle] /\ bundles'[s] = C /\ \A t \in Store \ {s} : bundles'[t] = bundles[t]
  BY BackupFacts
<1>3. had' \subseteq Store
  BY DEF BackupInv, BackupTypeOK
<1>4. WholeKept'
  <2> SUFFICES ASSUME NEW t \in had' PROVE (\E b \in bundles'[t] : b.whole) \/ Cardinality({b \in bundles'[t] : ~b.whole}) >= Keep
    BY DEF WholeKept
  <2>1. CASE t = s
    BY <1>2, <2>1 DEF Halves, BackupInv, WholeKept
  <2>2. CASE t # s
    BY <1>2, <1>3, <2>2 DEF BackupInv, WholeKept
  <2> QED BY <2>1, <2>2
<1>5. NumberInv'
  <2>0. \A t \in Store : \A b \in bundles'[t] :
          b \in bundles[t] \/ (job[p].pc \in Numbered /\ b.no = job[p].no /\ b.kind = job[p].kind)
    BY <1>2
  <2>1. ASSUME NEW t \in Store, NEW b \in bundles'[t] PROVE b.no <= last'
    BY <2>0 DEF BackupInv, NumberInv
  <2>2. ASSUME NEW q \in Actor, job'[q].pc \in Numbered
        PROVE  /\ job'[q].no <= last'
               /\ \A t \in Store : \A b \in bundles'[t] : b.no = job'[q].no => b.kind = job'[q].kind
    <3>1. job[q].pc \in Numbered /\ job'[q].no = job[q].no /\ job'[q].kind = job[q].kind
      BY <1>1, <2>2
    <3>2. q # p /\ job[p].pc \in Numbered => job[q].no # job[p].no
      BY <3>1 DEF BackupInv, NumberInv
    <3> QED BY <2>0, <3>1, <3>2 DEF BackupInv, NumberInv
  <2>3. ASSUME NEW q \in Actor, NEW r \in Actor, q # r, job'[q].pc \in Numbered, job'[r].pc \in Numbered
        PROVE  job'[q].no # job'[r].no
    <3>1. \A a \in Actor : job'[a].pc \in Numbered => job[a].pc \in Numbered /\ job'[a].no = job[a].no
      BY <1>1
    <3> QED BY <2>3, <3>1 DEF BackupInv, NumberInv
  <2> QED BY <2>1, <2>2, <2>3 DEF NumberInv
<1> QED BY <1>1, <1>2, <1>3, <1>4, <1>5

LEMMA WrittenStep ==
    ASSUME BackupInv, NEW p \in Actor, NEW ok \in BOOLEAN, Written(p, ok)
    PROVE  BackupInv'
<1>0. /\ job[p].pc = "write" /\ job[p].pc \in Numbered /\ usedUp' \in [{"event", "fault"} -> Nat]
      /\ UNCHANGED <<last, settings, due, monthlyMade, owed, tested, shipped, alerted>>
  BY RiskType DEF Written, Numbered
<1>1. CASE ok /\ StillThere(p)
  <2> DEFINE x == IF job[p].to = "local" /\ offsite THEN "ship" ELSE "stamp"
             j == [job[p] EXCEPT !.pc = x]
             s == job[p].to
             new == [kind |-> job[p].kind, no |-> job[p].no, whole |-> TRUE]
             B == {b \in bundles[s] : b.no # job[p].no} \cup {new}
  <2>1. /\ bundles' = Stored(s, job[p].kind, job[p].no) /\ had' = had \cup {s} /\ everOk' = TRUE
        /\ Becomes(p, j) /\ daily' = daily
    BY <1>1 DEF Written
  <2>2. job[p] \in NumberedTask /\ s \in Store
    BY <1>0, BackupFacts, TaskFields
  <2>3. x \in Numbered /\ x # "delete"
    BY DEF Numbered
  <2> HIDE DEF x
  <2>4. j \in NumberedTask /\ j.pc = x /\ j.no = job[p].no /\ j.kind = job[p].kind
    BY <2>2, <2>3 DEF NumberedTask
  <2>5. j \in Task
    BY <2>4, TaskMade
  <2> HIDE DEF j, s
  <2>6. /\ bundles' = [bundles EXCEPT ![s] = B] /\ B \subseteq Bundle /\ new \in B /\ new.whole
        /\ \A k : Keys(bundles[s], k) \subseteq Keys(B, k)
        /\ \A b \in B : b = new \/ b \in bundles[s]
    BY <1>0, <2>1, <2>2, StoredKeys
  <2>7. new.no = job[p].no /\ new.kind = job[p].kind
    OBVIOUS
  <2> HIDE DEF new, B
  <2>8. /\ job' \in [Actor -> Task] /\ bundles' \in [Store -> SUBSET Bundle] /\ had' \subseteq Store
        /\ WholeKept' /\ NumberInv'
    <3>1. \A b \in B : b \in bundles[s] \/ (job[p].pc \in Numbered /\ b.no = job[p].no /\ b.kind = job[p].kind)
      BY <1>0, <2>6, <2>7
    <3>2. (\E b \in B : b.whole) /\ had \subseteq had' /\ had' \subseteq had \cup {s} /\ last' = last
      BY <1>0, <2>1, <2>6
    <3>3. Becomes(p, j) /\ bundles' = [bundles EXCEPT ![s] = B] /\ B \subseteq Bundle
      BY <2>1, <2>6
    <3>4. j.pc \in Numbered => job[p].pc \in Numbered /\ j.no = job[p].no /\ j.kind = job[p].kind
      BY <1>0, <2>4
    <3> QED BY <2>2, <2>5, <3>1, <3>2, <3>3, <3>4, StoreStep
  <2>9. SweepInv'
    BY <2>1, <2>2, <2>3, <2>4, <2>5, <2>6, SweepInvGrows
  <2>10. BackupTypeOK'
    BY <1>0, <2>1, <2>8 DEF BackupInv, BackupTypeOK, settings
  <2> QED BY <2>8, <2>9, <2>10 DEF BackupInv
<1>2. CASE ~(ok /\ StillThere(p))
  <2>1. RunDone(p, FALSE) /\ UNCHANGED stores /\ everOk' = everOk
    BY <1>0, <1>2 DEF Written, stores
  <2>2. PICK j \in Task : Becomes(p, j) /\ j.pc \in {"idle", "testdue"}
    BY <2>1, RunDoneTask
  <2>3. job' \in [Actor -> Task] /\ WholeKept' /\ NumberInv' /\ SweepInv'
    BY <2>1, <2>2, CalmStep DEF Numbered
  <2>4. daily' \in {"never", "fresh", "day", "late"}
    BY <2>1, RunDoneTask
  <2> QED BY <1>0, <2>1, <2>3, <2>4 DEF BackupInv, BackupTypeOK, stores, settings
<1> QED BY <1>1, <1>2

\* Deleting what is expendable in a store, seen from the lists of others.
LEMMA WithoutExpendable ==
    ASSUME NEW B, B \subseteq Bundle, NEW D, D \subseteq Name, Expendable(B, D)
    PROVE  /\ Without(B, D) \subseteq B
           /\ (\E b \in Without(B, D) : b.whole) \/ Cardinality(Halves(Without(B, D))) >= Keep \/ Without(B, D) = B
           /\ \A E \in SUBSET Name : Expendable(B, E) => Expendable(Without(B, D), E)
<1>1. Without(B, D) \subseteq B
  BY DEF Without
<1>2. CASE D = {}
  BY <1>2 DEF Without
<1>3. CASE D # {}
  BY <1>1, <1>3, SweepLeaves, SweepKeepsExpendable
<1> QED BY <1>2, <1>3

LEMMA ShipStep ==
    ASSUME BackupInv, NEW p \in Actor, NEW landed \in BOOLEAN, NEW checked \in BOOLEAN, ShipOffsite(p, landed, checked)
    PROVE  BackupInv'
<1> DEFINE new == [kind |-> job[p].kind, no |-> job[p].no, whole |-> TRUE]
           B == {b \in bundles["s3"] : b.no # job[p].no} \cup {new}
           C == IF ~landed THEN bundles["s3"] ELSE IF checked THEN Without(B, Doomed(B)) ELSE B
           y == IF job[p].plan = "timer" /\ landed /\ checked THEN "copied" ELSE job[p].plan
           j == [[job[p] EXCEPT !.pc = "stamp"] EXCEPT !.plan = y]
<1>0. /\ job[p].pc = "ship" /\ job[p].pc \in Numbered /\ usedUp' \in [{"event", "fault"} -> Nat]
      /\ UNCHANGED <<last, settings, daily, due, monthlyMade, owed, everOk, tested, alerted>>
  BY RiskType DEF ShipOffsite, age, Numbered
<1>1. job[p] \in NumberedTask /\ job[p].plan \in Plan /\ "s3" \in Store
  BY <1>0, BackupFacts, TaskFields DEF Store
<1>2. /\ Stored("s3", job[p].kind, job[p].no) = [bundles EXCEPT !["s3"] = B] /\ B \subseteq Bundle /\ new \in B /\ new.whole
      /\ \A k : Keys(bundles["s3"], k) \subseteq Keys(B, k)
      /\ \A b \in B : b = new \/ b \in bundles["s3"]
  BY <1>0, <1>1, StoredKeys
<1>3. new.no = job[p].no /\ new.kind = job[p].kind
  OBVIOUS
<1> HIDE DEF new, B
<1>4. bundles' = [bundles EXCEPT !["s3"] = C] /\ had' = (IF landed THEN had \cup {"s3"} ELSE had)
  <2>1. /\ bundles' = IF ~landed THEN bundles
                      ELSE IF checked THEN [[bundles EXCEPT !["s3"] = B] EXCEPT !["s3"] = Without(@, Doomed(@))]
                      ELSE [bundles EXCEPT !["s3"] = B]
        /\ had' = (IF landed THEN had \cup {"s3"} ELSE had)
    BY <1>2 DEF ShipOffsite, age
  <2>2. [[bundles EXCEPT !["s3"] = B] EXCEPT !["s3"] = Without(@, Doomed(@))] = [bundles EXCEPT !["s3"] = Without(B, Doomed(B))]
    BY <1>1, BackupFacts
  <2> QED BY <1>1, <2>1, <2>2, BackupFacts
<1>5. Becomes(p, j)
  <2>1. j = [job[p] EXCEPT !.pc = "stamp", !.plan = IF @ = "timer" /\ landed /\ checked THEN "copied" ELSE @]
    BY <1>1 DEF NumberedTask
  <2> HIDE DEF j
  <2> QED BY <2>1 DEF ShipOffsite, age
<1>6. y \in Plan
  BY <1>1 DEF Plan
<1> HIDE DEF y
<1>7. j \in NumberedTask /\ j.pc = "stamp" /\ j.no = job[p].no /\ j.kind = job[p].kind
  BY <1>1, <1>6 DEF NumberedTask, Numbered
<1>8. j \in Task
  BY <1>7, TaskMade
<1> HIDE DEF j
<1>9. shipped' \in BOOLEAN
  BY Zenon DEF ShipOffsite, age
<1>10. Doomed(B) \subseteq Name /\ Expendable(B, Doomed(B))
  BY DoomedExpendable
<1>11. /\ Without(B, Doomed(B)) \subseteq B
       /\ (\E b \in Without(B, Doomed(B)) : b.whole) \/ Cardinality(Halves(Without(B, Doomed(B)))) >= Keep \/ Without(B, Doomed(B)) = B
       /\ \A E \in SUBSET Name : Expendable(B, E) => Expendable(Without(B, Doomed(B)), E)
  BY <1>2, <1>10, WithoutExpendable
<1>12. /\ C \subseteq Bundle
       /\ (\E b \in C : b.whole) \/ Cardinality(Halves(C)) >= Keep \/ (C = bundles["s3"] /\ had' = had)
       /\ \A b \in C : b \in bundles["s3"] \/ b = new
       /\ \A E \in SUBSET Name : Expendable(bundles["s3"], E) => Expendable(C, E)
  <2>0. bundles["s3"] \subseteq Bundle /\ \A E \in SUBSET Name : Expendable(bundles["s3"], E) => Expendable(B, E)
    BY <1>1, <1>2, BackupFacts, ExpendableGrows
  <2>1. CASE ~landed
    BY <1>4, <2>0, <2>1
  <2>2. CASE landed /\ checked
    <3>1. C = Without(B, Doomed(B))
      BY <2>2
    <3> HIDE DEF C
    <3> QED BY <1>2, <1>11, <2>0, <3>1
  <2>3. CASE landed /\ ~checked
    <3>1. C = B
      BY <2>3
    <3> HIDE DEF C
    <3> QED BY <1>2, <2>0, <3>1
  <2> QED BY <2>1, <2>2, <2>3
<1> HIDE DEF C
<1>13. /\ job' \in [Actor -> Task] /\ bundles' \in [Store -> SUBSET Bundle] /\ had' \subseteq Store
       /\ WholeKept' /\ NumberInv'
  <2>1. \A b \in C : b \in bundles["s3"] \/ (job[p].pc \in Numbered /\ b.no = job[p].no /\ b.kind = job[p].kind)
    BY <1>0, <1>3, <1>12
  <2>2. had \subseteq had' /\ had' \subseteq had \cup {"s3"} /\ last' = last
    BY <1>0, <1>4
  <2> QED BY <1>0, <1>1, <1>4, <1>5, <1>7, <1>8, <1>12, <2>1, <2>2, StoreStep
<1>14. SweepInv'
  <2> SUFFICES ASSUME NEW q \in Actor, job'[q].pc = "delete" PROVE Expendable(bundles'[job'[q].to], job'[q].doomed)
    BY DEF SweepInv
  <2>1. q # p /\ job'[q] = job[q] /\ job[q].to \in Store /\ job[q].doomed \in SUBSET Name
    BY <1>5, <1>7, BackupFacts, TaskFields DEF Becomes
  <2>2. Expendable(bundles[job[q].to], job[q].doomed)
    BY <2>1 DEF BackupInv, SweepInv
  <2>3. CASE job[q].to = "s3"
    BY <1>4, <1>12, <2>1, <2>2, <2>3, BackupFacts
  <2>4. CASE job[q].to # "s3"
    BY <1>4, <2>1, <2>2, <2>4, BackupFacts
  <2> QED BY <2>3, <2>4
<1>15. BackupTypeOK'
  BY <1>0, <1>9, <1>13 DEF BackupInv, BackupTypeOK, settings
<1> QED BY <1>13, <1>14, <1>15 DEF BackupInv

LEMMA StampStep ==
    ASSUME BackupInv, NEW p \in Actor, Stamp(p)
    PROVE  BackupInv'
<1> DEFINE D == Doomed(bundles[job[p].to])
           j == [pc |-> "delete", plan |-> job[p].plan, kind |-> job[p].kind, to |-> job[p].to, doomed |-> D]
<1>0. /\ job[p].pc = "stamp" /\ job[p].pc \in Numbered /\ Becomes(p, j) /\ due' = due \ {job[p].kind}
      /\ daily' = (IF job[p].kind = "daily" THEN "fresh" ELSE daily)
      /\ UNCHANGED <<stores, settings, everOk, tested, shipped, alerted, usedUp>>
  BY DEF Stamp, Numbered
<1>8. monthlyMade' \in BOOLEAN /\ owed' \in BOOLEAN
  BY Zenon DEF Stamp
<1>1. job[p].plan \in Plan /\ job[p].kind \in Kind /\ job[p].to \in Store
  BY <1>0, BackupFacts, TaskFields
<1>2. D \subseteq Name /\ Expendable(bundles[job[p].to], D)
  BY DoomedExpendable
<1> HIDE DEF D
<1>3. j \in Task /\ j.pc = "delete" /\ j.to = job[p].to /\ j.doomed = D /\ j.pc \notin Numbered
  BY <1>1, <1>2, TaskMade DEF Numbered
<1> HIDE DEF j
<1>4. bundles' = bundles /\ last' = last /\ had' = had
  BY <1>0 DEF stores
<1>5. /\ job' \in [Actor -> Task] /\ bundles' \in [Store -> SUBSET Bundle] /\ had' \subseteq Store
      /\ WholeKept' /\ NumberInv'
  <2>1. bundles' = [bundles EXCEPT !["local"] = bundles["local"]] /\ "local" \in Store /\ bundles["local"] \subseteq Bundle
    BY <1>4, BackupFacts DEF Store
  <2> QED BY <1>0, <1>3, <1>4, <2>1, StoreStep
<1>6. SweepInv'
  <2> SUFFICES ASSUME NEW q \in Actor, job'[q].pc = "delete" PROVE Expendable(bundles[job'[q].to], job'[q].doomed)
    BY <1>4 DEF SweepInv
  <2>1. CASE q = p
    <3>1. job'[q] = j
      BY <1>0, <2>1, BackupFacts DEF Becomes
    <3> QED BY <1>2, <1>3, <3>1
  <2>2. CASE q # p
    <3>1. job'[q] = job[q]
      BY <1>0, <2>2, BackupFacts DEF Becomes
    <3> QED BY <3>1 DEF BackupInv, SweepInv
  <2> QED BY <2>1, <2>2
<1>7. BackupTypeOK'
  BY <1>0, <1>4, <1>5, <1>8 DEF BackupInv, BackupTypeOK, settings
<1> QED BY <1>5, <1>6, <1>7 DEF BackupInv

LEMMA SweepStep ==
    ASSUME BackupInv, NEW p \in Actor, Sweep(p)
    PROVE  BackupInv'
<1> DEFINE s == job[p].to
           B == bundles[s]
           D == job[p].doomed
           C == Without(B, D)
<1>0. /\ job[p].pc = "delete" /\ bundles' = [bundles EXCEPT ![s] = C] /\ RunDone(p, TRUE)
      /\ UNCHANGED <<last, had, settings, due, monthlyMade, owed, everOk, tested, shipped, alerted, usedUp>>
  BY DEF Sweep
<1>1. s \in Store /\ D \subseteq Name /\ B \subseteq Bundle /\ Expendable(B, D)
  BY <1>0, BackupFacts, TaskFields DEF BackupInv, SweepInv
<1>2. PICK j \in Task : Becomes(p, j) /\ j.pc \in {"idle", "testdue"}
  BY <1>0, RunDoneTask
<1>3. j.pc \notin Numbered /\ j.pc # "delete"
  BY <1>2 DEF Numbered
<1>4. /\ C \subseteq B
      /\ (\E b \in C : b.whole) \/ Cardinality(Halves(C)) >= Keep \/ C = B
      /\ \A E \in SUBSET Name : Expendable(B, E) => Expendable(C, E)
  BY <1>1, WithoutExpendable
<1> HIDE DEF C
<1>5. /\ job' \in [Actor -> Task] /\ bundles' \in [Store -> SUBSET Bundle] /\ had' \subseteq Store
      /\ WholeKept' /\ NumberInv'
  <2>1. C \subseteq Bundle /\ (\A b \in C : b \in bundles[s]) /\ had' = had /\ last' = last
    BY <1>0, <1>1, <1>4
  <2>2. (\E b \in C : b.whole) \/ Cardinality(Halves(C)) >= Keep \/ (C = bundles[s] /\ had' = had)
    BY <1>4, <2>1
  <2>3. bundles' = [bundles EXCEPT ![s] = C]
    BY <1>0
  <2> HIDE DEF s
  <2> QED BY <1>1, <1>2, <1>3, <2>1, <2>2, <2>3, StoreStep
<1>6. SweepInv'
  <2> SUFFICES ASSUME NEW q \in Actor, job'[q].pc = "delete" PROVE Expendable(bundles'[job'[q].to], job'[q].doomed)
    BY DEF SweepInv
  <2>1. q # p /\ job'[q] = job[q] /\ job[q].to \in Store /\ job[q].doomed \in SUBSET Name
    BY <1>2, <1>3, BackupFacts, TaskFields DEF Becomes
  <2>2. Expendable(bundles[job[q].to], job[q].doomed)
    BY <2>1 DEF BackupInv, SweepInv
  <2>3. CASE job[q].to = s
    BY <1>0, <1>4, <2>1, <2>2, <2>3, BackupFacts
  <2>4. CASE job[q].to # s
    BY <1>0, <2>1, <2>2, <2>4, BackupFacts
  <2> QED BY <2>3, <2>4
<1>7. BackupTypeOK'
  <2>1. daily' \in {"never", "fresh", "day", "late"}
    BY <1>0, RunDoneTask
  <2> QED BY <1>0, <1>5, <2>1 DEF BackupInv, BackupTypeOK, settings
<1> QED BY <1>5, <1>6, <1>7 DEF BackupInv

\* A step that leaves the stores alone and gives an actor a calm task.
LEMMA CalmTypes ==
    ASSUME BackupInv, UNCHANGED <<stores, settings, monthlyMade, owed, everOk, shipped>>,
           NEW p \in Actor, NEW j \in Task, Becomes(p, j), j.pc \in {"idle", "build", "test", "get", "testdue", "offdue"},
           daily' \in {"never", "fresh", "day", "late"}, due' \subseteq Interval, alerted' \subseteq Finding,
           tested' \in [{"main", "offbox"} -> {"never", "ok", "failed"}], usedUp' \in [{"event", "fault"} -> Nat]
    PROVE  BackupInv'
<1>1. job' \in [Actor -> Task] /\ WholeKept' /\ NumberInv' /\ SweepInv'
  <2>1. UNCHANGED stores /\ j.pc \notin Numbered \cup {"delete"}
    BY DEF Numbered
  <2> QED BY <2>1, CalmStep
<1>2. BackupTypeOK'
  BY <1>1 DEF BackupInv, BackupTypeOK, stores, settings
<1> QED BY <1>1, <1>2 DEF BackupInv

LEMMA BackupTypes ==
    ASSUME BackupInv
    PROVE  /\ daily \in {"never", "fresh", "day", "late"} /\ due \subseteq Interval /\ alerted \subseteq Finding
           /\ tested \in [{"main", "offbox"} -> {"never", "ok", "failed"}] /\ usedUp \in [{"event", "fault"} -> Nat]
  BY DEF BackupInv, BackupTypeOK

LEMMA TestListStep ==
    ASSUME BackupInv, NEW p \in Actor, TestList(p)
    PROVE  BackupInv'
<1> DEFINE s == IF job[p].what = "main" THEN backend ELSE "s3"
           L == Latest(bundles[s])
           j == [pc |-> "get", plan |-> job[p].plan, what |-> job[p].what, from |-> s, pick |-> L]
<1>1. /\ job[p].pc = "test" /\ Becomes(p, j)
      /\ UNCHANGED <<stores, settings, daily, due, monthlyMade, owed, everOk, tested, shipped, alerted, usedUp>>
  BY DEF TestList, age
<1>2. job[p].plan \in Plan /\ job[p].what \in {"main", "offbox"} /\ s \in Store
  BY <1>1, BackupFacts, TaskFields DEF Store
<1> HIDE DEF s
<1>3. L \in SUBSET Name
  <2>1. bundles[s] \subseteq Bundle
    BY <1>2, BackupFacts
  <2> QED BY <2>1 DEF Latest, Name, Bundle
<1> HIDE DEF L
<1>4. j \in Task /\ j.pc = "get"
  BY <1>2, <1>3, TaskMade
<1> HIDE DEF j
<1> QED BY <1>1, <1>4, BackupTypes, CalmTypes

LEMMA TestGetStep ==
    ASSUME BackupInv, NEW p \in Actor, NEW ok \in BOOLEAN, TestGet(p, ok)
    PROVE  BackupInv'
<1> DEFINE good == ok /\ Restorable(p)
           j == AfterTest(p, good)
           v == IF good THEN "ok" ELSE "failed"
           i == IF job[p].what = "main" THEN "test" ELSE "offtest"
<1>1. /\ job[p].pc = "get" /\ Becomes(p, j) /\ due' = due \ {i} /\ tested' = [tested EXCEPT ![job[p].what] = v]
      /\ usedUp' \in [{"event", "fault"} -> Nat]
      /\ UNCHANGED <<stores, settings, daily, monthlyMade, owed, everOk, shipped, alerted>>
  BY RiskType DEF TestGet, TestedAs
<1>2. job[p].plan \in Plan
  BY <1>1, BackupFacts, TaskFields
<1>3. v \in {"ok", "failed"}
  OBVIOUS
<1> HIDE DEF v
<1>4. due' \subseteq Interval /\ tested' \in [{"main", "offbox"} -> {"never", "ok", "failed"}]
  BY <1>1, <1>3, BackupTypes
<1>5. j \in Task /\ j.pc \in {"idle", "offdue"}
  <2>1. CASE job[p].what = "main" /\ (job[p].plan = "schedule" \/ (job[p].plan = "copied" /\ good))
    <3>1. j = [pc |-> "offdue", plan |-> job[p].plan] /\ job[p].plan \in Plan \ {"page"}
      BY <1>2, <2>1 DEF AfterTest
    <3> HIDE DEF j
    <3> QED BY <3>1, TaskMade
  <2>2. CASE ~(job[p].what = "main" /\ (job[p].plan = "schedule" \/ (job[p].plan = "copied" /\ good)))
    <3>1. j = Idle /\ Idle.pc = "idle"
      BY <2>2 DEF AfterTest, Idle
    <3> QED BY <3>1, TaskMade
  <2> QED BY <2>1, <2>2
<1> HIDE DEF j
<1> QED BY <1>1, <1>4, <1>5, BackupTypes, CalmTypes

LEMMA TestDueStep ==
    ASSUME BackupInv, NEW p \in Actor, TestDue(p) \/ OffDue(p)
    PROVE  BackupInv'
<1>1. /\ job[p].plan \in Plan /\ job[p].plan \in Plan \ {"page"}
      /\ UNCHANGED <<stores, settings, daily, due, monthlyMade, owed, everOk, tested, shipped, alerted, usedUp>>
  BY BackupFacts, TaskFields DEF TestDue, age, OffDue, age
<1>2. /\ \A w \in {"main", "offbox"} : NewTest(job[p].plan, w) \in Task /\ NewTest(job[p].plan, w).pc = "test"
      /\ [pc |-> "offdue", plan |-> job[p].plan] \in Task /\ Idle \in Task /\ Idle.pc = "idle"
  BY <1>1, TaskMade DEF NewTest, Idle
<1>3. \E j \in Task : Becomes(p, j) /\ j.pc \in {"idle", "test", "offdue"}
  <2>1. CASE TestDue(p)
    <3>1. Becomes(p, NewTest(job[p].plan, "main")) \/ Becomes(p, [pc |-> "offdue", plan |-> job[p].plan])
      BY <2>1 DEF TestDue, age
    <3> QED BY <1>2, <3>1
  <2>2. CASE OffDue(p)
    <3>1. Becomes(p, NewTest(job[p].plan, "offbox")) \/ Becomes(p, Idle)
      BY <2>2 DEF OffDue, age
    <3> QED BY <1>2, <3>1
  <2> QED BY <2>1, <2>2
<1>4. PICK j \in Task : Becomes(p, j) /\ j.pc \in {"idle", "test", "offdue"}
  BY <1>3
<1> QED BY <1>1, <1>4, BackupTypes, CalmTypes

LEMMA HourlyStep ==
    ASSUME BackupInv, Hourly
    PROVE  BackupInv'
<1>1. /\ Poller \in Actor /\ "schedule" \in Plan /\ "schedule" \in Plan \ {"page"} /\ {"monthly", "daily"} \subseteq Kind
      /\ alerted' \subseteq Finding /\ UNCHANGED <<stores, settings, daily, due, monthlyMade, owed, everOk, tested, shipped, usedUp>>
  BY DEF Hourly, age, Findings, Finding, Actor, Plan, Kind
<1>2. /\ NewRun("schedule", "monthly") \in Task /\ NewRun("schedule", "monthly").pc = "build"
      /\ NewRun("schedule", "daily") \in Task /\ NewRun("schedule", "daily").pc = "build"
      /\ [pc |-> "testdue", plan |-> "schedule"] \in Task /\ Idle \in Task /\ Idle.pc = "idle"
  BY <1>1, TaskMade DEF NewRun, Idle
<1>3. \/ Becomes(Poller, Idle) \/ Becomes(Poller, NewRun("schedule", "monthly"))
      \/ Becomes(Poller, NewRun("schedule", "daily")) \/ Becomes(Poller, [pc |-> "testdue", plan |-> "schedule"])
  <2>1. CASE ~enabled
    BY <2>1 DEF Hourly, age
  <2>2. CASE enabled /\ "monthly" \in due
    BY <2>2 DEF Hourly, age
  <2>3. CASE enabled /\ "monthly" \notin due /\ DailyDue
    BY <2>3 DEF Hourly, age
  <2>4. CASE enabled /\ "monthly" \notin due /\ ~DailyDue
    BY <2>4 DEF Hourly, age
  <2> QED BY <2>1, <2>2, <2>3, <2>4
<1>4. PICK j \in Task : Becomes(Poller, j) /\ j.pc \in {"idle", "build", "testdue"}
  BY <1>2, <1>3
<1> QED BY <1>1, <1>4, BackupTypes, CalmTypes

LEMMA AskedStep ==
    ASSUME BackupInv, NEW j \in Task, j.pc \in {"build", "test"}, Asked(j)
    PROVE  BackupInv'
<1>1. /\ Other \in Actor /\ Becomes(Other, j) /\ usedUp' \in [{"event", "fault"} -> Nat]
      /\ UNCHANGED <<stores, settings, daily, due, monthlyMade, owed, everOk, tested, shipped, alerted>>
  BY UsesType DEF Asked, age, Actor
<1> QED BY <1>1, BackupTypes, CalmTypes

LEMMA StopsStep ==
    ASSUME BackupInv, NEW p \in Actor, Stops(p)
    PROVE  BackupInv'
<1>1. /\ Becomes(p, Idle) /\ usedUp' \in [{"event", "fault"} -> Nat] /\ Idle \in Task /\ Idle.pc = "idle"
      /\ UNCHANGED <<stores, settings, daily, due, monthlyMade, owed, everOk, tested, shipped, alerted>>
  BY UsesType, TaskMade DEF Stops, age, Idle
<1> QED BY <1>1, BackupTypes, CalmTypes

LEMMA SettingStep ==
    ASSUME BackupInv, NEW e \in BOOLEAN, NEW o \in BOOLEAN, NEW b \in Store, SaveSettings(e, b, o)
    PROVE  BackupInv'
<1>1. /\ UNCHANGED <<stores, job, daily, due, monthlyMade, owed, everOk, tested, shipped, alerted>>
      /\ usedUp' \in [{"event", "fault"} -> Nat] /\ enabled' = e /\ backend' = b /\ offsite' = o
  BY UsesType DEF SaveSettings, age
<1>2. job' \in [Actor -> Task] /\ WholeKept' /\ NumberInv' /\ SweepInv'
  BY <1>1, SameStep
<1>3. BackupTypeOK'
  BY <1>1, <1>2 DEF BackupInv, BackupTypeOK, stores
<1> QED BY <1>2, <1>3 DEF BackupInv

LEMMA ClockStep ==
    ASSUME BackupInv, DayPasses \/ FirstEnds \/ \E i \in Interval : TimePasses(i)
    PROVE  BackupInv'
<1>1. /\ UNCHANGED <<stores, settings, job, everOk, tested, shipped, alerted>>
      /\ usedUp' \in [{"event", "fault"} -> Nat]
      /\ daily' \in {"never", "fresh", "day", "late"} /\ due' \subseteq Interval
  BY UsesType, BackupTypes DEF DayPasses, TimePasses, FirstEnds
<1>4. monthlyMade' \in BOOLEAN /\ owed' \in BOOLEAN
  BY DEF DayPasses, TimePasses, FirstEnds, BackupInv, BackupTypeOK
<1>2. job' \in [Actor -> Task] /\ WholeKept' /\ NumberInv' /\ SweepInv'
  BY <1>1, SameStep
<1>3. BackupTypeOK'
  BY <1>1, <1>2, <1>4 DEF BackupInv, BackupTypeOK, stores, settings
<1> QED BY <1>2, <1>3 DEF BackupInv

LEMMA BackupStep ==
    ASSUME BackupInv, [BackupNext]_backupVars
    PROVE  BackupInv'
<1>1. ASSUME NEW p \in Actor, Go(p) PROVE BackupInv'
  <2>1. CASE \E ok \in BOOLEAN : Build(p, ok) \/ Written(p, ok) \/ TestGet(p, ok)
    BY <2>1, BuildStep, WrittenStep, TestGetStep
  <2>2. CASE \E l, c \in BOOLEAN : ShipOffsite(p, l, c)
    BY <2>2, ShipStep
  <2>3. CASE Stamp(p) \/ Sweep(p) \/ TestList(p) \/ TestDue(p) \/ OffDue(p)
    BY <2>3, StampStep, SweepStep, TestListStep, TestDueStep
  <2> QED BY <1>1, <2>1, <2>2, <2>3 DEF Go
<1>2. ASSUME NEW p \in Actor, Stops(p) PROVE BackupInv'
  BY <1>2, StopsStep
<1>3. CASE TimerFires \/ (\E k \in Kind : PageRuns(k)) \/ (\E w \in {"main", "offbox"} : PageTests(w))
  <2>1. /\ \A plan \in Plan, k \in Kind : NewRun(plan, k) \in Task /\ NewRun(plan, k).pc = "build"
        /\ \A plan \in Plan, w \in {"main", "offbox"} : NewTest(plan, w) \in Task /\ NewTest(plan, w).pc = "test"
    BY TaskMade DEF NewRun, NewTest
  <2>2. "timer" \in Plan /\ "page" \in Plan /\ "daily" \in Kind
    BY DEF Plan, Kind
  <2>3. \E j \in Task : j.pc \in {"build", "test"} /\ Asked(j)
    BY <1>3, <2>1, <2>2 DEF TimerFires, PageRuns, PageTests
  <2> QED BY <2>3, AskedStep
<1>4. CASE \E e, o \in BOOLEAN, b \in Store : SaveSettings(e, b, o)
  BY <1>4, SettingStep
<1>5. CASE Hourly \/ DayPasses \/ FirstEnds \/ \E i \in Interval : TimePasses(i)
  BY <1>5, HourlyStep, ClockStep
<1>6. CASE UNCHANGED backupVars
  <2>1. UNCHANGED <<stores, settings, job, daily, due, monthlyMade, owed, everOk, tested, shipped, alerted, usedUp>>
    BY <1>6 DEF backupVars, age
  <2>2. job' \in [Actor -> Task] /\ WholeKept' /\ NumberInv' /\ SweepInv'
    BY <2>1, SameStep
  <2>3. BackupTypeOK'
    BY <2>1, <2>2 DEF BackupInv, BackupTypeOK, stores, settings
  <2> QED BY <2>2, <2>3 DEF BackupInv
<1> QED BY <1>1, <1>2, <1>3, <1>4, <1>5, <1>6 DEF BackupNext

\* apply_retention: for every number of bundles kept, however the poller's
\* runs, the timer's and the page's overlap, fail and stop, a store that
\* ever had a whole bundle keeps one, or holds Keep halves at least.
THEOREM StoresStaySound == BackupSpec => []StoresSound
<1>1. BackupInit => BackupInv
  BY BackupStart
<1>2. BackupInv /\ [BackupNext]_backupVars => BackupInv'
  BY BackupStep
<1>3. BackupInv => StoresSound
  BY DEF BackupInv, StoresSound
<1> QED BY <1>1, <1>2, <1>3, PTL DEF BackupSpec

=============================================================================
