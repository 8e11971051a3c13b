-------------------------- MODULE AdmissionProofs --------------------------
(***************************************************************************)
(* Theorems about Admission, for any values, rules, sources, readers and   *)
(* bounds: its type invariant, and the three promises of _desired_from_db  *)
(* that hold however its queries interleave with other threads.            *)
(***************************************************************************)
EXTENDS Admission, TLAPS

-----------------------------------------------------------------------------
(* The tables *)

\* More rules and more located addresses match more values.
LEMMA MatchedMonotone ==
    ASSUME NEW R, NEW R2, NEW G, NEW G2, R \subseteq R2, G \subseteq G2
    PROVE  Matched(R, G) \subseteq Matched(R2, G2)
BY DEF Matched, Matches

\* A new row is pending: it approves nothing and hides no other row.
LEMMA QueuedTexts ==
    ASSUME queue \in Seq(QueueRow), NEW x \in Text, NEW by \in {"run", "api"}, Queued(x, by)
    PROVE  /\ queue' \in Seq(QueueRow)
           /\ ApprovedTexts' \subseteq ApprovedTexts
           /\ SeenTexts \subseteq SeenTexts'
<1> DEFINE row == [text |-> x, status |-> "pending", by |-> by]
<1>1. row \in QueueRow
  BY DEF QueueRow
<1>2. queue' = Append(queue, row)
  BY DEF Queued
<1> HIDE DEF row
<1>3. queue' \in Seq(QueueRow) /\ Len(queue') = Len(queue) + 1
  BY <1>1, <1>2
<1>4. /\ DOMAIN queue = 1..Len(queue) /\ DOMAIN queue' = 1..(Len(queue) + 1)
      /\ Len(queue) \in Nat
  BY <1>3
<1>5. \A i \in DOMAIN queue : queue'[i] = queue[i]
  BY <1>1, <1>2, <1>4
<1>6. queue'[Len(queue) + 1] = row
  BY <1>1, <1>2
<1>7. \A i \in DOMAIN queue' : i \in DOMAIN queue \/ i = Len(queue) + 1
  BY <1>4
<1>8. ApprovedTexts' \subseteq ApprovedTexts
  <2>1. row.status # "approved"
    BY DEF row
  <2> QED
    BY <1>5, <1>6, <1>7, <2>1 DEF ApprovedTexts, WithStatus
<1>9. SeenTexts \subseteq SeenTexts'
  BY <1>4, <1>5 DEF SeenTexts, WithStatus
<1> QED
  BY <1>3, <1>8, <1>9

\* A decision approves at most the value of its row, and every row stays.
LEMMA DecidedTexts ==
    ASSUME queue \in Seq(QueueRow), NEW i \in DOMAIN queue,
           NEW status \in {"approved", "rejected"},
           queue' = [queue EXCEPT ![i].status = status]
    PROVE  /\ queue' \in Seq(QueueRow)
           /\ queue[i].text \in Text
           /\ ApprovedTexts' \subseteq
                ApprovedTexts \cup (IF status = "approved" THEN {queue[i].text} ELSE {})
           /\ SeenTexts \subseteq SeenTexts'
<1>1. queue[i] \in QueueRow
  OBVIOUS
<1> DEFINE row == [queue[i] EXCEPT !.status = status]
<1>2. row \in QueueRow /\ row.text = queue[i].text /\ row.status = status
  BY <1>1 DEF QueueRow
<1>3. queue' = [queue EXCEPT ![i] = row]
  OBVIOUS
<1> HIDE DEF row
<1>4. queue' \in Seq(QueueRow) /\ DOMAIN queue' = DOMAIN queue
  BY <1>2, <1>3
<1>5. /\ queue'[i] = row
      /\ \A j \in DOMAIN queue \ {i} : queue'[j] = queue[j]
  BY <1>3
<1>6. ApprovedTexts' \subseteq
        ApprovedTexts \cup (IF status = "approved" THEN {queue[i].text} ELSE {})
  BY <1>2, <1>4, <1>5 DEF ApprovedTexts, WithStatus
<1>7. SeenTexts \subseteq SeenTexts'
  BY <1>2, <1>4, <1>5 DEF SeenTexts, WithStatus
<1>8. queue[i].text \in Text
  BY <1>1 DEF QueueRow
<1> QED
  BY <1>4, <1>6, <1>7, <1>8

\* The values read from the tables are values.
LEMMA TextsAreTexts ==
    ASSUME queue \in Seq(QueueRow)
    PROVE  ApprovedTexts \subseteq Text /\ SeenTexts \subseteq Text
<1>1. \A i \in DOMAIN queue : queue[i] \in QueueRow
  OBVIOUS
<1> QED
  BY <1>1 DEF ApprovedTexts, SeenTexts, WithStatus, QueueRow

\* Rules match values.
LEMMA MatchedTexts ==
    ASSUME NEW R, NEW G
    PROVE  Matched(R, G) \subseteq Text
BY DEF Matched

-----------------------------------------------------------------------------
(* Type correctness *)

LEMMA InitTypeOK == Init => TypeOK
<1> SUFFICES ASSUME Init PROVE TypeOK
  OBVIOUS
<1>1. Idle \in ReadState
  BY DEF Idle, ReadState
<1>2. queue \in Seq(QueueRow)
  BY DEF Init
<1>3. /\ live \in [Text -> SUBSET (Source \cup {External})]
      /\ seen \in [Text -> SUBSET Source]
  BY DEF Init
<1>4. read \in [Reader -> ReadState]
  BY <1>1 DEF Init
<1> QED
  BY <1>2, <1>3, <1>4 DEF Init, TypeOK

\* A step of a reader changes its own locals, within their type.
LEMMA ReaderType ==
    ASSUME TypeOK, NEW r \in Reader, Begin(r) \/ Reads(r) \/ ReadFails(r)
    PROVE  /\ read' \in [Reader -> ReadState]
           /\ desired' \in SUBSET Text
           /\ queue' \in Seq(QueueRow)
           /\ events' \in Nat
           /\ UNCHANGED <<tables, settings, rejecting>>
<1>1. /\ read[r] \in ReadState /\ Idle \in ReadState
      /\ read \in [Reader -> ReadState] /\ desired \in SUBSET Text
      /\ queue \in Seq(QueueRow) /\ events \in Nat
      /\ threshold \in Nat /\ semi \in BOOLEAN
  BY DEF TypeOK, Idle, ReadState
<1>2. /\ ApprovedTexts \subseteq Text /\ SeenTexts \subseteq Text
      /\ Matched(rules, located) \subseteq Text
  BY <1>1, TextsAreTexts, MatchedTexts
<1>3. ASSUME NEW k \in ReadState, Becomes(r, k) PROVE read' \in [Reader -> ReadState]
  BY <1>1, <1>3 DEF Becomes
<1>4. CASE Begin(r)
  <2>1. [Idle EXCEPT !.pc = "rows", !.threshold = threshold,
                     !.spared = Matched(rules, located),
                     !.denied = Text \ ApprovedTexts,
                     !.known = SeenTexts, !.strict = semi] \in ReadState
    BY <1>1, <1>2 DEF Idle, ReadState
  <2>2. read' \in [Reader -> ReadState]
    BY <1>3, <1>4, <2>1 DEF Begin
  <2> QED
    BY <1>1, <1>4, <2>2 DEF Begin, Event
<1>5. CASE ReadRows(r)
  <2> DEFINE C == {x \in Text : Qualifies(x, read[r].threshold)}
             k == [read[r] EXCEPT !.pc = IF C = {} THEN "done" ELSE "rules", !.cand = C]
  <2>1. C \in SUBSET Text
    OBVIOUS
  <2>2. k \in ReadState
    <3> HIDE DEF C
    <3> QED
      BY <1>1, <2>1 DEF ReadState
  <2>3. Becomes(r, k)
    BY <1>5 DEF ReadRows
  <2> HIDE DEF k
  <2>4. read' \in [Reader -> ReadState]
    BY <1>3, <2>2, <2>3
  <2> QED
    BY <1>1, <1>5, <2>4 DEF ReadRows, Quiet
<1>6. CASE ReadRules(r)
  <2>1. [read[r] EXCEPT !.pc = "mode", !.cand = @ \ Matched(rules, located)] \in ReadState
    BY <1>1 DEF ReadState
  <2>2. read' \in [Reader -> ReadState]
    BY <1>3, <1>6, <2>1 DEF ReadRules
  <2> QED
    BY <1>1, <1>6, <2>2 DEF ReadRules, Quiet
<1>7. CASE ReadMode(r)
  <2>1. [read[r] EXCEPT !.pc = IF semi THEN "approved" ELSE "done"] \in ReadState
    BY <1>1 DEF ReadState
  <2>2. read' \in [Reader -> ReadState]
    BY <1>3, <1>7, <2>1 DEF ReadMode
  <2> QED
    BY <1>1, <1>7, <2>2 DEF ReadMode, Quiet
<1>8. CASE ReadApproved(r)
  <2>1. [read[r] EXCEPT !.pc = "seen", !.approved = ApprovedTexts] \in ReadState
    BY <1>1, <1>2 DEF ReadState
  <2>2. read' \in [Reader -> ReadState]
    BY <1>3, <1>8, <2>1 DEF ReadApproved
  <2> QED
    BY <1>1, <1>8, <2>2 DEF ReadApproved, Quiet
<1>9. CASE ReadSeen(r)
  <2>1. [read[r] EXCEPT !.pc = "queue", !.todo = Unseen(read[r])] \in ReadState
    BY <1>1 DEF ReadState, Unseen
  <2>2. read' \in [Reader -> ReadState]
    BY <1>3, <1>9, <2>1 DEF ReadSeen
  <2> QED
    BY <1>1, <1>9, <2>2 DEF ReadSeen, Quiet
<1>10. CASE QueueNext(r)
  <2>1. PICK x \in read[r].todo :
              Queued(x, "run") /\ Becomes(r, [read[r] EXCEPT !.todo = @ \ {x}])
    BY <1>10 DEF QueueNext
  <2>2. x \in Text /\ [read[r] EXCEPT !.todo = @ \ {x}] \in ReadState
    BY <1>1 DEF ReadState
  <2>3. read' \in [Reader -> ReadState]
    BY <1>3, <2>1, <2>2
  <2>4. queue' \in Seq(QueueRow)
    BY <1>1, <2>1, <2>2, QueuedTexts
  <2> QED
    BY <1>1, <1>10, <2>3, <2>4 DEF QueueNext, Quiet
<1>11. CASE AllQueued(r)
  <2>1. [read[r] EXCEPT !.pc = "done", !.cand = @ \cap read[r].approved] \in ReadState
    BY <1>1 DEF ReadState
  <2>2. read' \in [Reader -> ReadState]
    BY <1>3, <1>11, <2>1 DEF AllQueued
  <2> QED
    BY <1>1, <1>11, <2>2 DEF AllQueued, Quiet
<1>12. CASE Use(r)
  <2>1. read' \in [Reader -> ReadState]
    BY <1>1, <1>3, <1>12 DEF Use
  <2>2. desired' \in SUBSET Text
    BY <1>1, <1>12 DEF Use, ReadState
  <2> QED
    BY <1>1, <1>12, <2>1, <2>2 DEF Use, Quiet
<1>13. CASE ReadFails(r)
  <2>1. read' \in [Reader -> ReadState]
    BY <1>1, <1>3, <1>13 DEF ReadFails
  <2> QED
    BY <1>1, <1>13, <2>1 DEF ReadFails, Event
<1> QED
  BY <1>4, <1>5, <1>6, <1>7, <1>8, <1>9, <1>10, <1>11, <1>12, <1>13 DEF Reads

\* One step keeps the types.
LEMMA NextTypeOK == TypeOK /\ [Next]_vars => TypeOK'
<1> SUFFICES ASSUME TypeOK, [Next]_vars PROVE TypeOK'
  OBVIOUS
<1> USE AdmissionAssumption
<1>0. \A r \in Reader : read[r] \in ReadState
  BY DEF TypeOK
<1>1. ASSUME NEW r \in Reader, Begin(r) \/ Reads(r) \/ ReadFails(r) PROVE TypeOK'
  <2>1. /\ read' \in [Reader -> ReadState] /\ desired' \in SUBSET Text
        /\ queue' \in Seq(QueueRow) /\ events' \in Nat
        /\ UNCHANGED <<tables, settings, rejecting>>
    BY <1>1, ReaderType
  <2> QED
    BY <2>1 DEF TypeOK, tables, settings
<1>2. ASSUME NEW x \in Text, NEW s \in Source,
             SourceBans(s, x) \/ SourceEnds(s, x) \/ NoteAges(s, x)
      PROVE  TypeOK'
  <2>1. CASE SourceBans(s, x)
    BY <2>1 DEF TypeOK, SourceBans, Event, settings
  <2>2. CASE SourceEnds(s, x)
    BY <2>2 DEF TypeOK, SourceEnds, Event, settings
  <2>3. CASE NoteAges(s, x)
    BY <2>3 DEF TypeOK, NoteAges, Event, settings
  <2> QED
    BY <1>2, <2>1, <2>2, <2>3
<1>3. ASSUME NEW x \in Text, NEW ask \in BOOLEAN, ExternalBan(x, ask) PROVE TypeOK'
  <2>1. Prefixed[x] \in Text
    OBVIOUS
  <2>2. queue' \in Seq(QueueRow)
    BY <1>3, <2>1, QueuedTexts DEF ExternalBan, TypeOK
  <2>3. live' \in [Text -> SUBSET (Source \cup {External})]
    BY <1>3, <2>1 DEF ExternalBan, TypeOK
  <2> QED
    BY <1>3, <2>2, <2>3 DEF TypeOK, ExternalBan, Event, settings
<1>4. ASSUME NEW x \in Text, Unban(x) \/ Locate(x) \/ RejectRule(x) PROVE TypeOK'
  <2>1. CASE Unban(x)
    BY <2>1 DEF TypeOK, Unban, Event, settings
  <2>2. CASE Locate(x)
    BY <2>2 DEF TypeOK, Locate, Event, settings
  <2>3. CASE RejectRule(x)
    BY <2>3 DEF TypeOK, RejectRule, Rule, tables
  <2> QED
    BY <1>4, <2>1, <2>2, <2>3
<1>5. ASSUME NEW w \in Rule, AddRule(w) \/ DropRule(w) PROVE TypeOK'
  <2>1. CASE AddRule(w)
    BY <2>1 DEF TypeOK, AddRule, Event, tables
  <2>2. CASE DropRule(w)
    <3>1. \A r \in Reader :
            [read[r] EXCEPT !.spared = @ \cap Matched(rules \ {w}, located)] \in ReadState
      BY <1>0 DEF ReadState
    <3>2. read' \in [Reader -> ReadState]
      BY <2>2, <3>1 DEF DropRule
    <3>3. rules' \in SUBSET Rule /\ events' \in Nat
      BY <2>2 DEF TypeOK, DropRule, Event
    <3> QED
      BY <2>2, <3>2, <3>3 DEF TypeOK, DropRule, tables
  <2> QED
    BY <1>5, <2>1, <2>2
<1>6. CASE ToggleMode
  <2>1. ASSUME NEW r \in Reader PROVE [read[r] EXCEPT !.strict = FALSE] \in ReadState
    <3>1. read[r] \in ReadState
      BY <1>0
    <3> QED
      BY <3>1 DEF ReadState
  <2>2. read' \in [Reader -> ReadState]
    BY <1>6, <2>1 DEF ToggleMode
  <2> QED
    BY <1>6, <2>2 DEF TypeOK, ToggleMode, Event, tables
<1>7. ASSUME NEW n \in 1..MaxThreshold, SetThreshold(n) PROVE TypeOK'
  BY <1>7 DEF TypeOK, SetThreshold, Event, tables
<1>8. ASSUME NEW i \in DOMAIN queue, NEW status \in {"approved", "rejected"}, Decide(i, status)
      PROVE  TypeOK'
  <2>1. queue' \in Seq(QueueRow) /\ queue[i].text \in Text
    BY <1>8, DecidedTexts DEF Decide, TypeOK
  <2>2. \A r \in Reader :
          [read[r] EXCEPT !.denied = IF status = "approved" THEN @ \ {queue[i].text} ELSE @]
             \in ReadState
    BY <1>0 DEF ReadState
  <2>3. read' \in [Reader -> ReadState]
    BY <1>8, <2>2 DEF Decide
  <2> QED
    BY <1>8, <2>1, <2>3 DEF TypeOK, Decide, Event, tables, settings
<1>9. CASE Restart
  <2>1. Idle \in ReadState
    BY DEF Idle, ReadState
  <2> QED
    BY <1>9, <2>1 DEF TypeOK, Restart, Event, tables, settings
<1>10. CASE UNCHANGED vars
  BY <1>10 DEF TypeOK, vars
<1>11. Bans => TypeOK'
  BY <1>2, <1>3, <1>4 DEF Bans
<1>12. Operator => TypeOK'
  BY <1>5, <1>6, <1>7, <1>8 DEF Operator
<1> QED
  BY <1>1, <1>4, <1>9, <1>10, <1>11, <1>12 DEF Next

\* Every table, setting and local of _desired_from_db keeps its type.
THEOREM TypeCorrect == Spec => []TypeOK
BY InitTypeOK, NextTypeOK, PTL DEF Spec

-----------------------------------------------------------------------------
(* The promises *)

\* What a reader r can rely on at each of its steps: the history it carries
\* still describes the tables, and what it has read so far agrees with it.
Keeps(r) ==
    /\ read[r].spared \subseteq Matched(rules, located)
    /\ Filtered(read[r]) => read[r].cand \cap read[r].spared = {}
    /\ read[r].strict => semi
    /\ read[r].denied \cap ApprovedTexts = {}
    /\ read[r].approved \cap read[r].denied = {}
    /\ read[r].pc = "done" /\ read[r].strict => read[r].cand \cap read[r].denied = {}
    /\ read[r].known \subseteq SeenTexts
    /\ read[r].todo \cap read[r].known = {}

SafeInv == TypeOK /\ \A r \in Reader : Keeps(r)

\* A thread that is not in a read has nothing to keep.
LEMMA IdleKeeps ==
    ASSUME NEW r \in Reader, read'[r] = Idle
    PROVE  Keeps(r)'
BY DEF Keeps, Idle, Filtered

\* Nobody else's step hurts a reader as long as rules are only added, nothing
\* is approved and the mode stays SEMI-AUTO.
LEMMA OthersKeep ==
    ASSUME NEW r \in Reader, Keeps(r), read'[r] = read[r],
           rules \subseteq rules', located \subseteq located', semi => semi',
           ApprovedTexts' \subseteq ApprovedTexts, SeenTexts \subseteq SeenTexts'
    PROVE  Keeps(r)'
<1>1. Matched(rules, located) \subseteq Matched(rules', located')
  BY MatchedMonotone
<1> QED
  BY <1>1 DEF Keeps, Filtered

\* If the queue stays, so do the values read from it.
LEMMA QueueStays ==
    ASSUME queue' = queue
    PROVE  ApprovedTexts' = ApprovedTexts /\ SeenTexts' = SeenTexts
BY DEF ApprovedTexts, SeenTexts, WithStatus

\* The first state has no reader.
LEMMA InitSafe == Init => SafeInv
<1> SUFFICES ASSUME Init PROVE SafeInv
  OBVIOUS
<1>1. ASSUME NEW r \in Reader PROVE Keeps(r)
  BY DEF Init, Keeps, Idle, Filtered
<1> QED
  BY <1>1, InitTypeOK DEF SafeInv

\* A reader's step leaves the others alone and keeps what it relies on.
LEMMA ReaderSafe ==
    ASSUME SafeInv, NEW r \in Reader, Begin(r) \/ Reads(r) \/ ReadFails(r)
    PROVE  \A s \in Reader : Keeps(s)'
<1>1. /\ read \in [Reader -> ReadState] /\ read[r] \in ReadState
      /\ queue \in Seq(QueueRow) /\ Keeps(r)
  BY DEF SafeInv, TypeOK
<1>2. /\ rules' = rules /\ located' = located /\ semi' = semi
      /\ ApprovedTexts' \subseteq ApprovedTexts /\ SeenTexts \subseteq SeenTexts'
  <2>1. rules' = rules /\ located' = located /\ semi' = semi
    BY ReaderType DEF SafeInv, tables, settings
  <2>2. CASE QueueNext(r)
    <3>1. PICK x \in read[r].todo : Queued(x, "run")
      BY <2>2 DEF QueueNext
    <3>2. x \in Text
      BY <1>1 DEF ReadState
    <3> QED
      BY <1>1, <2>1, <3>1, <3>2, QueuedTexts
  <2>3. CASE ~QueueNext(r)
    <3>1. queue' = queue
      BY <2>3 DEF Begin, Reads, ReadFails, ReadRows, ReadRules, ReadMode, ReadApproved,
                  ReadSeen, AllQueued, Use
    <3> QED
      BY <2>1, <3>1, QueueStays
  <2> QED
    BY <2>2, <2>3
<1>3. PICK k : read' = [read EXCEPT ![r] = k]
  BY DEF Begin, Reads, ReadFails, ReadRows, ReadRules, ReadMode, ReadApproved, ReadSeen,
         QueueNext, AllQueued, Use, Becomes
<1>4. ASSUME NEW s \in Reader, s # r PROVE Keeps(s)'
  <2>1. read'[s] = read[s] /\ Keeps(s)
    BY <1>1, <1>3, <1>4 DEF SafeInv
  <2> QED
    BY <1>2, <2>1, OthersKeep
<1>5. ASSUME NEW j, Becomes(r, j) PROVE read'[r] = j
  BY <1>1, <1>5 DEF Becomes
<1>6. Keeps(r)'
  <2>1. CASE Begin(r)
    <3>1. read'[r] = [Idle EXCEPT !.pc = "rows", !.threshold = threshold,
                        !.spared = Matched(rules, located), !.denied = Text \ ApprovedTexts,
                        !.known = SeenTexts, !.strict = semi]
      BY <1>5, <2>1 DEF Begin
    <3> QED
      BY <1>2, <3>1 DEF Keeps, Idle, Filtered
  <2>2. CASE ReadRows(r)
    <3> DEFINE C == {x \in Text : Qualifies(x, read[r].threshold)}
    <3>1. read'[r] = [read[r] EXCEPT !.pc = IF C = {} THEN "done" ELSE "rules", !.cand = C]
      BY <1>5, <2>2 DEF ReadRows
    <3> HIDE DEF C
    <3> QED
      BY <1>1, <1>2, <3>1 DEF Keeps, Filtered, ReadState
  <2>3. CASE ReadRules(r)
    <3>1. read'[r] = [read[r] EXCEPT !.pc = "mode", !.cand = @ \ Matched(rules, located)]
      BY <1>5, <2>3 DEF ReadRules
    <3> QED
      BY <1>1, <1>2, <3>1 DEF Keeps, Filtered, ReadState
  <2>4. CASE ReadMode(r)
    <3>1. read'[r] = [read[r] EXCEPT !.pc = IF semi THEN "approved" ELSE "done"]
      BY <1>5, <2>4 DEF ReadMode
    <3>2. Filtered(read[r])
      BY <2>4 DEF ReadMode, Filtered
    <3> QED
      BY <1>1, <1>2, <3>1, <3>2 DEF Keeps, Filtered, ReadState
  <2>5. CASE ReadApproved(r)
    <3>1. read'[r] = [read[r] EXCEPT !.pc = "seen", !.approved = ApprovedTexts]
      BY <1>5, <2>5 DEF ReadApproved
    <3>2. Filtered(read[r])
      BY <2>5 DEF ReadApproved, Filtered
    <3> QED
      BY <1>1, <1>2, <3>1, <3>2 DEF Keeps, Filtered, ReadState
  <2>6. CASE ReadSeen(r)
    <3>1. read'[r] = [read[r] EXCEPT !.pc = "queue", !.todo = Unseen(read[r])]
      BY <1>5, <2>6 DEF ReadSeen
    <3>2. Filtered(read[r]) /\ Unseen(read[r]) \cap SeenTexts = {}
      BY <2>6 DEF ReadSeen, Filtered, Unseen
    <3> QED
      BY <1>1, <1>2, <3>1, <3>2 DEF Keeps, Filtered, ReadState
  <2>7. CASE QueueNext(r)
    <3>1. PICK x \in read[r].todo : read'[r] = [read[r] EXCEPT !.todo = @ \ {x}]
      BY <1>5, <2>7 DEF QueueNext
    <3> QED
      BY <1>1, <1>2, <3>1 DEF Keeps, Filtered, ReadState
  <2>8. CASE AllQueued(r)
    <3>1. read'[r] = [read[r] EXCEPT !.pc = "done", !.cand = @ \cap read[r].approved]
      BY <1>5, <2>8 DEF AllQueued
    <3>2. Filtered(read[r])
      BY <2>8 DEF AllQueued, Filtered
    <3> QED
      BY <1>1, <1>2, <3>1, <3>2 DEF Keeps, Filtered, ReadState
  <2>9. CASE Use(r) \/ ReadFails(r)
    BY <1>5, <2>9, IdleKeeps DEF Use, ReadFails
  <2> QED
    BY <2>1, <2>2, <2>3, <2>4, <2>5, <2>6, <2>7, <2>8, <2>9 DEF Reads
<1> QED
  BY <1>4, <1>6

\* One step keeps every reader's promises.
LEMMA NextSafe == SafeInv /\ [Next]_vars => SafeInv'
<1> SUFFICES ASSUME SafeInv, [Next]_vars PROVE SafeInv'
  OBVIOUS
<1> DEFINE Safe == \A s \in Reader : Keeps(s)'
<1>1. TypeOK /\ TypeOK' /\ \A s \in Reader : Keeps(s) /\ read[s] \in ReadState
  <2>1. TypeOK /\ TypeOK' /\ \A s \in Reader : Keeps(s)
    BY NextTypeOK DEF SafeInv
  <2> QED
    BY <2>1 DEF TypeOK
<1>2. ASSUME read' = read, rules \subseteq rules', located \subseteq located', semi' = semi,
             ApprovedTexts' \subseteq ApprovedTexts, SeenTexts \subseteq SeenTexts'
      PROVE  Safe
  BY <1>1, <1>2, OthersKeep
<1>3. ASSUME NEW r \in Reader, Begin(r) \/ Reads(r) \/ ReadFails(r) PROVE Safe
  BY <1>3, ReaderSafe
<1>4. ASSUME NEW x \in Text, NEW s \in Source,
             SourceBans(s, x) \/ SourceEnds(s, x) \/ NoteAges(s, x)
      PROVE  Safe
  <2>1. queue' = queue /\ read' = read /\ rules' = rules /\ located' = located /\ semi' = semi
    BY <1>4 DEF SourceBans, SourceEnds, NoteAges, settings
  <2> QED
    BY <1>2, <2>1, QueueStays
<1>5. ASSUME NEW x \in Text, NEW ask \in BOOLEAN, ExternalBan(x, ask) PROVE Safe
  <2>1. read' = read /\ rules' = rules /\ located' = located /\ semi' = semi
    BY <1>5 DEF ExternalBan, settings
  <2>2. Prefixed[x] \in Text
    BY AdmissionAssumption
  <2>3. queue' = queue \/ Queued(Prefixed[x], "api")
    BY <1>5 DEF ExternalBan
  <2>4. ApprovedTexts' \subseteq ApprovedTexts /\ SeenTexts \subseteq SeenTexts'
    BY <1>1, <2>2, <2>3, QueueStays, QueuedTexts DEF TypeOK
  <2> QED
    BY <1>2, <2>1, <2>4
<1>6. ASSUME NEW x \in Text, Unban(x) \/ Locate(x) \/ RejectRule(x) PROVE Safe
  <2>1. /\ queue' = queue /\ read' = read /\ semi' = semi
        /\ rules \subseteq rules' /\ located \subseteq located'
    BY <1>6 DEF Unban, Locate, RejectRule, settings, tables
  <2> QED
    BY <1>2, <2>1, QueueStays
<1>7. ASSUME NEW w \in Rule, AddRule(w) \/ DropRule(w) PROVE Safe
  <2>1. CASE AddRule(w)
    <3>1. /\ queue' = queue /\ read' = read /\ semi' = semi
          /\ rules \subseteq rules' /\ located \subseteq located'
      BY <2>1 DEF AddRule, tables
    <3> QED
      BY <1>2, <3>1, QueueStays
  <2>2. CASE DropRule(w)
    <3>1. ApprovedTexts' = ApprovedTexts /\ SeenTexts' = SeenTexts
      BY <2>2, QueueStays DEF DropRule
    <3>2. rules' = rules \ {w} /\ located' = located /\ semi' = semi
      BY <2>2 DEF DropRule, tables
    <3> SUFFICES ASSUME NEW s \in Reader PROVE Keeps(s)'
      OBVIOUS
    <3>3. read'[s] = [read[s] EXCEPT !.spared = @ \cap Matched(rules', located')]
      BY <2>2, <3>2 DEF DropRule
    <3> QED
      BY <1>1, <3>1, <3>2, <3>3 DEF Keeps, Filtered, ReadState
  <2> QED
    BY <1>7, <2>1, <2>2
<1>8. ASSUME ToggleMode PROVE Safe
  <2>1. /\ ApprovedTexts' = ApprovedTexts /\ SeenTexts' = SeenTexts
        /\ rules' = rules /\ located' = located
    BY <1>8, QueueStays DEF ToggleMode, tables
  <2>2. ASSUME NEW s \in Reader PROVE Keeps(s)'
    <3>1. read'[s] = [read[s] EXCEPT !.strict = FALSE]
      BY <1>8 DEF ToggleMode
    <3> QED
      BY <1>1, <2>1, <3>1 DEF Keeps, Filtered, ReadState
  <2> QED
    BY <2>2
<1>9. ASSUME NEW n \in 1..MaxThreshold, SetThreshold(n) PROVE Safe
  <2>1. queue' = queue /\ read' = read /\ rules' = rules /\ located' = located /\ semi' = semi
    BY <1>9 DEF SetThreshold, tables
  <2> QED
    BY <1>2, <2>1, QueueStays
<1>10. ASSUME NEW i \in DOMAIN queue, NEW status \in {"approved", "rejected"}, Decide(i, status)
       PROVE  Safe
  <2>1. /\ rules' = rules /\ located' = located /\ semi' = semi
        /\ queue' = [queue EXCEPT ![i].status = status]
    BY <1>10 DEF Decide, tables, settings
  <2>2. /\ ApprovedTexts' \subseteq
              ApprovedTexts \cup (IF status = "approved" THEN {queue[i].text} ELSE {})
        /\ SeenTexts \subseteq SeenTexts'
    BY <1>1, <2>1, DecidedTexts DEF TypeOK
  <2> SUFFICES ASSUME NEW s \in Reader PROVE Keeps(s)'
    OBVIOUS
  <2>3. read'[s] = [read[s] EXCEPT
                      !.denied = IF status = "approved" THEN @ \ {queue[i].text} ELSE @]
    BY <1>10 DEF Decide
  <2> QED
    BY <1>1, <2>1, <2>2, <2>3 DEF Keeps, Filtered, ReadState
<1>11. ASSUME Restart PROVE Safe
  BY <1>11, IdleKeeps DEF Restart
<1>12. ASSUME UNCHANGED vars PROVE Safe
  BY <1>2, <1>12, QueueStays DEF vars
<1> HIDE DEF Safe
<1>13. Bans => Safe
  BY <1>4, <1>5, <1>6 DEF Bans
<1>14. Operator => Safe
  BY <1>7, <1>8, <1>9, <1>10 DEF Operator
<1>15. Safe
  BY <1>3, <1>6, <1>11, <1>12, <1>13, <1>14 DEF Next
<1> QED
  BY <1>1, <1>15 DEF Safe, SafeInv

\* The inductive invariant holds in every reachable state.
LEMMA AlwaysSafe == Spec => []SafeInv
BY InitSafe, NextSafe, PTL DEF Spec

\* For any number of readers: no run is handed a value that some whitelist rule
\* has matched since before its read began (the filter of _desired_from_db).
THEOREM WhitelistIsHonoured == Spec => []WhitelistHonoured
<1>1. SafeInv => WhitelistHonoured
  BY DEF SafeInv, Keeps, WhitelistHonoured
<1> QED
  BY <1>1, AlwaysSafe, PTL

\* For any number of readers: while the mode is SEMI-AUTO no run is handed a
\* value that nobody approved (the last filter of _desired_from_db).
THEOREM ApprovalIsHonoured == Spec => []ApprovalHonoured
<1>1. SafeInv => ApprovalHonoured
  BY DEF SafeInv, Keeps, ApprovalHonoured
<1> QED
  BY <1>1, AlwaysSafe, PTL

\* For any number of readers: a value that had a row in the queue when a read
\* began is not queued again by it (the guard before queue_decision).
THEOREM NeverRequeued == Spec => []NotRequeued
<1>1. SafeInv => NotRequeued
  BY DEF SafeInv, Keeps, NotRequeued
<1> QED
  BY <1>1, AlwaysSafe, PTL
=============================================================================
