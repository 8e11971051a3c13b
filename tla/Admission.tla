----------------------------- MODULE Admission -----------------------------
(***************************************************************************)
(* Which bans the targets get: reconciler._desired_from_db with the        *)
(* whitelist, the approval queue, the consensus threshold and the bans     *)
(* that come in by API.                                                    *)
(*                                                                         *)
(* A reader is a thread inside _desired_from_db (the poller's run or a     *)
(* manual one).  Its queries are separate statements, and between them     *)
(* sources pull, operators edit rules, decide and switch the mode, and     *)
(* another reader queues.  Location data is read with the rules, as one    *)
(* step: it only grows.                                                    *)
(***************************************************************************)
EXTENDS Integers, Sequences, FiniteSets

CONSTANTS
    Text,       \* values of decisions, as spelled
    Bare,       \* those that ipaddress.ip_address accepts: no prefix length
    Addr,       \* what a value stands for
    Norm,       \* the address of a text
    Prefixed,   \* str(ip_network(x)): the spelling the API stores
    Wide,       \* whitelist rules of kind cidr, asn and country
    Covers,     \* the addresses such a rule covers
    ByGeo,      \* those of kind asn and country
    Source,     \* federated sources
    External,   \* origin_source of bans that came in by API
    Reader,     \* threads that may be inside _desired_from_db
    Poller,     \* the poller's thread
    MaxThreshold,  \* ten
    MaxEvents   \* bound: everything the surroundings do

ASSUME AdmissionAssumption ==
    /\ Bare \subseteq Text
    /\ Norm \in [Text -> Addr]
    /\ Prefixed \in [Text -> Text \ Bare]
    /\ \A x \in Text : Norm[Prefixed[x]] = Norm[x]
    /\ Covers \in [Wide -> SUBSET Addr]
    /\ ByGeo \subseteq Wide /\ Wide \cap Text = {}
    /\ External \notin Source
    /\ Poller \in Reader
    /\ MaxThreshold \in Nat /\ MaxEvents \in Nat

VARIABLES
    live,       \* who has a live row of each value in `decisions`
    seen,       \* ip_sources rows of the last seven days
    located,    \* addresses in geo_cache
    rules,      \* unexpired rows of `whitelist`
    semi,       \* settings.approval_required
    threshold,  \* federation.confidence_threshold
    queue,      \* rows of `approval_queue`, by id; none is ever deleted
    rejecting,  \* values whose rejection is stored and whose rule is not yet
    read,       \* the locals of each reader
    desired,    \* what the poller's last run got
    events

vars == <<live, seen, located, rules, semi, threshold, queue, rejecting, read, desired, events>>

tables   == <<live, seen, located>>
settings == <<rules, semi, threshold>>
-----------------------------------------------------------------------------
Rule == Bare \cup Wide

\* by: who queued the value, a reader or the API.
QueueRow == [text : Text, status : {"pending", "approved", "rejected"}, by : {"run", "api"}]

\* spared, denied, known and strict are history: the values some rule has
\* matched, and those no approval has covered, ever since the read began; the
\* values that had a row when it began; whether the mode was SEMI-AUTO all along.
ReadState ==
    [pc : {"idle", "rows", "rules", "mode", "approved", "seen", "queue", "done"},
     threshold : Nat, cand : SUBSET Text, approved : SUBSET Text,
     todo : SUBSET Text, spared : SUBSET Text, denied : SUBSET Text, known : SUBSET Text,
     strict : BOOLEAN]

Idle == [pc |-> "idle", threshold |-> 1, cand |-> {}, approved |-> {}, todo |-> {},
         spared |-> {}, denied |-> {}, known |-> {}, strict |-> FALSE]

TypeOK ==
    /\ live \in [Text -> SUBSET (Source \cup {External})]
    /\ seen \in [Text -> SUBSET Source]
    /\ located \in SUBSET Bare
    /\ rules \in SUBSET Rule
    /\ semi \in BOOLEAN /\ threshold \in Nat
    /\ queue \in Seq(QueueRow)
    /\ rejecting \in SUBSET Text
    /\ read \in [Reader -> ReadState]
    /\ desired \in SUBSET Text
    /\ events \in Nat

-----------------------------------------------------------------------------
(* The queries *)

\* The SELECT of _desired_from_db for threshold n.
Qualifies(x, n) == live[x] # {} /\ (n > 1 => Cardinality(seen[x]) >= n)

\* matches_whitelist: an ip rule compares texts, a cidr rule needs a text that
\* is an address, asn and country rules need its location.
Matches(x, R, G) ==
    /\ x \in Bare
    /\ \/ x \in R
       \/ \E w \in R \cap Wide : Norm[x] \in Covers[w] /\ (w \in ByGeo => x \in G)

Matched(R, G) == {x \in Text : Matches(x, R, G)}

WithStatus(S) == {queue[i].text : i \in {j \in DOMAIN queue : queue[j].status \in S}}

\* Mutant: any row that was not rejected lets a value through.
ApprovedTextsLax == WithStatus({"approved", "pending"})

ApprovedTexts == WithStatus({"approved"})

\* Mutant: only rows that wait count as seen.
SeenTextsPending == WithStatus({"pending"})

SeenTexts == WithStatus({"pending", "approved", "rejected"})

-----------------------------------------------------------------------------
(* _desired_from_db *)

Becomes(r, k) == read' = [read EXCEPT ![r] = k]

\* Whatever the surroundings do uses up one event.
Event == events < MaxEvents /\ events' = events + 1

Quiet == UNCHANGED <<tables, settings, rejecting, events>>

\* The threshold is read first.  The poller runs in every cycle, another thread
\* when somebody asks for it.
Begin(r) ==
    /\ read[r].pc = "idle"
    /\ Becomes(r, [Idle EXCEPT !.pc = "rows", !.threshold = threshold,
                               !.spared = Matched(rules, located),
                               !.denied = Text \ ApprovedTexts,
                               !.known = SeenTexts, !.strict = semi])
    /\ IF r = Poller THEN UNCHANGED events ELSE Event
    /\ UNCHANGED <<tables, settings, queue, rejecting, desired>>

\* No row, no further query.
ReadRows(r) ==
    /\ read[r].pc = "rows"
    /\ LET C == {x \in Text : Qualifies(x, read[r].threshold)} IN
       Becomes(r, [read[r] EXCEPT !.pc = IF C = {} THEN "done" ELSE "rules", !.cand = C])
    /\ Quiet /\ UNCHANGED <<queue, desired>>

ReadRules(r) ==
    /\ read[r].pc = "rules"
    /\ Becomes(r, [read[r] EXCEPT !.pc = "mode", !.cand = @ \ Matched(rules, located)])
    /\ Quiet /\ UNCHANGED <<queue, desired>>

\* Mutant: in AUTO mode the unfiltered rows are returned.
ReadModeUnfiltered(r) ==
    /\ read[r].pc = "mode"
    /\ Becomes(r, IF semi THEN [read[r] EXCEPT !.pc = "approved"]
                          ELSE [read[r] EXCEPT !.pc = "done", !.cand = {x \in Text : live[x] # {}}])
    /\ Quiet /\ UNCHANGED <<queue, desired>>

ReadMode(r) ==
    /\ read[r].pc = "mode"
    /\ Becomes(r, [read[r] EXCEPT !.pc = IF semi THEN "approved" ELSE "done"])
    /\ Quiet /\ UNCHANGED <<queue, desired>>

ReadApproved(r) ==
    /\ read[r].pc = "approved"
    /\ Becomes(r, [read[r] EXCEPT !.pc = "seen", !.approved = ApprovedTexts])
    /\ Quiet /\ UNCHANGED <<queue, desired>>

Unseen(k) == k.cand \ (k.approved \cup SeenTexts)

ReadSeen(r) ==
    /\ read[r].pc = "seen"
    /\ Becomes(r, [read[r] EXCEPT !.pc = "queue", !.todo = Unseen(read[r])])
    /\ Quiet /\ UNCHANGED <<queue, desired>>

\* queue_decision
Queued(x, by) == queue' = Append(queue, [text |-> x, status |-> "pending", by |-> by])

QueueNext(r) ==
    /\ read[r].pc = "queue"
    /\ \E x \in read[r].todo :
          /\ Queued(x, "run")
          /\ Becomes(r, [read[r] EXCEPT !.todo = @ \ {x}])
    /\ Quiet /\ UNCHANGED desired

AllQueued(r) ==
    /\ read[r].pc = "queue" /\ read[r].todo = {}
    /\ Becomes(r, [read[r] EXCEPT !.pc = "done", !.cand = @ \cap read[r].approved])
    /\ Quiet /\ UNCHANGED <<queue, desired>>

\* run_once goes on with the list.
Use(r) ==
    /\ read[r].pc = "done"
    /\ desired' = IF r = Poller THEN read[r].cand ELSE desired
    /\ Becomes(r, Idle)
    /\ Quiet /\ UNCHANGED queue

Reads(r) ==
    ReadRows(r) \/ ReadRules(r) \/ ReadMode(r) \/ ReadApproved(r) \/ ReadSeen(r)
       \/ QueueNext(r) \/ AllQueued(r) \/ Use(r)

-----------------------------------------------------------------------------
(* The surroundings *)

\* A pull upserts a row and notes the source, in one step here (its statements
\* are in Mirror), or tombstones one;
\* after seven days without either the note no longer counts.
SourceBans(s, x) ==
    /\ Event
    /\ live' = [live EXCEPT ![x] = @ \cup {s}]
    /\ seen' = [seen EXCEPT ![x] = @ \cup {s}]
    /\ UNCHANGED <<located, settings, queue, rejecting, read, desired>>

SourceEnds(s, x) ==
    /\ Event
    /\ s \in live[x]
    /\ live' = [live EXCEPT ![x] = @ \ {s}]
    /\ UNCHANGED <<seen, located, settings, queue, rejecting, read, desired>>

NoteAges(s, x) ==
    /\ Event
    /\ s \in seen[x]
    /\ seen' = [seen EXCEPT ![x] = @ \ {s}]
    /\ UNCHANGED <<live, located, settings, queue, rejecting, read, desired>>

\* POST /api/external/decisions: a ban that needs approval is only queued.
ExternalBan(x, ask) ==
    /\ Event
    /\ IF ask \/ semi
       THEN Queued(Prefixed[x], "api") /\ UNCHANGED live
       ELSE live' = [live EXCEPT ![Prefixed[x]] = @ \cup {External}] /\ UNCHANGED queue
    /\ UNCHANGED <<seen, located, settings, rejecting, read, desired>>

\* The UPDATE of /decisions/bulk and of DELETE /api/v1/decisions/by-ip.
Unban(x) ==
    /\ Event
    /\ live[x] # {}
    /\ live' = [live EXCEPT ![x] = {}]
    /\ UNCHANGED <<seen, located, settings, queue, rejecting, read, desired>>

\* Mutant: networks are located too.
LocateAny(x) ==
    /\ Event
    /\ live[x] # {}
    /\ located' = located \cup {x}
    /\ UNCHANGED <<live, seen, settings, queue, rejecting, read, desired>>

\* The geo worker asks for values that have a live row; the service (external)
\* answers for single addresses.
Locate(x) ==
    /\ Event
    /\ x \in Bare /\ live[x] # {}
    /\ located' = located \cup {x}
    /\ UNCHANGED <<live, seen, settings, queue, rejecting, read, desired>>

\* Whitelist forms and API, and the first half of a bulk whitelist (whose
\* other half is Unban).  A rule goes when it is deleted or runs out.
AddRule(w) ==
    /\ Event
    /\ rules' = rules \cup {w}
    /\ UNCHANGED <<tables, semi, threshold, queue, rejecting, read, desired>>

DropRule(w) ==
    /\ Event
    /\ w \in rules
    /\ rules' = rules \ {w}
    /\ read' = [r \in Reader |-> [read[r] EXCEPT !.spared = @ \cap Matched(rules \ {w}, located)]]
    /\ UNCHANGED <<tables, semi, threshold, queue, rejecting, desired>>

ToggleMode ==
    /\ Event
    /\ semi' = ~semi
    /\ read' = [r \in Reader |-> [read[r] EXCEPT !.strict = FALSE]]
    /\ UNCHANGED <<tables, rules, threshold, queue, rejecting, desired>>

SetThreshold(n) ==
    /\ Event
    /\ threshold' = n
    /\ UNCHANGED <<tables, rules, semi, queue, rejecting, read, desired>>

\* approvals_decide on any row, decided or not: the row first, then, for a
\* rejection, an ip rule, which add_whitelist refuses for a prefixed text.
Decide(i, status) ==
    /\ Event
    /\ queue' = [queue EXCEPT ![i].status = status]
    /\ rejecting' = IF status = "rejected" THEN rejecting \cup {queue[i].text} ELSE rejecting
    /\ read' = [r \in Reader |->
                  [read[r] EXCEPT !.denied = IF status = "approved" THEN @ \ {queue[i].text} ELSE @]]
    /\ UNCHANGED <<tables, settings, desired>>

RejectRule(x) ==
    /\ x \in rejecting
    /\ rejecting' = rejecting \ {x}
    /\ rules' = rules \cup ({x} \cap Bare)
    /\ UNCHANGED <<tables, semi, threshold, queue, read, desired, events>>

\* A statement raises, and with it run_once.
ReadFails(r) ==
    /\ Event
    /\ read[r].pc # "idle"
    /\ Becomes(r, Idle)
    /\ UNCHANGED <<tables, settings, queue, rejecting, desired>>

Restart ==
    /\ Event
    /\ read' = [r \in Reader |-> Idle]
    /\ rejecting' = {}
    /\ UNCHANGED <<tables, settings, queue, desired>>

-----------------------------------------------------------------------------
Init ==
    /\ live = [x \in Text |-> {}] /\ seen = [x \in Text |-> {}] /\ located = {}
    /\ rules = {} /\ semi \in BOOLEAN /\ threshold = 1
    /\ queue = <<>> /\ rejecting = {}
    /\ read = [r \in Reader |-> Idle]
    /\ desired = {} /\ events = 0

Bans ==
    \E x \in Text :
        \/ \E s \in Source : SourceBans(s, x) \/ SourceEnds(s, x) \/ NoteAges(s, x)
        \/ \E ask \in BOOLEAN : ExternalBan(x, ask)
        \/ Unban(x) \/ Locate(x)

Operator ==
    \/ \E w \in Rule : AddRule(w) \/ DropRule(w)
    \/ ToggleMode
    \/ \E n \in 1..MaxThreshold : SetThreshold(n)
    \/ \E i \in DOMAIN queue, status \in {"approved", "rejected"} : Decide(i, status)

Next ==
    \/ \E r \in Reader : Begin(r) \/ Reads(r) \/ ReadFails(r)
    \/ Bans \/ Operator \/ (\E x \in Text : RejectRule(x)) \/ Restart

Spec == Init /\ [][Next]_vars

\* The poller starts a run in every cycle, and no thread stops between two of
\* its steps.
FairSpec ==
    /\ Spec
    /\ WF_vars(Begin(Poller))
    /\ \A r \in Reader : WF_vars(Reads(r))
    /\ \A x \in Text : WF_vars(RejectRule(x))

-----------------------------------------------------------------------------
(* Properties *)

Filtered(k) == k.pc \in {"mode", "approved", "seen", "queue", "done"}

\* A run is never handed a value that some whitelist rule has matched since
\* before its read began, whatever rules, mode and queue did meanwhile.
WhitelistHonoured == \A r \in Reader : Filtered(read[r]) => read[r].cand \cap read[r].spared = {}

\* In SEMI-AUTO mode a run is handed no value that nobody approved, however
\* its queries and the operators' decisions interleave.
ApprovalHonoured ==
    \A r \in Reader : read[r].pc = "done" /\ read[r].strict => read[r].cand \cap read[r].denied = {}

\* "so we don't re-queue them": a reader queues no value that had a row, of
\* whatever status, when its read began.
NotRequeued == \A r \in Reader : read[r].todo \cap read[r].known = {}

\* What the filters of _desired_from_db let through.
Admissible ==
    {x \in Text : Qualifies(x, threshold) /\ ~Matches(x, rules, located) /\ (semi => x \in ApprovedTexts)}

\* What the help promises the targets: of these, no value whose address a
\* rule matches in any spelling ("must never block", help/catalog.json:377),
\* and none that was rejected ("stays unblocked even in AUTO mode", :402).
Promised ==
    {x \in Admissible :
        /\ \A y \in Text : Norm[y] = Norm[x] => ~Matches(y, rules, located)
        /\ x \notin WithStatus({"rejected"})}

\* Once nothing changes, the poller's runs get all that is promised and
\* nothing the filters stop: a new rule, a switch of the mode, a changed
\* threshold all reach the targets.  Between the two lie prefixed spellings:
\* of them the runs do get whitelisted addresses and, in AUTO mode, rejected
\* ones.  In SEMI-AUTO mode a ban that is held back then waits in the queue
\* for a decision, unless it was rejected; also when a run died while it was
\* queueing.
Settles ==
    /\ <>[](Promised \subseteq desired /\ desired \subseteq Admissible)
    /\ <>[](semi => \A x \in Text :
                Qualifies(x, threshold) /\ ~Matches(x, rules, located) =>
                    x \in desired \cup WithStatus({"pending", "rejected"}))

\* The whitelist "lists addresses Protek must never block": a run gets no
\* spelling of an address that a rule has covered since its read began.
WhitelistedNeverBlocked ==
    \A r \in Reader : Filtered(read[r]) =>
        \A x \in read[r].cand, y \in read[r].spared : Norm[x] # Norm[y]
=============================================================================
