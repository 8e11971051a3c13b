-------------------------------- MODULE Feed --------------------------------
(***************************************************************************)
(* The published feed (intel_publish.py and its routes in app.py): a       *)
(* signing key kept as two settings, a sequence number kept as a third,    *)
(* and the entries that may be published. gunicorn serves requests in      *)
(* several processes, and every get_setting and set_setting is a           *)
(* statement of its own.                                                   *)
(***************************************************************************)
EXTENDS Budget, Sequences, FiniteSets

CONSTANTS Worker, MaxServed      \* MaxServed bounds the feeds handed out

ASSUME FeedAssumption == MaxServed \in Nat

\* Rows of decisions: found here, the same address stored with its prefix
\* (1.2.3.4/32, as the API may store it), passed through from someone else's
\* list, and one of an excluded origin.
Row == {"own", "spelt", "third", "excluded"}
Kind == {"address", "country"}    \* what a whitelist rule for "own" names

VARIABLES
    keys,       \* intel.publish.pub_b64 and priv_enc_b64, 0 when absent
    made,       \* keypairs generated so far
    sealed,     \* keypairs up to this one were encrypted under an older SECRET_KEY
    seq,        \* intel.publish.seq
    enabled,    \* intel.publish.enabled
    excludes,   \* intel.publish.exclude_origins names the excluded origin
    white,      \* whitelist rules in force for "own"
    req,        \* the request each worker serves
    served,     \* feeds handed out
    crossed     \* history: what overlapped ("key" or "seq"), and "torn" when a
                \* request ended with a new private half beside an old public one

feedVars == <<keys, made, sealed, seq, enabled, excludes, white, req, served, crossed>>

NoKeys == [pub |-> 0, priv |-> 0]
Idle == [at |-> "idle", kind |-> "none", pub |-> 0, priv |-> 0, rules |-> {}, drops |-> FALSE, always |-> {}, rows |-> {}, seq |-> 0]

FeedTypeOK ==
    /\ keys \in [pub : 0..made, priv : 0..made] /\ made \in Nat /\ sealed \in 0..made /\ seq \in Nat
    /\ enabled \in BOOLEAN /\ excludes \in BOOLEAN /\ white \subseteq Kind
    /\ req \in [Worker -> [at : {"idle", "pub", "priv", "wpriv", "wpub", "rules", "rows", "seq", "wseq", "serve"},
                           kind : {"none", "feed", "rotate", "toggle"}, pub : 0..made, priv : 0..made,
                           rules : SUBSET Kind, drops : BOOLEAN, always : SUBSET Kind, rows : SUBSET Row, seq : Nat]]
    /\ crossed \subseteq {"key", "seq", "torn"}
    /\ \A i \in DOMAIN served : served[i].seq \in Nat /\ served[i].rows \subseteq Row

FeedInit ==
    /\ keys = NoKeys /\ made = 0 /\ sealed = 0 /\ seq = 0
    /\ enabled \in BOOLEAN /\ excludes = TRUE /\ white = {}
    /\ req = [w \in Worker |-> Idle]
    /\ served = <<>> /\ crossed = {}

At(w, step) == req[w].at = step
Goes(w, step) == req' = [req EXCEPT ![w].at = step]

KeySteps == {"pub", "priv", "wpriv", "wpub"}
SeqSteps == {"wseq"}
Crossing(w, what, steps) ==
    crossed' = IF \E v \in Worker \ {w} : req[v].at \in steps THEN crossed \cup {what} ELSE crossed

-----------------------------------------------------------------------------
(* _ensure_keypair: two reads, and two writes when a part is missing or    *)
(* the private one cannot be decrypted                                     *)

FeedRequest(w) ==
    /\ At(w, "idle") /\ enabled /\ Len(served) < MaxServed
    /\ req' = [req EXCEPT ![w] = [Idle EXCEPT !.at = "pub", !.kind = "feed", !.always = white]]
    /\ Event /\ UNCHANGED <<keys, made, sealed, seq, enabled, excludes, white, served, crossed>>

\* rotate_keypair: both parts go with one statement.
Rotate(w) ==
    /\ At(w, "idle")
    /\ keys' = NoKeys
    /\ req' = [req EXCEPT ![w] = [Idle EXCEPT !.at = "pub", !.kind = "rotate"]]
    /\ Crossing(w, "key", KeySteps)
    /\ Event /\ UNCHANGED <<made, sealed, seq, enabled, excludes, white, served>>

Toggle(w) ==
    /\ At(w, "idle")
    /\ enabled' = ~enabled
    /\ req' = IF enabled THEN req ELSE [req EXCEPT ![w] = [Idle EXCEPT !.at = "pub", !.kind = "toggle"]]
    /\ Event /\ UNCHANGED <<keys, made, sealed, seq, excludes, white, served, crossed>>

ReadPub(w) ==
    /\ At(w, "pub")
    /\ req' = [req EXCEPT ![w].at = "priv", ![w].pub = keys.pub]
    /\ Free /\ UNCHANGED <<keys, made, sealed, seq, enabled, excludes, white, served, crossed>>

After(kind) == IF kind = "feed" THEN "rules" ELSE "idle"
Ready(w, p, s) == [req[w] EXCEPT !.at = After(req[w].kind), !.pub = p, !.priv = s]

\* A stored half decrypts under the SECRET_KEY it was encrypted with; an
\* unusable one is replaced like an absent one.
Usable(priv) == priv > sealed

MutantReadPriv(w) ==
    /\ At(w, "priv")
    /\ IF Usable(keys.priv)
       THEN req' = [req EXCEPT ![w] = Ready(w, req[w].pub, keys.priv)] /\ UNCHANGED made
       ELSE /\ made' = made + 1
            /\ req' = [req EXCEPT ![w].at = "wpriv", ![w].pub = made + 1, ![w].priv = made + 1]
    /\ Crossing(w, "key", {"wpub"})
    /\ Free /\ UNCHANGED <<keys, sealed, seq, enabled, excludes, white, served>>

ReadPriv(w) ==
    /\ At(w, "priv")
    /\ IF req[w].pub # 0 /\ Usable(keys.priv)
       THEN req' = [req EXCEPT ![w] = Ready(w, req[w].pub, keys.priv)] /\ UNCHANGED made
       ELSE /\ made' = made + 1
            /\ req' = [req EXCEPT ![w].at = "wpriv", ![w].pub = made + 1, ![w].priv = made + 1]
    /\ Crossing(w, "key", {"wpub"})
    /\ Free /\ UNCHANGED <<keys, sealed, seq, enabled, excludes, white, served>>

WritePriv(w) ==
    /\ At(w, "wpriv")
    /\ keys' = [keys EXCEPT !.priv = req[w].priv]
    /\ Goes(w, "wpub") /\ Crossing(w, "key", KeySteps)
    /\ Free /\ UNCHANGED <<made, sealed, seq, enabled, excludes, white, served>>

WritePub(w) ==
    /\ At(w, "wpub")
    /\ keys' = [keys EXCEPT !.pub = req[w].pub]
    /\ Goes(w, After(req[w].kind)) /\ Crossing(w, "key", KeySteps)
    /\ Free /\ UNCHANGED <<made, sealed, seq, enabled, excludes, white, served>>

-----------------------------------------------------------------------------
(* build_feed: the entries, then the sequence number *)

\* The settings and list_whitelist; always: the rules that were in force from start to end.
ReadRules(w) ==
    /\ At(w, "rules")
    /\ req' = [req EXCEPT ![w].at = "rows", ![w].rules = white, ![w].drops = excludes]
    /\ Free /\ UNCHANGED <<keys, made, sealed, seq, enabled, excludes, white, served, crossed>>

\* matches_whitelist compares text for a rule of an address and needs an
\* address without prefix for one of a range, so neither matches the row
\* with its prefix; it is called without the country, so a rule for a
\* country matches nothing here.
MatchesWhitelist(row, rules) == row = "own" /\ "address" \in rules

FeedEntries(rules, drops) ==
    {r \in Row : r # "third" /\ (r = "excluded" => ~drops) /\ ~MatchesWhitelist(r, rules)}

ReadRows(w) ==
    /\ At(w, "rows")
    /\ req' = [req EXCEPT ![w].at = "seq", ![w].rows = FeedEntries(req[w].rules, req[w].drops)]
    /\ Free /\ UNCHANGED <<keys, made, sealed, seq, enabled, excludes, white, served, crossed>>

ReadSeq(w) ==
    /\ At(w, "seq")
    /\ req' = [req EXCEPT ![w].at = "wseq", ![w].seq = seq + 1]
    /\ Free /\ UNCHANGED <<keys, made, sealed, seq, enabled, excludes, white, served, crossed>>

WriteSeq(w) ==
    /\ At(w, "wseq")
    /\ seq' = req[w].seq
    /\ Goes(w, "serve") /\ Crossing(w, "seq", SeqSteps)
    /\ Free /\ UNCHANGED <<keys, made, sealed, enabled, excludes, white, served>>

\* priv.sign, and the answer with public_key_b64.
Serve(w) ==
    /\ At(w, "serve")
    /\ served' = Append(served, [pub |-> req[w].pub, signer |-> req[w].priv, seq |-> req[w].seq,
                                 rows |-> req[w].rows, always |-> req[w].always])
    /\ req' = [req EXCEPT ![w] = Idle]
    /\ Free /\ UNCHANGED <<keys, made, sealed, seq, enabled, excludes, white, crossed>>

\* gunicorn ends a worker that takes too long, the service restarts, or a
\* statement fails and the request with it.
WorkerDies(w) ==
    /\ ~At(w, "idle")
    /\ req' = [req EXCEPT ![w] = Idle]
    /\ crossed' = IF At(w, "wpub") /\ keys.pub # 0 THEN crossed \cup {"torn"} ELSE crossed
    /\ Fault /\ UNCHANGED <<keys, made, sealed, seq, enabled, excludes, white, served>>

\* The service is started with another SECRET_KEY.
SecretChanges ==
    /\ sealed' = made
    /\ req' = [w \in Worker |-> Idle]
    /\ Event /\ UNCHANGED <<keys, made, seq, enabled, excludes, white, served, crossed>>

\* The operator's settings and the whitelist page. A rule that goes away was
\* not in force all through the requests under way.
SaveExcludes ==
    /\ excludes' = ~excludes
    /\ Event /\ UNCHANGED <<keys, made, sealed, seq, enabled, white, req, served, crossed>>

EditWhitelist(k) ==
    /\ white' = IF k \in white THEN white \ {k} ELSE white \cup {k}
    /\ req' = [w \in Worker |-> [req[w] EXCEPT !.always = @ \cap white']]
    /\ Event /\ UNCHANGED <<keys, made, sealed, seq, enabled, excludes, served, crossed>>

RequestStep(w) ==
    \/ ReadPub(w) \/ ReadPriv(w) \/ WritePriv(w) \/ WritePub(w)
    \/ ReadRules(w) \/ ReadRows(w) \/ ReadSeq(w) \/ WriteSeq(w) \/ Serve(w)

KeysNext ==
    \/ \E w \in Worker : FeedRequest(w) \/ Rotate(w) \/ Toggle(w) \/ RequestStep(w) \/ WorkerDies(w)
    \/ SecretChanges

FeedNext == KeysNext \/ SaveExcludes \/ (\E k \in Kind : EditWhitelist(k))

-----------------------------------------------------------------------------
(* Properties *)

\* A feed is signed by the key it carries: also after a rotation, a change
\* of SECRET_KEY, and when a worker dies with one half of the pair written.
\* Excepted: two requests were in _ensure_keypair at once, of which one
\* wrote or deleted the keys; or one that replaced an unusable key ended
\* between its two writes, which leaves halves of different pairs for good.
FeedVerifies ==
    crossed \cap {"key", "torn"} # {} \/ \A i \in DOMAIN served : served[i].pub = served[i].signer

\* Unless two requests took the number at once, no feed goes out with the
\* sequence number of another one, also when a worker dies on the way.
SequenceUnique ==
    "seq" \in crossed \/ \A i, j \in DOMAIN served : served[i].seq = served[j].seq => i = j

\* Whatever the operator excludes, nothing of somebody else's list is
\* published, and no row in the spelling of the whitelist that a rule for
\* the address covered from the start of the request to its end. Of a row
\* stored with its prefix this says nothing: it is published.
OwnIntelOnly ==
    \A i \in DOMAIN served :
        "third" \notin served[i].rows /\ ("address" \in served[i].always => "own" \notin served[i].rows)
=============================================================================
