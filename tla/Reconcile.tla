------------------------------ MODULE Reconcile ------------------------------
(***************************************************************************)
(* The diff engine, reconcile.py: what to add to and what to remove from a *)
(* target's address list, given the addresses that should be banned (D)    *)
(* and the entries the target reported (L).                                *)
(*                                                                         *)
(* An address text ('1.2.3.4', '1.2.3.4/32') is a member of Text; Norm is  *)
(* _normalize_addr, which sends both spellings to one address.  A comment  *)
(* is abstracted to the one fact the code reads from it, is_owned.  The    *)
(* position of a text in the desired list is Rank (the order SQLite's      *)
(* GROUP BY returns, the same on every cycle).                             *)
(***************************************************************************)
EXTENDS Integers, FiniteSets

CONSTANTS
    Text,       \* spellings of addresses that decisions and entries carry
    Addr,       \* canonical addresses
    Norm,       \* _normalize_addr
    Rank        \* position of a text in the desired list

ASSUME NormAssumption == Norm \in [Text -> Addr]

ASSUME RankAssumption ==
    /\ Rank \in [Text -> Nat]
    /\ \A x, y \in Text : Rank[x] = Rank[y] => x = y

\* An entry of a target's list: the target's own id, the text it was added
\* with, and whether its comment starts with "protek:".
Entry == [id : Nat, text : Text, owned : BOOLEAN]

\* Mutant: the comment is not looked at.
OwnedIgnoringComment(L) == L

Owned(L) == {e \in L : e.owned}

Addrs(D) == {Norm[d] : d \in D}

\* owned_by_addr: keyed by canonical address; a later entry of the snapshot
\* replaces an earlier one of the same address (entries come in id order).
Holders(L) ==
    {e \in Owned(L) : \A f \in Owned(L) : Norm[f.text] = Norm[e.text] => f.id <= e.id}

\* diff.to_add: wanted texts whose address no entry of ours holds.
ToAdd(D, L) == {d \in D : \A e \in Owned(L) : Norm[e.text] # Norm[d]}

\* diff.to_remove: ids of our entries whose address is no longer wanted.
ToRemove(D, L) == {e.id : e \in {h \in Holders(L) : Norm[h.text] \notin Addrs(D)}}

\* The position of id i in diff.to_remove.  A dict keeps the place of the
\* first insertion of a key, so an address stands where its oldest entry stood.
Slot(L, i) ==
    LET a == Norm[(CHOOSE e \in L : e.id = i).text]
        ids == {e.id : e \in {f \in Owned(L) : Norm[f.text] = a}}
    IN  CHOOSE j \in ids : \A k \in ids : j <= k

\* The slice S[:n] of a list whose elements are the set S in the order of pos.
First(S, n, pos(_)) == {x \in S : Cardinality({y \in S : pos(y) < pos(x)}) < n}
=============================================================================
