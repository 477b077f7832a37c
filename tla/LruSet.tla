-------------------------------- MODULE LruSet --------------------------------
(***************************************************************************)
(* A bounded recency list as a set of records: pos is the index in the     *)
(* deque (0 is the front, the most recently used). job_service.cpp keeps   *)
(* terminal_records_ as such a deque and replay_cache_ as a list whose     *)
(* entries carry an increasing lru stamp; both orders are a pos here.      *)
(***************************************************************************)
EXTENDS Naturals, FiniteSets

Ahead(T, r) == {q \in T : q.pos < r.pos}

\* Close the gaps that erased entries leave.
Compact(T) == {[r EXCEPT !.pos = Cardinality(Ahead(T, r))] : r \in T}

\* push_front, or the newest stamp of a list ordered by stamps.
PushFront(T, r) == {[r EXCEPT !.pos = 0]} \cup {[q EXCEPT !.pos = @ + 1] : q \in T}

\* std::rotate(begin, r, r + 1), or a fresh stamp on r.
ToFront(T, r) == Compact(PushFront(T \ {r}, r))

\* The entries that survive popping the back down to cap entries.
Newest(T, cap) == {r \in T : Cardinality(Ahead(T, r)) < cap}
===============================================================================
