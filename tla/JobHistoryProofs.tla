--------------------------- MODULE JobHistoryProofs ---------------------------
(***************************************************************************)
(* What a long sequence of calls leaves of the job service, in the parts   *)
(* below: its terminal records, what no step may do to an owner, an        *)
(* execution, a failure or the output, the sessions its clients hold, the  *)
(* second in which a job is launched, and how long an execution that has   *)
(* ended is remembered (a message goes out once).                          *)
(***************************************************************************)
EXTENDS JobServiceProofs, Launches

-----------------------------------------------------------------------------
(***************************************************************************)
(* The terminal records, the jobs retained beside them and the current job *)
(* stay coherent through eviction, expiry and repetition, for every number *)
(* of records the service may keep.                                        *)
(***************************************************************************)

\* Finitely many records, no two of which have the same place.
Ranked(T) == IsFiniteSet(T) /\ \A q, r \in T : q.pos = r.pos => q = r

\* No two records are about the same job.
Once(T) == \A q, r \in T : q.job = r.job => q = r

\* U has a record for each record of T, of the same job and result.
Carries(T, U) == \A r \in T : \E u \in U : u.job = r.job /\ u.state = r.state

\* Closing the gaps keeps each record's place among the others.
LEMMA RankOrder ==
    ASSUME NEW T \in SUBSET TerminalRecords, IsFiniteSet(T), NEW q \in T, NEW r \in T,
           q.pos < r.pos
    PROVE  Cardinality(Ahead(T, q)) < Cardinality(Ahead(T, r))
  <1>1. IsFiniteSet(Ahead(T, r)) /\ Ahead(T, q) \in SUBSET Ahead(T, r)
    <2>1. \A p \in T : p.pos \in Nat
      BY DEF TerminalRecords
    <2> QED
      BY <2>1, FS_Subset DEF Ahead
  <1>2. q \in Ahead(T, r) /\ q \notin Ahead(T, q)
    <2>1. q.pos \in Nat
      BY DEF TerminalRecords
    <2> QED
      BY <2>1 DEF Ahead
  <1>3. Cardinality(Ahead(T, q)) <= Cardinality(Ahead(T, r))
    BY <1>1, FS_Subset
  <1>4. Cardinality(Ahead(T, q)) # Cardinality(Ahead(T, r))
    BY <1>1, <1>2, FS_Subset
  <1>5. Cardinality(Ahead(T, q)) \in Nat /\ Cardinality(Ahead(T, r)) \in Nat
    BY AheadCount
  <1> QED
    BY <1>3, <1>4, <1>5

\* An image of a finite set is no larger.
LEMMA ImageBound ==
    ASSUME NEW S, IsFiniteSet(S), NEW f
    PROVE  Cardinality({f[x] : x \in S}) <= Cardinality(S)
  <1> DEFINE I == {f[x] : x \in S}
             g == [x \in S |-> f[x]]
  <1>1. g \in Surjection(S, I)
    BY DEF Surjection
  <1> QED
    BY <1>1, FS_Surjection

\* Compact renumbers and nothing else.
LEMMA CompactRecords ==
    ASSUME NEW T \in SUBSET TerminalRecords, Ranked(T)
    PROVE  /\ Compact(T) \in SUBSET TerminalRecords /\ Ranked(Compact(T))
           /\ Cardinality(Compact(T)) <= Cardinality(T)
           /\ Carries(T, Compact(T)) /\ Carries(Compact(T), T)
           /\ Once(T) => Once(Compact(T))
  <1> DEFINE f == [r \in T |-> [r EXCEPT !.pos = Cardinality(Ahead(T, r))]]
  <1>0. IsFiniteSet(T)
    BY DEF Ranked
  <1>1. \A r \in T : /\ f[r] \in TerminalRecords /\ f[r].pos = Cardinality(Ahead(T, r))
                     /\ f[r].job = r.job /\ f[r].state = r.state
    <2> SUFFICES ASSUME NEW r \in T
                 PROVE  /\ f[r] \in TerminalRecords /\ f[r].pos = Cardinality(Ahead(T, r))
                        /\ f[r].job = r.job /\ f[r].state = r.state
      OBVIOUS
    <2>1. Cardinality(Ahead(T, r)) \in Nat
      BY <1>0, AheadCount
    <2> QED
      BY <2>1 DEF TerminalRecords
  <1>2. Compact(T) = {f[r] : r \in T}
    BY DEF Compact
  <1> HIDE DEF f
  <1>3. Compact(T) \in SUBSET TerminalRecords
    BY <1>1, <1>2
  <1>4. IsFiniteSet(Compact(T)) /\ Cardinality(Compact(T)) <= Cardinality(T)
    BY <1>0, <1>2, CompactFinite, ImageBound
  <1>5. \A q, r \in T : f[q].pos = f[r].pos => q = r
    <2> SUFFICES ASSUME NEW q \in T, NEW r \in T, f[q].pos = f[r].pos PROVE q = r
      OBVIOUS
    <2>1. Cardinality(Ahead(T, q)) = Cardinality(Ahead(T, r))
      BY <1>1
    <2>2. ~(q.pos < r.pos) /\ ~(r.pos < q.pos)
      <3>1. Cardinality(Ahead(T, q)) \in Nat /\ Cardinality(Ahead(T, r)) \in Nat
        BY <1>0, AheadCount
      <3> QED
        BY <1>0, <2>1, <3>1, RankOrder
    <2>3. q.pos \in Nat /\ r.pos \in Nat
      BY DEF TerminalRecords
    <2> QED
      BY <2>2, <2>3 DEF Ranked
  <1>6. Ranked(Compact(T))
    BY <1>2, <1>4, <1>5 DEF Ranked
  <1>7. Carries(T, Compact(T)) /\ Carries(Compact(T), T)
    BY <1>1, <1>2 DEF Carries
  <1>8. Once(T) => Once(Compact(T))
    BY <1>1, <1>2 DEF Once
  <1> QED
    BY <1>3, <1>4, <1>6, <1>7, <1>8

\* PushFront puts a record before all others and changes none of them.
LEMMA PushFrontRecords ==
    ASSUME NEW T \in SUBSET TerminalRecords, Ranked(T), NEW r \in TerminalRecords
    PROVE  LET P == PushFront(T, r) IN
           /\ P \in SUBSET TerminalRecords /\ Ranked(P)
           /\ Cardinality(P) <= Cardinality(T) + 1
           /\ Carries(T \cup {r}, P) /\ Carries(P, T \cup {r})
           /\ Once(T) /\ (\A q \in T : q.job # r.job) => Once(P)
           /\ [r EXCEPT !.pos = 0] \in P /\ Ahead(P, [r EXCEPT !.pos = 0]) = {}
  <1> DEFINE first == [r EXCEPT !.pos = 0]
             f == [q \in T |-> [q EXCEPT !.pos = @ + 1]]
             P == PushFront(T, r)
  <1>0. IsFiniteSet(T)
    BY DEF Ranked
  <1>1. \A q \in T : /\ f[q] \in TerminalRecords /\ f[q].pos = q.pos + 1 /\ q.pos \in Nat
                     /\ f[q].job = q.job /\ f[q].state = q.state
    BY DEF TerminalRecords
  <1>2. first \in TerminalRecords /\ first.pos = 0 /\ first.job = r.job /\ first.state = r.state
    BY DEF TerminalRecords
  <1>3. P = {f[q] : q \in T} \cup {first}
    BY DEF PushFront
  <1> HIDE DEF f, first, P
  <1>4. IsFiniteSet({f[q] : q \in T}) /\ Cardinality({f[q] : q \in T}) <= Cardinality(T)
    BY <1>0, ImageFinite, ImageBound
  <1>5. P \in SUBSET TerminalRecords
    BY <1>1, <1>2, <1>3
  <1>6. IsFiniteSet(P) /\ Cardinality(P) <= Cardinality(T) + 1
    <2>1. Cardinality({f[q] : q \in T}) \in Nat /\ Cardinality(T) \in Nat
      BY <1>0, <1>4, FS_CardinalityType
    <2> QED
      BY <1>3, <1>4, <2>1, FS_AddElement
  <1>7. Ranked(P)
    <2>1. \A q \in T : f[q].pos # first.pos
      BY <1>1, <1>2
    <2>2. \A p, q \in T : f[p].pos = f[q].pos => p = q
      BY <1>1 DEF Ranked
    <2> QED
      BY <1>3, <1>6, <2>1, <2>2 DEF Ranked
  <1>8. Carries(T \cup {r}, P) /\ Carries(P, T \cup {r})
    BY <1>1, <1>2, <1>3 DEF Carries
  <1>9. Once(T) /\ (\A q \in T : q.job # r.job) => Once(P)
    BY <1>1, <1>2, <1>3 DEF Once
  <1>10. first \in P /\ Ahead(P, first) = {}
    <2>1. \A p \in P : p.pos \in Nat
      BY <1>5 DEF TerminalRecords
    <2> QED
      BY <1>2, <1>3, <2>1 DEF Ahead
  <1> QED
    BY <1>5, <1>6, <1>7, <1>8, <1>9, <1>10 DEF P, first

\* At most cap records are among the newest cap.
LEMMA NewestBound ==
    ASSUME NEW T \in SUBSET TerminalRecords, Ranked(T), NEW cap \in Nat \ {0}
    PROVE  IsFiniteSet(Newest(T, cap)) /\ Cardinality(Newest(T, cap)) <= cap
  <1> DEFINE N == Newest(T, cap)
             g == [r \in N |-> Cardinality(Ahead(T, r))]
  <1>0. IsFiniteSet(T) /\ N \in SUBSET T
    BY DEF Ranked, Newest
  <1>1. \A r \in N : Cardinality(Ahead(T, r)) \in 0 .. (cap - 1)
    BY <1>0, AheadCount DEF Newest
  <1>2. \A q, r \in N : Cardinality(Ahead(T, q)) = Cardinality(Ahead(T, r)) => q = r
    <2> SUFFICES ASSUME NEW q \in N, NEW r \in N,
                        Cardinality(Ahead(T, q)) = Cardinality(Ahead(T, r))
                 PROVE  q = r
      OBVIOUS
    <2>1. Cardinality(Ahead(T, q)) \in Nat /\ Cardinality(Ahead(T, r)) \in Nat
      BY <1>0, AheadCount
    <2>2. ~(q.pos < r.pos) /\ ~(r.pos < q.pos)
      BY <1>0, <2>1, RankOrder
    <2>3. q.pos \in Nat /\ r.pos \in Nat
      BY <1>0 DEF TerminalRecords
    <2> QED
      BY <1>0, <2>2, <2>3 DEF Ranked
  <1> HIDE DEF N
  <1>3. g \in Injection(N, 0 .. (cap - 1))
    BY <1>1, <1>2 DEF Injection, IsInjective
  <1>4. IsFiniteSet(0 .. (cap - 1)) /\ Cardinality(0 .. (cap - 1)) = cap
    BY FS_Interval
  <1> QED
    BY <1>3, <1>4, FS_Injection DEF N

-------------------------------------------------------------------------------
(* The records of a service. *)

JobsHeld(R) == {t.job.id : t \in R}

Ended == {"COMPLETE", "ABORTED", "MISSED"}

\* The inductive invariant: coherence, and the places of the records, without
\* which nothing bounds their number.
Records(s) ==
    /\ Ranked(s.terminals) /\ Once(s.terminals) /\ Cardinality(s.terminals) <= TerminalCap
    /\ JobsOf(s.terminals) = JobsHeld(s.retained)
    /\ \A t, u \in s.retained : t.job.id = u.job.id => t = u
    /\ s.state \in Live => \A r \in s.terminals : r.job # s.job.id
    /\ s.state \in Ended =>
         s.job # NoJob /\ \E r \in s.terminals : r.job = s.job.id /\ r.state = s.state

\* Two lists with the same content are about the same jobs.
LEMMA CarriesJobs ==
    ASSUME NEW T, NEW U, Carries(T, U), Carries(U, T)
    PROVE  JobsOf(T) = JobsOf(U)
  BY DEF Carries, JobsOf

\* record_terminal of a live job.
LEMMA RecordTerminalRecords ==
    ASSUME NEW s, Typed(s), s.job \in Jobs, s.state \in Live, Records(s),
           NEW st \in TerminalStates, NEW err \in ErrorCodes, NEW x \in Contexts
    PROVE  Records(RecordTerminal(s, st, err, x))
  <1> DEFINE record == [job |-> s.job.id, state |-> st, at |-> x.now, out |-> s.eng.out,
                        err |-> err, pos |-> 0]
             pushed == PushFront(s.terminals, record)
             kept == Newest(pushed, TerminalCap)
             evicted == {r.job : r \in pushed \ kept}
             new == [job |-> s.job, arm |-> s.arm]
             held == {t \in s.retained \cup {new} : t.job.id \notin evicted}
             result == [s EXCEPT !.state = st, !.terminals = kept, !.retained = held]
             t == RecordTerminal(s, st, err, x)
  <1>1. record \in TerminalRecords /\ record.job = s.job.id /\ record.state = st
    BY DEF TerminalRecords, JobIds, Contexts, Typed, Service, Engine
  <1>2. [record EXCEPT !.pos = 0] = record
    OBVIOUS
  <1> HIDE DEF record
  <1>3. s.terminals \in SUBSET TerminalRecords
    BY DEF Typed, Service
  <1>4. \A r \in s.terminals : r.job # record.job
    BY <1>1 DEF Records
  <1>5. /\ pushed \in SUBSET TerminalRecords /\ Ranked(pushed) /\ Once(pushed)
        /\ record \in pushed /\ Ahead(pushed, record) = {}
        /\ Carries(s.terminals \cup {record}, pushed) /\ Carries(pushed, s.terminals \cup {record})
    BY <1>1, <1>2, <1>3, <1>4, PushFrontRecords DEF Records
  <1>6. JobsOf(pushed) = JobsHeld(s.retained \cup {new})
    <2>1. JobsOf(pushed) = JobsOf(s.terminals \cup {record})
      BY <1>5, CarriesJobs
    <2>2. JobsOf(s.terminals \cup {record}) = JobsOf(s.terminals) \cup {s.job.id}
      BY <1>1 DEF JobsOf
    <2>3. new.job.id = s.job.id
      OBVIOUS
    <2> HIDE DEF new
    <2>4. JobsHeld(s.retained \cup {new}) = JobsHeld(s.retained) \cup {s.job.id}
      BY <2>3 DEF JobsHeld
    <2> QED
      BY <2>1, <2>2, <2>4 DEF Records
  <1> HIDE DEF pushed
  <1>7. TerminalCap \in Nat \ {0}
    BY JobServiceAssumption
  <1>8. /\ kept \in SUBSET pushed /\ IsFiniteSet(kept) /\ Cardinality(kept) <= TerminalCap
        /\ record \in kept
    <2>1. record \in kept
      BY <1>5, <1>7, FS_EmptySet DEF Newest
    <2> QED
      BY <1>5, <1>7, <2>1, NewestBound DEF Newest
  <1> HIDE DEF kept
  <1>9. Ranked(kept) /\ Once(kept)
    BY <1>5, <1>8 DEF Ranked, Once
  <1>10. JobsOf(kept) = JobsHeld(held)
    <2>1. \A r \in kept : r.job \notin evicted
      BY <1>5, <1>8 DEF Once
    <2>2. \A r \in pushed : r.job \notin evicted => r \in kept
      OBVIOUS
    <2>3. JobsOf(kept) = {i \in JobsOf(pushed) : i \notin evicted}
      BY <1>8, <2>1, <2>2 DEF JobsOf
    <2>4. JobsHeld(held) = {i \in JobsHeld(s.retained \cup {new}) : i \notin evicted}
      BY DEF JobsHeld
    <2> QED
      BY <1>6, <2>3, <2>4
  <1>11. \A u, v \in held : u.job.id = v.job.id => u = v
    <2>1. \A u \in s.retained : u.job.id # new.job.id
      <3>1. \A u \in s.retained : u.job.id \in JobsOf(s.terminals)
        BY DEF Records, JobsHeld
      <3>2. new.job.id \notin JobsOf(s.terminals)
        BY <1>1, <1>4 DEF JobsOf
      <3> QED
        BY <3>1, <3>2
    <2>2. \A u, v \in s.retained : u.job.id = v.job.id => u = v
      BY DEF Records
    <2> QED
      BY <2>1, <2>2
  <1> HIDE DEF held, evicted, new
  <1>12. /\ result.state = st /\ result.terminals = kept /\ result.retained = held
         /\ result.job = s.job /\ result.owner = s.owner
    BY DEF Typed, Service
  <1>13. t \in {result, DropOwner(result)}
    BY <1>12 DEF RecordTerminal, ReleasePending, record, pushed, kept, evicted, held, new
  <1> HIDE DEF result
  <1>14. /\ DropOwner(result).state = st /\ DropOwner(result).terminals = kept
         /\ DropOwner(result).retained = held /\ DropOwner(result).job = s.job
    <2>1. result = [s EXCEPT !.state = st, !.terminals = kept, !.retained = held]
      BY DEF result
    <2> QED
      BY <2>1 DEF DropOwner, Typed, Service
  <1>15. t.state = st /\ t.terminals = kept /\ t.retained = held /\ t.job = s.job
    BY <1>12, <1>13, <1>14
  <1> HIDE DEF t
  <1> QED
    BY <1>1, <1>8, <1>9, <1>10, <1>11, <1>15, TxEngineAssumption DEF Records, Live, TerminalStates, t

\* Every end of an execution keeps the records.
LEMMA StopAsRecords ==
    ASSUME NEW s, Typed(s), s.job \in Jobs, s.state \in Live, Records(s),
           NEW st \in TerminalStates, NEW err \in ErrorCodes, NEW x \in Contexts
    PROVE  Records(StopAs(s, st, err, x))
  <1> DEFINE e == Disable(s.eng, x.off)
             stopped == [s EXCEPT !.eng = e]
  <1>1. e \in Engine /\ x.off \in BOOLEAN
    BY DisableType DEF Typed, Service, Contexts
  <1>2. StopAs(s, st, err, x) = IF x.off THEN RecordTerminal(stopped, st, err, x)
                                ELSE RecordTerminal(stopped, "FAILED", "OUTPUT_STATE_UNKNOWN", x)
    BY <1>1 DEF StopAs
  <1> HIDE DEF e
  <1>3. Typed(stopped) /\ stopped.job \in Jobs /\ stopped.state \in Live /\ Records(stopped)
    BY <1>1 DEF Typed, Service, Records
  <1>4. "FAILED" \in TerminalStates /\ "OUTPUT_STATE_UNKNOWN" \in ErrorCodes
    BY DEF TerminalStates, ErrorCodes
  <1> HIDE DEF stopped
  <1> QED
    BY <1>2, <1>3, <1>4, RecordTerminalRecords

\* What leaves the lists and the job alone, and does not end it, keeps the records.
LEMMA FrameRecords ==
    ASSUME NEW s, NEW t, Records(s), t.terminals = s.terminals, t.retained = s.retained,
           \/ t.job = s.job /\ t.state = s.state
           \/ t.job = s.job /\ s.state \in Live /\ t.state \in Live
           \/ t.state = "EMPTY"
    PROVE  Records(t)
  BY DEF Records, Live, Ended

\* Dropping the owner.
LEMMA DropOwnerRecords ==
    ASSUME NEW s, Typed(s), Records(s)
    PROVE  Records(DropOwner(s))
  <1>1. /\ DropOwner(s).terminals = s.terminals /\ DropOwner(s).retained = s.retained
        /\ DropOwner(s).job = s.job /\ DropOwner(s).state = s.state
    BY DEF DropOwner, Typed, Service
  <1> QED
    BY <1>1, FrameRecords

\* Clearing the job.
LEMMA ClearJobRecords ==
    ASSUME NEW s, Typed(s), Records(s)
    PROVE  Records(ClearJob(s))
  <1>1. /\ ClearJob(s).terminals = s.terminals /\ ClearJob(s).retained = s.retained
        /\ ClearJob(s).state = "EMPTY"
    BY DEF ClearJob, Typed, Service
  <1> QED
    BY <1>1, FrameRecords

\* expire_resources records a loaded job that its lease took away.
LEMMA ExpireResourcesRecords ==
    ASSUME NEW s, Sound(s), Records(s), NEW x \in Contexts
    PROVE  Records(ExpireResources(s, x))
  <1> DEFINE stopped == StopAs(s, "ABORTED", "NONE", x)
             marked == [s EXCEPT !.owner.release = TRUE]
  <1>1. Typed(s)
    BY DEF Sound
  <1>2. marked.terminals = s.terminals /\ marked.retained = s.retained
        /\ marked.job = s.job /\ marked.state = s.state
    BY <1>1 DEF Typed, Service
  <1>3. Records(marked) /\ Records(DropOwner(s))
    BY <1>1, <1>2, FrameRecords, DropOwnerRecords
  <1>4. CASE s.state = "LOADED"
    <2>1. s.job \in Jobs /\ s.state \in Live /\ "ABORTED" \in TerminalStates
          /\ "NONE" \in ErrorCodes
      BY <1>4 DEF Sound, Live, TerminalStates, ErrorCodes, Typed, Service
    <2>2. Typed(stopped) /\ Records(stopped)
      BY <1>1, <2>1, StopAsProps, StopAsRecords
    <2> HIDE DEF stopped
    <2>3. Typed(ClearJob(stopped)) /\ Records(ClearJob(stopped))
      BY <2>2, ClearJobProps, ClearJobRecords
    <2>4. Records(DropOwner(stopped)) /\ Records(DropOwner(ClearJob(stopped)))
      BY <2>2, <2>3, DropOwnerRecords
    <2> QED
      BY <1>4, <2>4 DEF ExpireResources, stopped
  <1>5. CASE s.state # "LOADED"
    BY <1>3, <1>5 DEF ExpireResources
  <1> QED
    BY <1>4, <1>5

\* prune_terminals forgets a job and its record together.
LEMMA PruneTerminalsRecords ==
    ASSUME NEW s, Sound(s), Records(s), NEW x \in Contexts
    PROVE  Records(PruneTerminals(s, x))
  <1> DEFINE expired == {r \in s.terminals : x.now - r.at >= TerminalTtl}
             live == s.terminals \ expired
             held == {t \in s.retained : \E r \in live : r.job = t.job.id}
             pruned == [s EXCEPT !.terminals = Compact(live), !.retained = held]
             gone == \E r \in expired : r.job = s.job.id
  <1>0. Typed(s) /\ s.terminals \in SUBSET TerminalRecords
    BY DEF Sound, Typed, Service
  <1>1. PruneTerminals(s, x) = IF s.job # NoJob /\ gone /\ s.state \in Ended
                               THEN ClearJob(pruned) ELSE pruned
    BY DEF PruneTerminals, Ended
  <1>2. live \in SUBSET TerminalRecords /\ Ranked(live) /\ Once(live)
        /\ Cardinality(live) <= TerminalCap /\ IsFiniteSet(live)
    <2>1. IsFiniteSet(s.terminals) /\ Cardinality(s.terminals) <= TerminalCap
          /\ TerminalCap \in Nat /\ live \in SUBSET s.terminals
      BY JobServiceAssumption DEF Records, Ranked
    <2>2. IsFiniteSet(live) /\ Cardinality(live) <= Cardinality(s.terminals)
      BY <2>1, FS_Subset
    <2>3. Cardinality(live) \in Nat /\ Cardinality(s.terminals) \in Nat
      BY <2>1, <2>2, FS_CardinalityType
    <2> QED
      BY <1>0, <2>1, <2>2, <2>3 DEF Records, Ranked, Once
  <1>3. JobsOf(live) = JobsHeld(held)
    <2>1. JobsOf(live) \subseteq JobsHeld(s.retained)
      <3>1. JobsOf(live) \subseteq JobsOf(s.terminals)
        BY DEF JobsOf
      <3> QED
        BY <3>1 DEF Records
    <2> QED
      BY <2>1 DEF JobsOf, JobsHeld
  <1>4. \A t, u \in held : t.job.id = u.job.id => t = u
    BY DEF Records
  <1>5. s.state \in Live => \A r \in live : r.job # s.job.id
    BY DEF Records
  <1>6. s.state \in Ended /\ ~gone => \E r \in live : r.job = s.job.id /\ r.state = s.state
    BY DEF Records
  <1> HIDE DEF expired, live, held, gone
  <1>7. /\ Compact(live) \in SUBSET TerminalRecords /\ Ranked(Compact(live))
        /\ Once(Compact(live)) /\ Cardinality(Compact(live)) <= TerminalCap
        /\ Carries(live, Compact(live)) /\ Carries(Compact(live), live)
    <2>1. Cardinality(Compact(live)) \in Nat /\ Cardinality(live) \in Nat /\ TerminalCap \in Nat
      BY <1>2, CompactRecords, FS_CardinalityType, JobServiceAssumption DEF Ranked
    <2> QED
      BY <1>2, <2>1, CompactRecords
  <1>8. JobsOf(Compact(live)) = JobsHeld(held)
    BY <1>3, <1>7, CarriesJobs
  <1>9. /\ pruned.terminals = Compact(live) /\ pruned.retained = held /\ pruned.job = s.job
        /\ pruned.state = s.state
    BY <1>0 DEF Typed, Service
  <1>10. held \in SUBSET RetainedJobs
    BY <1>0 DEF held, Typed, Service
  <1>11. Typed(pruned)
    BY <1>0, <1>7, <1>10 DEF Typed, Service, Ranked
  <1> HIDE DEF pruned
  <1>12. CASE s.state \in Ended /\ gone
    <2>1. s.job # NoJob => Records(ClearJob(pruned))
      <3>1. /\ ClearJob(pruned).terminals = Compact(live) /\ ClearJob(pruned).retained = held
            /\ ClearJob(pruned).state = "EMPTY"
        BY <1>9, <1>11 DEF ClearJob, Typed, Service
      <3> QED
        BY <1>4, <1>7, <1>8, <3>1 DEF Records, Live, Ended
    <2>2. s.job # NoJob
      BY <1>12 DEF Records
    <2> QED
      BY <1>1, <1>12, <2>1, <2>2
  <1>13. CASE ~(s.state \in Ended /\ gone)
    <2>1. s.state \in Live => \A r \in Compact(live) : r.job # s.job.id
      BY <1>5, <1>7 DEF Carries
    <2>2. s.state \in Ended =>
            \E r \in Compact(live) : r.job = s.job.id /\ r.state = s.state
      BY <1>6, <1>7, <1>13 DEF Carries
    <2> QED
      BY <1>1, <1>4, <1>7, <1>8, <1>9, <1>13, <2>1, <2>2 DEF Records
  <1> QED
    BY <1>12, <1>13

\* The prologue of every request and of poll() keeps the records.
LEMMA RefreshRecords ==
    ASSUME NEW s, Sound(s), Records(s), NEW x \in Contexts
    PROVE  Records(Refresh(s, x))
  <1> DEFINE a == ExpireResources(s, x)
             b == PruneReplay(a, x)
             c == PruneTerminals(b, x)
             d == PruneSessions(c, x)
  <1>1. Refresh(s, x) = d
    BY DEF Refresh
  <1>2. Sound(a) /\ Records(a)
    BY ExpireResourcesKeeps, ExpireResourcesRecords DEF Keeps
  <1> HIDE DEF a
  <1>3. Sound(b) /\ Records(b)
    <2>1. /\ b.terminals = a.terminals /\ b.retained = a.retained /\ b.job = a.job
          /\ b.state = a.state
      BY <1>2 DEF PruneReplay, Sound, Typed, Service
    <2>2. Sound(b)
      BY <1>2, PruneReplayKeeps DEF Keeps
    <2> HIDE DEF b
    <2> QED
      BY <1>2, <2>1, <2>2, FrameRecords
  <1> HIDE DEF b
  <1>4. Sound(c) /\ Records(c)
    BY <1>3, PruneTerminalsKeeps, PruneTerminalsRecords DEF Keeps
  <1> HIDE DEF c
  <1>5. /\ d.terminals = c.terminals /\ d.retained = c.retained /\ d.job = c.job
        /\ d.state = c.state
    BY <1>4 DEF PruneSessions, Sound, Typed, Service
  <1> HIDE DEF d
  <1> QED
    BY <1>1, <1>4, <1>5, FrameRecords

\* What the report of a running engine may lead to.
Reported(s, x) == {s, StopAs(s, "MISSED", "MISSED_START", x), StopAs(s, "FAILED", "DEVICE_FAULT", x),
                   StopAs(s, "COMPLETE", "NONE", x)}

\* The codes of every end of an execution.
LEMMA EndCodes ==
    /\ TerminalStates = {"COMPLETE", "ABORTED", "MISSED", "FAILED"}
    /\ {"NONE", "DEVICE_FAULT", "MISSED_START", "OUTPUT_STATE_UNKNOWN"} \subseteq ErrorCodes
  BY DEF TerminalStates, ErrorCodes

\* The report of the engine notes the launch and ends the job, or waits.
LEMMA SettleCases ==
    ASSUME NEW s0, Sound(s0), s0.state = "RUNNING", NEW x \in Contexts
    PROVE  \E arm \in Arms :
             LET s == [s0 EXCEPT !.arm = arm] IN
             /\ Sound(s) /\ Settle(s0, x) \in Reported(s, x)
             /\ arm = IF s0.eng.launch = NoTime THEN s0.arm
                      ELSE [s0.arm EXCEPT !.launch = s0.eng.launch]
  <1> DEFINE noted == [s0.arm EXCEPT !.launch = s0.eng.launch]
             arm == IF s0.eng.launch = NoTime THEN s0.arm ELSE noted
             s == [s0 EXCEPT !.arm = arm]
  <1>1. s0.eng.launch \in Nat \cup {NoTime} /\ s0.arm \in Arms
    BY DEF Sound, Typed, Service, Engine
  <1>2. arm \in Arms
    BY <1>1 DEF Arms
  <1>3. s = IF s0.eng.launch = NoTime THEN s0 ELSE [s0 EXCEPT !.arm.launch = s0.eng.launch]
    BY DEF Sound, Typed, Service
  <1>4. Settle(s0, x) \in Reported(s, x)
    BY <1>3 DEF Settle, Reported
  <1> HIDE DEF arm
  <1>5. Sound(s)
    BY <1>2, SentinelAssumption DEF Sound, Typed, Service, Live
  <1> QED
    BY <1>2, <1>4, <1>5 DEF arm

\* The report of the engine about a running job keeps the records.
LEMMA ReportedRecords ==
    ASSUME NEW s, Sound(s), s.state \in Live, Records(s), NEW x \in Contexts,
           NEW t \in Reported(s, x)
    PROVE  Records(t)
  <1>1. Typed(s) /\ s.job \in Jobs
    BY DEF Sound, Typed, Service
  <1>2. /\ Records(StopAs(s, "MISSED", "MISSED_START", x))
        /\ Records(StopAs(s, "FAILED", "DEVICE_FAULT", x))
        /\ Records(StopAs(s, "COMPLETE", "NONE", x))
    BY <1>1, EndCodes, StopAsRecords
  <1> QED
    BY <1>2 DEF Reported

\* Settling a running job keeps the records.
LEMMA SettleRecords ==
    ASSUME NEW s0, Sound(s0), s0.state = "RUNNING", Records(s0), NEW x \in Contexts
    PROVE  Records(Settle(s0, x))
  <1>1. PICK arm \in Arms : /\ Sound([s0 EXCEPT !.arm = arm])
                            /\ Settle(s0, x) \in Reported([s0 EXCEPT !.arm = arm], x)
    BY SettleCases
  <1> DEFINE s == [s0 EXCEPT !.arm = arm]
  <1>2. /\ s.terminals = s0.terminals /\ s.retained = s0.retained /\ s.job = s0.job
        /\ s.state = s0.state
    BY DEF Sound, Typed, Service
  <1>3. Sound(s) /\ Settle(s0, x) \in Reported(s, x)
    BY <1>1
  <1> HIDE DEF s
  <1> QED
    BY <1>2, <1>3, FrameRecords, ReportedRecords DEF Live

\* What poll() may do with an armed job that it launches itself.
LEMMA LaunchCases ==
    ASSUME NEW s, Sound(s), s.state = "ARMED", NEW x \in Contexts
    PROVE  LET begun == Begin(s.eng, s.job, x.now, NoCond, x.start)
               tried == [s EXCEPT !.eng = begun.eng]
               run   == [s EXCEPT !.eng = begun.eng, !.arm.launch = x.now, !.state = "RUNNING"]
               t     == LaunchByService(s, x) IN
           /\ Typed(tried) /\ tried.state = "ARMED" /\ tried.job = s.job
           /\ Sound(run) /\ run.state = "RUNNING" /\ run.job = s.job
           /\ \/ t = s
              \/ t = StopAs(s, "MISSED", "MISSED_START", x)
              \/ t = StopAs(tried, "FAILED", "DEVICE_FAULT", x)
              \/ t = Settle(run, x) /\ ~TooLate(s, x)
  <1> DEFINE begun == Begin(s.eng, s.job, x.now, NoCond, x.start)
             arm == [s.arm EXCEPT !.launch = x.now]
             tried == [s EXCEPT !.eng = begun.eng]
             run == [s EXCEPT !.eng = begun.eng, !.arm = arm, !.state = "RUNNING"]
  <1>1. /\ s.eng \in Engine /\ s.arm \in Arms /\ s.job \in Jobs /\ x.now \in Nat
        /\ x.start \in {"ok", "refuse", "fault", "early"} /\ s.owner # NoOwner
        /\ Typed(s) /\ s.ready /\ s.state \in Live
    BY DEF Sound, Typed, Service, Live, Contexts
  <1>2. begun.eng \in Engine
    BY <1>1, BeginType
  <1>3. arm \in Arms
    BY <1>1 DEF Arms
  <1>4. run = [s EXCEPT !.eng = begun.eng, !.arm.launch = x.now, !.state = "RUNNING"]
    OBVIOUS
  <1>5. \/ LaunchByService(s, x) = s
        \/ LaunchByService(s, x) = StopAs(s, "MISSED", "MISSED_START", x)
        \/ LaunchByService(s, x) = StopAs(tried, "FAILED", "DEVICE_FAULT", x)
        \/ LaunchByService(s, x) = Settle(run, x) /\ ~TooLate(s, x)
    BY DEF LaunchByService
  <1> HIDE DEF begun, arm
  <1>6. Typed(tried) /\ tried.state = "ARMED" /\ tried.job = s.job
    BY <1>1, <1>2 DEF Typed, Service
  <1>7. /\ Typed(run) /\ run.state = "RUNNING" /\ run.job = s.job
        /\ run.owner = s.owner /\ run.arm = arm /\ run.ready = s.ready
    BY <1>1, <1>2, <1>3 DEF Typed, Service, States
  <1> HIDE DEF run, tried
  <1>8. Sound(run)
    BY <1>1, <1>3, <1>7, SentinelAssumption, TxEngineAssumption DEF Sound, Live
  <1> QED
    BY <1>4, <1>5, <1>6, <1>7, <1>8 DEF begun, tried

\* So does a launch by the service, given, missed or refused.
LEMMA LaunchByServiceRecords ==
    ASSUME NEW s, Sound(s), s.state = "ARMED", Records(s), NEW x \in Contexts
    PROVE  Records(LaunchByService(s, x))
  <1> DEFINE begun == Begin(s.eng, s.job, x.now, NoCond, x.start)
             tried == [s EXCEPT !.eng = begun.eng]
             run   == [s EXCEPT !.eng = begun.eng, !.arm.launch = x.now, !.state = "RUNNING"]
             t     == LaunchByService(s, x)
  <1>1. /\ Typed(tried) /\ tried.state = "ARMED" /\ tried.job = s.job
        /\ Sound(run) /\ run.state = "RUNNING" /\ run.job = s.job
        /\ \/ t = s
           \/ t = StopAs(s, "MISSED", "MISSED_START", x)
           \/ t = StopAs(tried, "FAILED", "DEVICE_FAULT", x)
           \/ t = Settle(run, x) /\ ~TooLate(s, x)
    BY LaunchCases
  <1>2. /\ tried.terminals = s.terminals /\ tried.retained = s.retained
        /\ run.terminals = s.terminals /\ run.retained = s.retained
    BY DEF Sound, Typed, Service
  <1>3. Typed(s) /\ s.job \in Jobs
    BY DEF Sound, Typed, Service, Live
  <1> HIDE DEF begun, tried, run, t
  <1>4. Records(tried) /\ Records(run)
    BY <1>1, <1>2, FrameRecords DEF Live
  <1>5. Records(Settle(run, x))
    BY <1>1, <1>4, SettleRecords
  <1>6. Records(StopAs(s, "MISSED", "MISSED_START", x))
    BY <1>3, EndCodes, StopAsRecords DEF Live
  <1>7. Records(StopAs(tried, "FAILED", "DEVICE_FAULT", x))
    BY <1>1, <1>3, <1>4, EndCodes, StopAsRecords DEF Live
  <1> QED
    BY <1>1, <1>5, <1>6, <1>7 DEF t

\* poll() keeps the records.
LEMMA PollServiceRecords ==
    ASSUME NEW s0, Sound(s0), Records(s0), NEW x \in Contexts
    PROVE  Records(PollService(s0, x))
  <1> DEFINE s == Refresh(s0, x)
             run == [s EXCEPT !.state = "RUNNING"]
  <1>1. Sound(s) /\ Records(s)
    BY RefreshKeeps, RefreshRecords DEF Keeps
  <1>2. \/ PollService(s0, x) = s
        \/ PollService(s0, x) = Settle(s, x) /\ s.state = "RUNNING"
        \/ PollService(s0, x) = LaunchByService(s, x) /\ s.state = "ARMED"
        \/ PollService(s0, x) = Settle(run, x) /\ s.state = "ARMED"
    BY DEF PollService, PollRefreshed
  <1> HIDE DEF s
  <1>3. CASE PollService(s0, x) = Settle(run, x) /\ s.state = "ARMED"
    <2>1. /\ Sound(run) /\ run.state = "RUNNING" /\ run.job = s.job
          /\ run.terminals = s.terminals /\ run.retained = s.retained
      BY <1>1, <1>3 DEF Sound, Typed, Service, States, Live
    <2> HIDE DEF run
    <2>2. Records(run)
      BY <1>1, <1>3, <2>1, FrameRecords DEF Live
    <2> QED
      BY <1>3, <2>1, <2>2, SettleRecords
  <1> QED
    BY <1>1, <1>2, <1>3, SettleRecords, LaunchByServiceRecords

-------------------------------------------------------------------------------
(* Requests. *)

\* A refusal or a success answers with the service it is given.
LEMMA AnswerRecords ==
    ASSUME NEW s, Records(s), NEW r
    PROVE  Records(Success(s, r).s) /\ \A err : Records(Reject(s, r, err).s)
  BY DEF Success, Reject

\* touch_terminal moves a record to the front and changes none.
LEMMA TouchTerminalRecords ==
    ASSUME NEW s, Sound(s), Records(s), NEW id
    PROVE  Records(TouchTerminal(s, id))
  <1>1. CASE \E r \in s.terminals : r.job = id
    <2> DEFINE r == CHOOSE q \in s.terminals : q.job = id
               rest == s.terminals \ {r}
               front == PushFront(rest, r)
               U == Compact(front)
               t == TouchTerminal(s, id)
    <2>1. r \in s.terminals
      BY <1>1
    <2>2. t = [s EXCEPT !.terminals = U]
      BY <1>1 DEF TouchTerminal, ToFront
    <2> HIDE DEF r
    <2>3. /\ r \in TerminalRecords /\ rest \in SUBSET TerminalRecords /\ Ranked(rest)
          /\ Once(rest) /\ (\A q \in rest : q.job # r.job)
          /\ Cardinality(rest) + 1 <= Cardinality(s.terminals) /\ rest \cup {r} = s.terminals
          /\ TerminalCap \in Nat /\ Cardinality(s.terminals) \in Nat
      <3>1. s.terminals \in SUBSET TerminalRecords /\ IsFiniteSet(s.terminals)
        BY DEF Sound, Typed, Service
      <3>2. IsFiniteSet(rest) /\ Cardinality(rest) = Cardinality(s.terminals) - 1
        BY <2>1, <3>1, FS_RemoveElement
      <3>3. Cardinality(s.terminals) \in Nat /\ TerminalCap \in Nat
        BY <3>1, FS_CardinalityType, JobServiceAssumption
      <3> QED
        BY <2>1, <3>1, <3>2, <3>3 DEF Records, Ranked, Once
    <2> HIDE DEF rest
    <2>4. /\ front \in SUBSET TerminalRecords /\ Ranked(front) /\ Once(front)
          /\ Cardinality(front) <= Cardinality(rest) + 1
          /\ Carries(s.terminals, front) /\ Carries(front, s.terminals)
      BY <2>3, PushFrontRecords
    <2> HIDE DEF front
    <2>5. /\ U \in SUBSET TerminalRecords /\ Ranked(U) /\ Once(U)
          /\ Cardinality(U) <= Cardinality(front)
          /\ Carries(front, U) /\ Carries(U, front)
      BY <2>4, CompactRecords
    <2> HIDE DEF U
    <2>6. Carries(s.terminals, U) /\ Carries(U, s.terminals)
      BY <2>4, <2>5 DEF Carries
    <2>7. Cardinality(U) <= TerminalCap
      <3>1. /\ Cardinality(U) \in Nat /\ Cardinality(front) \in Nat /\ Cardinality(rest) \in Nat
        BY <2>3, <2>4, <2>5, FS_CardinalityType DEF Ranked
      <3> QED
        BY <2>3, <2>4, <2>5, <3>1 DEF Records
    <2>8. /\ t.terminals = U /\ t.retained = s.retained /\ t.job = s.job /\ t.state = s.state
      BY <2>2 DEF Sound, Typed, Service
    <2> HIDE DEF t
    <2>9. JobsOf(U) = JobsHeld(s.retained)
      BY <2>6, CarriesJobs DEF Records
    <2>10. s.state \in Live => \A q \in U : q.job # s.job.id
      BY <2>6 DEF Records, Carries
    <2>11. s.state \in Ended => \E q \in U : q.job = s.job.id /\ q.state = s.state
      BY <2>6 DEF Records, Carries
    <2> QED
      BY <2>5, <2>7, <2>8, <2>9, <2>10, <2>11 DEF Records, t
  <1>2. CASE ~\E r \in s.terminals : r.job = id
    <2> DEFINE t == TouchTerminal(s, id)
    <2>1. t.terminals = s.terminals /\ t.retained = s.retained /\ t.job = s.job /\ t.state = s.state
      BY <1>2 DEF TouchTerminal, Sound, Typed, Service
    <2> HIDE DEF t
    <2> QED
      BY <2>1, FrameRecords DEF t
  <1> QED
    BY <1>1, <1>2

\* CLAIM and RENEW touch no record.
LEMMA LeaseRecords ==
    ASSUME NEW s, Sound(s), Records(s), NEW r, NEW x
    PROVE  Records(DoClaim(s, r, x).s) /\ Records(DoRenew(s, r, x).s)
  <1> DEFINE o == [id |-> r.body.owner, session |-> r.session, principal |-> r.principal,
                   expires |-> x.now + r.body.lease, release |-> FALSE]
             t == [s EXCEPT !.eng = CalibrationBoundary(@), !.owner = o]
             u == [s EXCEPT !.owner.expires = x.now + r.body.lease]
  <1>1. \/ DoClaim(s, r, x) = Reject(s, r, "BUSY")
        \/ DoClaim(s, r, x) = Success(t, r)
    BY DEF DoClaim
  <1>2. \/ DoRenew(s, r, x) = Reject(s, r, "NOT_OWNER")
        \/ DoRenew(s, r, x) = Reject(s, r, "LEASE_EXPIRED")
        \/ DoRenew(s, r, x) = Success(u, r)
    BY DEF DoRenew
  <1>3. /\ t.terminals = s.terminals /\ t.retained = s.retained /\ t.job = s.job
        /\ t.state = s.state
        /\ u.terminals = s.terminals /\ u.retained = s.retained /\ u.job = s.job
        /\ u.state = s.state
    BY DEF Sound, Typed, Service
  <1> HIDE DEF t, u
  <1>4. Records(t) /\ Records(u)
    BY <1>3, FrameRecords
  <1> QED
    BY <1>1, <1>2, <1>4, AnswerRecords

\* RELEASE clears the job, not its record.
LEMMA DoReleaseRecords ==
    ASSUME NEW s, Sound(s), Records(s), NEW r
    PROVE  Records(DoRelease(s, r).s)
  <1>1. \/ DoRelease(s, r) = Reject(s, r, "INVALID_STATE")
        \/ DoRelease(s, r) = Success(DropOwner(ClearJob(s)), r)
    BY DEF DoRelease
  <1>2. Records(DropOwner(ClearJob(s)))
    BY ClearJobProps, ClearJobRecords, DropOwnerRecords DEF Sound
  <1> QED
    BY <1>1, <1>2, AnswerRecords

\* LOAD: a job whose record is retained is answered from it and not admitted.
LEMMA DoLoadRecords ==
    ASSUME NEW s, Sound(s), Records(s), NEW r, WellFormed(r), r.op = "LOAD", NEW x \in Contexts
    PROVE  Records(DoLoad(s, r, x).s)
  <1> DEFINE j == r.body.job
             p == Prepare(s.eng, j, x.saved, x.admit # "store")
             tried == [s EXCEPT !.eng = p.eng]
             loaded == [tried EXCEPT !.job = j, !.arm = NoArm, !.state = "LOADED"]
             d == DoLoad(s, r, x)
  <1>1. \/ \E err : d = Reject(s, r, err)
        \/ d = Success(TouchTerminal(s, j.id), r)
        \/ d = Success(s, r)
        \/ d = AdmitJob(s, r, x) /\ Retained(s, j.id) = {}
    BY DEF DoLoad
  <1>2. \/ \E err : AdmitJob(s, r, x) = Reject(s, r, err)
        \/ \E err : AdmitJob(s, r, x) = Reject(tried, r, err)
        \/ AdmitJob(s, r, x) = Success(loaded, r)
    BY DEF AdmitJob
  <1>3. /\ tried.terminals = s.terminals /\ tried.retained = s.retained
        /\ tried.job = s.job /\ tried.state = s.state
        /\ loaded.terminals = s.terminals /\ loaded.retained = s.retained
        /\ loaded.job = j /\ loaded.state = "LOADED"
    BY DEF Sound, Typed, Service
  <1>4. Records(TouchTerminal(s, j.id))
    BY TouchTerminalRecords
  <1> HIDE DEF j, tried, loaded
  <1>5. Records(tried)
    BY <1>3, FrameRecords
  <1>6. ASSUME Retained(s, j.id) = {} PROVE Records(loaded)
    <2>1. j.id \notin JobsHeld(s.retained)
      BY <1>6 DEF Retained, JobsHeld
    <2>2. \A q \in s.terminals : q.job # j.id
      BY <2>1 DEF Records, JobsOf
    <2> QED
      BY <1>3, <2>2 DEF Records, Ended
  <1> QED
    BY <1>1, <1>2, <1>4, <1>5, <1>6, AnswerRecords

\* An accepted ARM arms the loaded job, or records it as failed.
LEMMA ScheduleJobRecords ==
    ASSUME NEW s, Sound(s), s.state = "LOADED", Records(s), NEW r, WellFormed(r), r.op = "ARM",
           NEW x \in Contexts
    PROVE  Records(ScheduleJob(s, r, x).s)
  <1> DEFINE b == r.body.arm
             start == StartMonotonic(x.clk, b.startUtc)
             arm == [startUtc |-> b.startUtc, maxUnc |-> b.maxUnc, start |-> start,
                     local |-> Local, launch |-> NoTime]
             cond == [startUtc |-> b.startUtc,
                      maxUnc   |-> IF b.maxUnc < MaxArmUnc THEN b.maxUnc ELSE MaxArmUnc,
                      deadline |-> StartMonotonic(x.clk, b.startUtc + StartWindow(b.startUtc))]
             begun == Begin(s.eng, s.job, start, cond, x.start)
             armed == [s EXCEPT !.state = "ARMED", !.arm = arm]
             going == [armed EXCEPT !.eng = begun.eng]
             refused == [armed EXCEPT !.arm = NoArm, !.eng = begun.eng]
             failed == StopAs(refused, "FAILED", "DEVICE_FAULT", x)
  <1>1. \/ ScheduleJob(s, r, x) = Success(armed, r)
        \/ ScheduleJob(s, r, x) = Success(going, r)
        \/ \E err : ScheduleJob(s, r, x) = Reject(failed, r, err)
    BY DEF ScheduleJob
  <1>2. begun.eng \in Engine
    <2>1. b.startUtc \in Nat /\ b.maxUnc \in Nat
      <3>1. b \in ArmBodies
        BY DEF WellFormed
      <3> QED
        BY <3>1, JobServiceAssumption
    <2>2. x.clk.off \in Int /\ StartWindow(b.startUtc) \in Int
      BY <2>1, JobServiceAssumption, ArmPolicyAssumption DEF Contexts, ClockSnapshot, StartWindow
    <2>3. start \in Int /\ StartMonotonic(x.clk, b.startUtc + StartWindow(b.startUtc)) \in Int
      BY <2>1, <2>2 DEF StartMonotonic
    <2>4. cond \in Conditions \cup {NoCond}
      BY <2>1, <2>3, ArmPolicyAssumption DEF Conditions
    <2>5. s.eng \in Engine /\ x.start \in {"ok", "refuse", "fault", "early"}
      BY DEF Sound, Typed, Service, Contexts
    <2> HIDE DEF start, cond
    <2> QED
      BY <2>3, <2>4, <2>5, BeginType
  <1> HIDE DEF arm, begun
  <1>3. /\ armed.terminals = s.terminals /\ armed.retained = s.retained /\ armed.job = s.job
        /\ armed.state = "ARMED"
        /\ going.terminals = s.terminals /\ going.retained = s.retained /\ going.job = s.job
        /\ going.state = "ARMED"
        /\ refused.terminals = s.terminals /\ refused.retained = s.retained
        /\ refused.job = s.job /\ refused.state = "ARMED"
    BY DEF Sound, Typed, Service
  <1>4. Typed(refused) /\ s.job \in Jobs
    <2>1. refused = [s EXCEPT !.state = "ARMED", !.arm = NoArm, !.eng = begun.eng]
      BY DEF Sound, Typed, Service
    <2> HIDE DEF refused
    <2> QED
      BY <1>2, <2>1 DEF Sound, Typed, Service, States, Live
  <1> HIDE DEF armed, going, refused
  <1>5. Records(armed) /\ Records(going) /\ Records(refused)
    BY <1>3, FrameRecords DEF Live
  <1>6. Records(failed)
    BY <1>3, <1>4, <1>5, EndCodes, StopAsRecords DEF Live
  <1> QED
    BY <1>1, <1>5, <1>6, AnswerRecords

\* ARM: a repetition is answered from the record of its job.
LEMMA DoArmRecords ==
    ASSUME NEW s, Sound(s), Records(s), NEW r, WellFormed(r), r.op = "ARM", NEW x \in Contexts
    PROVE  Records(DoArm(s, r, x).s)
  <1>1. \/ \E err : DoArm(s, r, x) = Reject(s, r, err)
        \/ DoArm(s, r, x) = Success(TouchTerminal(s, r.body.job), r)
        \/ DoArm(s, r, x) = Success(s, r)
        \/ DoArm(s, r, x) = ScheduleJob(s, r, x) /\ s.state = "LOADED"
    BY DEF DoArm
  <1> QED
    BY <1>1, AnswerRecords, TouchTerminalRecords, ScheduleJobRecords

\* ABORT records a live job.
LEMMA AbortJobRecords ==
    ASSUME NEW s, Sound(s), Records(s), NEW r, NEW id, NEW x \in Contexts
    PROVE  Records(AbortJob(s, r, id, x).s)
  <1> DEFINE stopped == StopAs(s, "ABORTED", "NONE", x)
  <1>1. \/ \E err : AbortJob(s, r, id, x) = Reject(s, r, err)
        \/ AbortJob(s, r, id, x) = Success(s, r)
        \/ /\ s.job # NoJob /\ s.state \notin TerminalStates
           /\ \/ AbortJob(s, r, id, x) = Success(stopped, r)
              \/ \E err : AbortJob(s, r, id, x) = Reject(stopped, r, err)
    BY DEF AbortJob, TerminalStates
  <1>2. ASSUME s.job # NoJob, s.state \notin TerminalStates PROVE Records(stopped)
    <2>1. Typed(s) /\ s.job \in Jobs /\ s.state \in Live
      BY <1>2 DEF Sound, Typed, Service, States, Live, TerminalStates
    <2> QED
      BY <2>1, EndCodes, StopAsRecords
  <1> HIDE DEF stopped
  <1> QED
    BY <1>1, <1>2, AnswerRecords

\* Dispatch is one of the operations, or a refusal.
LEMMA DispatchCases ==
    ASSUME NEW s, NEW r, WellFormed(r), NEW x
    PROVE  LET d == Dispatch(s, r, x) IN
           \/ d = Success(s, r) /\ r.op \in ReadOps
           \/ \E err \in {"LEASE_EXPIRED", "NOT_OWNER"} : d = Reject(s, r, err)
           \/ r.op = "CLAIM" /\ d = DoClaim(s, r, x)
           \/ /\ s.owner # NoOwner /\ Owns(s, r)
              /\ \/ r.op = "RENEW" /\ d = DoRenew(s, r, x)
                 \/ r.op = "RELEASE" /\ d = DoRelease(s, r)
                 \/ r.op = "LOAD" /\ d = DoLoad(s, r, x)
                 \/ r.op = "ARM" /\ d = DoArm(s, r, x)
                 \/ r.op = "ABORT" /\ d = AbortJob(s, r, r.body.job, x)
  BY DEF Dispatch, WellFormed, Ops, ReadOps

\* Every operation keeps the records.
LEMMA DispatchRecords ==
    ASSUME NEW s, Sound(s), Records(s), NEW r, WellFormed(r), NEW x \in Contexts
    PROVE  Records(Dispatch(s, r, x).s)
  <1> DEFINE d == Dispatch(s, r, x)
  <1>1. \/ d = Success(s, r) \/ \E err : d = Reject(s, r, err)
        \/ d = DoClaim(s, r, x) \/ d = DoRenew(s, r, x) \/ d = DoRelease(s, r)
        \/ d = DoLoad(s, r, x) /\ r.op = "LOAD"
        \/ d = DoArm(s, r, x) /\ r.op = "ARM"
        \/ d = AbortJob(s, r, r.body.job, x)
    BY DispatchCases
  <1> HIDE DEF d
  <1>2. /\ Records(Success(s, r).s) /\ \A err : Records(Reject(s, r, err).s)
        /\ Records(DoClaim(s, r, x).s) /\ Records(DoRenew(s, r, x).s)
        /\ Records(DoRelease(s, r).s) /\ Records(AbortJob(s, r, r.body.job, x).s)
    BY AnswerRecords, LeaseRecords, DoReleaseRecords, AbortJobRecords
  <1>3. /\ r.op = "LOAD" => Records(DoLoad(s, r, x).s)
        /\ r.op = "ARM" => Records(DoArm(s, r, x).s)
    BY DoLoadRecords, DoArmRecords
  <1> QED
    BY <1>1, <1>2, <1>3 DEF d

\* What Serve does with a request: the cached reply, a refusal or a dispatch,
\* and the replay cache.
LEMMA ServeCases ==
    ASSUME NEW s, Sound(s), NEW r, WellFormed(r), NEW x \in Contexts
    PROVE  LET done == Dispatch(s, r, x)
               d    == Serve(s, r, x) IN
           \/ d = done /\ r.id = NoRequestId
           \/ d = Reject(s, r, "REQUEST_ID_REUSE")
           \/ \E hit \in Cached(s, r) :
                d = [s |-> [s EXCEPT !.replay = ToFront(@, hit)], reply |-> hit.reply]
           \/ /\ d = [s |-> Remember(done.s, r, done.reply, x), reply |-> done.reply]
              /\ r.id # NoRequestId
  <1> DEFINE done == Dispatch(s, r, x)
             t == Remember(done.s, r, done.reply, x)
  <1>1. done = [s |-> done.s, reply |-> done.reply]
    BY DispatchObeys DEF Obeys
  <1> HIDE DEF done
  <1>2. CASE Cached(s, r) # {}
    BY <1>2 DEF Serve
  <1>3. CASE Cached(s, r) = {}
    <2>1. Serve(s, r, x) = IF r.id = NoRequestId THEN done ELSE [done EXCEPT !.s = t]
      BY <1>3 DEF Serve, Remembered, done
    <2> HIDE DEF t
    <2>2. [done EXCEPT !.s = t] = [s |-> t, reply |-> done.reply]
      BY <1>1
    <2> QED
      BY <2>1, <2>2 DEF t, done
  <1> QED
    BY <1>2, <1>3

\* A replay reads the records and writes none; a dispatch keeps them.
LEMMA ServeRecords ==
    ASSUME NEW s, Sound(s), Records(s), NEW r, WellFormed(r), NEW x \in Contexts
    PROVE  Records(Serve(s, r, x).s)
  <1> DEFINE done == Dispatch(s, r, x)
             d    == Serve(s, r, x)
  <1>1. Sound(done.s) /\ Records(done.s)
    BY DispatchObeys, DispatchRecords DEF Obeys
  <1>0. \A reply : \E T : Remember(done.s, r, reply, x) = [done.s EXCEPT !.replay = T]
    BY DEF Remember
  <1>2. \/ d.s = done.s
        \/ d = Reject(s, r, "REQUEST_ID_REUSE")
        \/ \E T : d.s = [s EXCEPT !.replay = T]
        \/ \E T : d.s = [done.s EXCEPT !.replay = T]
    <2>1. \/ d = done
          \/ d = Reject(s, r, "REQUEST_ID_REUSE")
          \/ \E hit \in Cached(s, r) :
               d = [s |-> [s EXCEPT !.replay = ToFront(@, hit)], reply |-> hit.reply]
          \/ d = [s |-> Remember(done.s, r, done.reply, x), reply |-> done.reply]
      BY ServeCases
    <2> HIDE DEF d, done
    <2>2. CASE \E hit \in Cached(s, r) :
                 d = [s |-> [s EXCEPT !.replay = ToFront(@, hit)], reply |-> hit.reply]
      <3>1. PICK hit : d = [s |-> [s EXCEPT !.replay = ToFront(s.replay, hit)], reply |-> hit.reply]
        BY <2>2
      <3> DEFINE T == ToFront(s.replay, hit)
      <3>2. d.s = [s EXCEPT !.replay = T]
        BY <3>1
      <3> HIDE DEF T
      <3> QED
        BY <3>2
    <2>3. CASE d = [s |-> Remember(done.s, r, done.reply, x), reply |-> done.reply]
      <3>1. d.s = Remember(done.s, r, done.reply, x)
        BY <2>3
      <3> QED
        BY <1>0, <3>1 DEF done
    <2> QED
      BY <2>1, <2>2, <2>3
  <1> HIDE DEF done, d
  <1>3. \A T : Records([s EXCEPT !.replay = T]) /\ Records([done.s EXCEPT !.replay = T])
    <2> TAKE T
    <2> DEFINE u == [s EXCEPT !.replay = T]
               v == [done.s EXCEPT !.replay = T]
    <2>1. /\ u.terminals = s.terminals /\ u.retained = s.retained /\ u.job = s.job
          /\ u.state = s.state
          /\ v.terminals = done.s.terminals /\ v.retained = done.s.retained
          /\ v.job = done.s.job /\ v.state = done.s.state
      BY <1>1 DEF Sound, Typed, Service
    <2> HIDE DEF u, v
    <2> QED
      BY <1>1, <2>1, FrameRecords DEF u, v
  <1> QED
    BY <1>1, <1>2, <1>3, AnswerRecords DEF d

\* A request is refused by the prologue or served by a session that is seen.
LEMMA HandleCases ==
    ASSUME NEW s0, Sound(s0), NEW r, WellFormed(r), NEW x \in Contexts
    PROVE  LET s    == Refresh(s0, x)
               seen == SeeSession(s, r, x)
               d    == HandleOwned(s0, r, x) IN
           /\ Keeps(s0, s) /\ Sound(s) /\ Sound(seen)
           /\ \/ \E err \in {"DEVICE_FAULT", "BUSY", "HELLO_REQUIRED", "AUTHENTICATION_REQUIRED"} :
                   d = Reject(s, r, err)
              \/ /\ d = Serve(seen, r, x) /\ ~Refused(s, r, x)
                 /\ \A n \in SessionOf(s, r.session) : n.principal = r.principal
  <1> DEFINE s == Refresh(s0, x)
             seen == SeeSession(s, r, x)
             d == HandleOwned(s0, r, x)
  <1>1. Keeps(s0, s) /\ Sound(s)
    BY RefreshKeeps DEF Keeps
  <1>2. Sound(seen)
    BY <1>1, SeeSessionKeeps DEF Keeps
  <1>3. \/ \E err \in {"DEVICE_FAULT", "BUSY", "HELLO_REQUIRED", "AUTHENTICATION_REQUIRED"} :
             d = Reject(s, r, err)
        \/ /\ d = Serve(seen, r, x) /\ ~Refused(s, r, x)
           /\ \A n \in SessionOf(s, r.session) : n.principal = r.principal
    BY DEF HandleOwned, Handle
  <1> QED
    BY <1>1, <1>2, <1>3

\* A request, from its prologue to its reply, keeps the records.
LEMMA HandleOwnedRecords ==
    ASSUME NEW s0, Sound(s0), Records(s0), NEW r, WellFormed(r), NEW x \in Contexts
    PROVE  Records(HandleOwned(s0, r, x).s)
  <1> DEFINE s == Refresh(s0, x)
             seen == SeeSession(s, r, x)
             d == HandleOwned(s0, r, x)
  <1>1. /\ Sound(s) /\ Sound(seen)
        /\ (\E err : d = Reject(s, r, err)) \/ d = Serve(seen, r, x)
    BY HandleCases
  <1>2. Records(s)
    BY RefreshRecords
  <1> HIDE DEF s, d
  <1>3. /\ seen.terminals = s.terminals /\ seen.retained = s.retained /\ seen.job = s.job
        /\ seen.state = s.state
    BY <1>1 DEF SeeSession, Sound, Typed, Service
  <1> HIDE DEF seen
  <1>4. Records(seen)
    BY <1>2, <1>3, FrameRecords
  <1> QED
    BY <1>1, <1>2, <1>4, ServeRecords, AnswerRecords DEF d

-------------------------------------------------------------------------------
(* Local controls, resets and the engine. *)

\* What a local abort does once it has polled.
LEMMA AbortPolledCases ==
    ASSUME NEW s, Sound(s), NEW r, NEW x \in Contexts
    PROVE  LET d == AbortPolled(s, r, x)
               a == AbortJob(s, r, s.job.id, x) IN
           \/ d.s = s /\ s.state = "FAILED"
           \/ d.s = a.s
           \/ d.s = DropOwner(a.s) /\ Sound(a.s)
           \/ d.s = DropOwner(s)
  <1> DEFINE a == AbortJob(s, r, s.job.id, x)
  <1>1. a = [s |-> a.s, reply |-> a.reply] /\ Sound(a.s)
    BY AbortJobKeeps DEF Keeps
  <1>2. ~s.ready => s.state = "FAILED"
    BY DEF Sound
  <1>3. s.eng.out => s.state \in {"ARMED", "RUNNING", "FAILED"}
    BY DEF Sound, Quiet
  <1>4. s.state \in {"ARMED", "RUNNING"} => s.job # NoJob
    BY DEF Sound, Live
  <1>5. CASE s.state = "FAILED"
    BY <1>5 DEF AbortPolled, Reject
  <1>6. CASE s.state # "FAILED" /\ s.job # NoJob /\ s.state \notin {"COMPLETE", "MISSED"}
    <2>1. AbortPolled(s, r, x) = IF a.reply.err = "NONE" THEN [a EXCEPT !.s = DropOwner(@)]
                                                         ELSE a
      BY <1>2, <1>6 DEF AbortPolled
    <2> HIDE DEF a
    <2>2. [a EXCEPT !.s = DropOwner(@)].s = DropOwner(a.s)
      BY <1>1
    <2> QED
      BY <1>1, <2>1, <2>2 DEF a
  <1>7. CASE s.state # "FAILED" /\ ~(s.job # NoJob /\ s.state \notin {"COMPLETE", "MISSED"})
    <2>1. AbortPolled(s, r, x) = [Success(s, r) EXCEPT !.s = DropOwner(@)]
      BY <1>2, <1>3, <1>4, <1>7 DEF AbortPolled, Success
    <2> QED
      BY <2>1 DEF Success
  <1> QED
    BY <1>5, <1>6, <1>7

\* A local abort after its poll records an end, or nothing.
LEMMA AbortPolledRecords ==
    ASSUME NEW s, Sound(s), Records(s), NEW r, NEW x \in Contexts
    PROVE  Records(AbortPolled(s, r, x).s)
  <1> DEFINE a == AbortJob(s, r, s.job.id, x)
  <1>1. Records(a.s)
    BY AbortJobRecords
  <1>2. Typed(s) /\ (Sound(a.s) => Typed(a.s))
    BY DEF Sound
  <1>3. Records(DropOwner(s)) /\ (Sound(a.s) => Records(DropOwner(a.s)))
    BY <1>1, <1>2, DropOwnerRecords
  <1> HIDE DEF a
  <1> QED
    BY <1>1, <1>3, AbortPolledCases DEF a

\* What the interlock puts in force before its abort.
Latched(s) == [s EXCEPT !.inhibited = TRUE, !.eng = InhibitOutput(@)]

\* Setting the interlock is setting a mode.
LEMMA LatchedSound ==
    ASSUME NEW s, Sound(s)
    PROVE  LET t == Latched(s) IN
           /\ Sound(t) /\ t.state = s.state /\ t.job = s.job /\ t.owner = s.owner
           /\ t.arm = s.arm /\ t.terminals = s.terminals /\ t.retained = s.retained
           /\ t.sessions = s.sessions /\ t.replay = s.replay
           /\ t.eng = InhibitOutput(s.eng) /\ t.boot = s.boot
  <1> DEFINE f == InhibitOutput(s.eng)
             t == Latched(s)
  <1>1. /\ f \in Engine /\ f.st = s.eng.st /\ f.out = s.eng.out
        /\ f.frozen = s.eng.frozen /\ f.pair = s.eng.pair
    BY InhibitOutputType DEF Sound, Typed, Service
  <1> HIDE DEF f
  <1>2. /\ Typed(t) /\ t.state = s.state /\ t.job = s.job /\ t.owner = s.owner
        /\ t.arm = s.arm /\ t.terminals = s.terminals /\ t.retained = s.retained
        /\ t.sessions = s.sessions /\ t.replay = s.replay
        /\ t.eng = f /\ t.ready = s.ready /\ t.boot = s.boot
    BY <1>1 DEF Latched, Sound, Typed, Service, f
  <1> HIDE DEF t
  <1>3. Sound(t)
    BY <1>1, <1>2 DEF Sound, Quiet, Thawed
  <1> QED
    BY <1>2, <1>3 DEF t, f

\* The interlock polls, aborts and disables once more.
LEMMA LocalInhibitCases ==
    ASSUME NEW s, Sound(s), NEW r, NEW x \in Contexts, NEW off2 \in BOOLEAN
    PROVE  LET p == PollService(Latched(s), x)
               a == AbortPolled(p, r, x).s IN
           /\ Sound(p) /\ Sound(a)
           /\ LocalInhibitOf(s, r, x, off2).s = [a EXCEPT !.eng = Disable(@, off2)]
  <1> DEFINE p == PollService(Latched(s), x)
             a == AbortPolled(p, r, x).s
  <1>1. Sound(p)
    BY LatchedSound, PollServiceKeeps DEF Keeps
  <1>2. a = LocalAbortOf(Latched(s), r, x).s
    BY DEF LocalAbortOf
  <1>3. Sound(a)
    BY <1>2, LatchedSound, LocalAbortKeeps DEF Keeps
  <1> HIDE DEF p, a
  <1>4. LocalInhibitOf(s, r, x, off2).s = [a EXCEPT !.eng = Disable(@, off2)]
    BY <1>2 DEF LocalInhibitOf, InhibitAborted, Success, Reject, Latched
  <1> QED
    BY <1>1, <1>3, <1>4 DEF p, a

\* The interlock records no more than its local abort.
LEMMA LocalInhibitRecords ==
    ASSUME NEW s, Sound(s), Records(s), NEW r, NEW x \in Contexts, NEW off2 \in BOOLEAN
    PROVE  Records(LocalInhibitOf(s, r, x, off2).s)
  <1> DEFINE l == Latched(s)
             p == PollService(l, x)
             a == AbortPolled(p, r, x).s
             t == LocalInhibitOf(s, r, x, off2).s
  <1>1. Sound(p) /\ Sound(a) /\ t = [a EXCEPT !.eng = Disable(@, off2)]
    BY LocalInhibitCases
  <1>2. Sound(l) /\ Records(l)
    BY LatchedSound, FrameRecords
  <1> HIDE DEF l
  <1>3. Records(p)
    BY <1>2, PollServiceRecords
  <1> HIDE DEF p
  <1>4. Records(a)
    BY <1>1, <1>3, AbortPolledRecords
  <1> HIDE DEF a
  <1>5. /\ t.terminals = a.terminals /\ t.retained = a.retained /\ t.job = a.job
        /\ t.state = a.state
    BY <1>1 DEF Sound, Typed, Service
  <1> QED
    BY <1>4, <1>5, FrameRecords

\* A service that has just been made keeps no record.
LEMMA NoRecords ==
    ASSUME NEW s, s.terminals = {}, s.retained = {}, s.state \in {"EMPTY", "FAILED"}
    PROVE  Records(s)
  <1>1. IsFiniteSet({}) /\ Cardinality({}) = 0 /\ TerminalCap \in Nat
    BY FS_EmptySet, JobServiceAssumption
  <1>2. Ranked(s.terminals) /\ Once(s.terminals) /\ Cardinality(s.terminals) <= TerminalCap
    BY <1>1 DEF Ranked, Once
  <1> QED
    BY <1>2 DEF Records, JobsOf, JobsHeld, Live, Ended

\* Upkeep, the freezing of a pair and a step of the engine run no method of
\* the service.
LEMMA UpkeepCases ==
    ASSUME IInv, Upkeep \/ FreezePair \/ Engine1
    PROVE  /\ now' = now /\ saved' = saved /\ last' = NoReply
           /\ svc'.state = svc.state /\ svc'.job = svc.job /\ svc'.owner = svc.owner
           /\ svc'.arm = svc.arm /\ svc'.boot = svc.boot
           /\ svc'.terminals = svc.terminals /\ svc'.retained = svc.retained
           /\ svc'.sessions = svc.sessions /\ svc'.replay = svc.replay
  <1>1. svc \in Service
    BY DEF IInv, Sound, Typed
  <1>2. CASE Upkeep
    BY <1>1, <1>2 DEF Upkeep, BeginMaintenance, EndMaintenance, FinishVerification, Service
  <1>3. CASE FreezePair
    BY <1>1, <1>3 DEF FreezePair, Service
  <1>4. CASE Engine1
    <2>1. PICK f : svc' = [svc EXCEPT !.eng = f]
      BY <1>4 DEF Engine1, EngineLead, EngineLaunch, EngineMiss, EngineFinish, EngineTail,
                  EngineFault, EngineSafetyStop, EngineStep
    <2>2. now' = now /\ saved' = saved /\ last' = NoReply
      BY <1>4 DEF Engine1, EngineLead, EngineLaunch, EngineMiss, EngineFinish, EngineTail,
                  EngineFault, EngineSafetyStop, EngineStep
    <2> QED
      BY <1>1, <2>1, <2>2 DEF Service
  <1> QED
    BY <1>2, <1>3, <1>4

\* The constructor and reset() begin with empty lists and no job.
LEMMA BlankService ==
    ASSUME NEW s, NEW e, NEW off \in BOOLEAN, NEW verify \in BOOLEAN, NEW fresh \in BOOLEAN,
           NEW t \in {Boot(e, off, verify), ResetOf(s, off, fresh)}
    PROVE  /\ t.terminals = {} /\ t.retained = {} /\ t.sessions = {} /\ t.replay = {}
           /\ t.state \in {"EMPTY", "FAILED"} /\ t.owner = NoOwner /\ t.arm = NoArm
  <1>1. CASE t = Boot(e, off, verify)
    BY <1>1 DEF Boot
  <1>2. CASE t = ResetOf(s, off, fresh)
    BY <1>2 DEF ResetOf, Boot
  <1> QED
    BY <1>1, <1>2

\* The records of the service in its present state.
Recorded == Records(svc)

\* Every step keeps the records: one case for each action.
LEMMA NextRecords == IInv /\ Recorded /\ [Next]_vars => Recorded'
  <1> SUFFICES ASSUME IInv, Records(svc), [Next]_vars PROVE Records(svc')
    BY DEF Recorded
  <1>0. Sound(svc)
    BY DEF IInv
  <1>1. CASE Requests
    <2>1. PICK r : \E from \in Senders, x \in Contexts : Serves(from, r, x)
      BY <1>1, RequestsCases DEF IInv
    <2> QED
      BY <1>0, <2>1, HandleOwnedRecords DEF Serves
  <1>2. CASE Poll
    <2>1. PICK x \in PollContexts : svc' = PollService(svc, x)
      BY <1>2 DEF Poll
    <2> QED
      BY <1>0, <2>1, PollContextType, PollServiceRecords
  <1>3. CASE LocalAbort
    <2>1. PICK x \in PollContexts : svc' = LocalAbortOf(svc, [op |-> "LOCAL_ABORT"], x).s
      BY <1>3 DEF LocalAbort
    <2>2. svc' = AbortPolled(PollService(svc, x), [op |-> "LOCAL_ABORT"], x).s
      BY <2>1 DEF LocalAbortOf
    <2>3. Sound(PollService(svc, x)) /\ Records(PollService(svc, x)) /\ x \in Contexts
      BY <1>0, <2>1, PollContextType, PollServiceKeeps, PollServiceRecords DEF Keeps
    <2> QED
      BY <2>2, <2>3, AbortPolledRecords
  <1>4. CASE LocalInhibit
    <2>1. PICK x \in PollContexts, off2 \in BOOLEAN :
            svc' = LocalInhibitOf(svc, [op |-> "INHIBIT"], x, off2).s
      BY <1>4 DEF LocalInhibit
    <2> QED
      BY <1>0, <2>1, PollContextType, LocalInhibitRecords
  <1>5. CASE Upkeep \/ FreezePair \/ Engine1
    BY <1>5, UpkeepCases, FrameRecords
  <1>6. CASE Reset
    <2>1. PICK off \in BOOLEAN, fresh \in BOOLEAN : svc' = ResetOf(svc, off, fresh)
      BY <1>6 DEF Reset
    <2>2. svc'.terminals = {} /\ svc'.retained = {} /\ svc'.state \in {"EMPTY", "FAILED"}
      BY <2>1, BlankService
    <2> QED
      BY <2>2, NoRecords
  <1>7. CASE SaveCorrection \/ Tick \/ UNCHANGED vars
    BY <1>7 DEF SaveCorrection, Tick, vars
  <1> QED
    BY <1>1, <1>2, <1>3, <1>4, <1>5, <1>6, <1>7 DEF Next

\* The lists of terminal records and retained jobs stay coherent and bounded
\* (record_terminal and prune_terminals, job_service.cpp:1012, 1104).
THEOREM RecordsKept == Spec => []Recorded
  <1>1. Init => Recorded
    <2> SUFFICES ASSUME Init PROVE Records(svc)
      BY DEF Recorded
    <2>1. PICK off \in BOOLEAN, verify \in BOOLEAN : svc = Boot(EngineInit, off, verify)
      BY DEF Init
    <2>2. svc.terminals = {} /\ svc.retained = {} /\ svc.state \in {"EMPTY", "FAILED"}
      BY <2>1, BlankService
    <2> QED
      BY <2>2, NoRecords
  <1>2. IInv /\ Recorded /\ [Next]_vars => Recorded'
    BY NextRecords
  <1> QED
    BY <1>1, <1>2, Soundness, PTL DEF Spec

-----------------------------------------------------------------------------
(***************************************************************************)
(* What no step of the service may do, for every set of clients, jobs,     *)
(* clocks and limits: take the transmitter from an owner whose lease runs, *)
(* end an execution but by an abort, clear a failed transmitter, or raise  *)
(* output behind the interlock.                                            *)
(*                                                                         *)
(* The methods of the service are compared by three relations between the  *)
(* service before and after: Steady (the owner, a failure and the output), *)
(* RunKept (an execution is left alone) and Continues (it may end, but not *)
(* by an abort). Two state invariants carry the argument from one step to  *)
(* the next: an idle service has no start pending in its engine (Halted),  *)
(* and a lease marked for release has expired (LeaseOver).                 *)
(***************************************************************************)

\* Nothing is pending in the engine of a service that executes nothing.
Halted(s) == s.state \notin Executing => s.eng.st \in {"idle", "failed"}

\* A pending release belongs to a lease that has expired.
LeaseOver(s, time) == s.owner # NoOwner /\ s.owner.release => time >= s.owner.expires

\* A lease that runs at a time.
Runs(owner, time) == owner # NoOwner /\ time < owner.expires /\ ~owner.release

\* Nobody becomes owner, and an owner whose lease runs stays.
OwnerSteady(s, t, time) ==
    /\ t.owner # NoOwner =>
         /\ s.owner # NoOwner /\ t.owner.id = s.owner.id /\ t.owner.session = s.owner.session
         /\ t.owner.principal = s.owner.principal /\ t.owner.expires = s.owner.expires
         /\ t.owner.release => s.owner.release \/ time >= s.owner.expires
    /\ Runs(s.owner, time) => t.owner = s.owner

\* Nobody becomes owner, no failure is cleared, no start becomes pending, and
\* nothing becomes live or raises output where nothing was live.
Steady(s, t, time) ==
    /\ OwnerSteady(s, t, time)
    /\ s.state = "FAILED" => t.state = "FAILED"
    /\ Halted(s) => Halted(t)
    /\ s.state \notin Live => t.state \notin Live /\ (t.eng.out => s.eng.out)

\* The engine's start is as it was.
SameStart(e, f) == f.st = e.st /\ f.launch = e.launch /\ f.cond = e.cond /\ f.start = e.start

\* An execution is neither begun nor ended nor disturbed.
RunKept(s, t) ==
    s.state \in Executing \/ t.state \in Executing =>
        /\ t.state = s.state /\ t.job = s.job /\ t.arm = s.arm
        /\ SameStart(s.eng, t.eng)

\* An execution goes on or ends as its engine reports.
Continues(s, t) ==
    s.state \in Executing =>
        t.job = s.job /\ t.state \in Executing \cup {"COMPLETE", "MISSED", "FAILED"}

\* The relations compose.
LEMMA SteadyTransitive ==
    ASSUME NEW r, NEW s, NEW t, NEW time, Steady(r, s, time), Steady(s, t, time)
    PROVE  Steady(r, t, time)
  <1>1. OwnerSteady(r, t, time)
    BY DEF Steady, OwnerSteady, Runs
  <1> QED
    BY <1>1 DEF Steady

\* An execution left alone twice is left alone.
LEMMA RunKeptTransitive ==
    ASSUME NEW r, NEW s, NEW t, RunKept(r, s), RunKept(s, t)
    PROVE  RunKept(r, t)
  BY DEF RunKept, SameStart

\* An execution left alone, and then ended by its engine.
LEMMA ContinuesAfter ==
    ASSUME NEW r, NEW s, NEW t, RunKept(r, s), Continues(s, t)
    PROVE  Continues(r, t)
  BY DEF RunKept, Continues

\* A method that changes none of this is steady.
LEMMA FrameSteady ==
    ASSUME NEW s, NEW t, NEW time, t.owner = s.owner, t.state = s.state,
           t.eng.st = s.eng.st, t.eng.out = s.eng.out
    PROVE  Steady(s, t, time)
  BY DEF Steady, OwnerSteady, Halted

\* Dropping an owner whose lease does not run.
LEMMA DropOwnerSteady ==
    ASSUME NEW s, Typed(s), NEW time
    PROVE  /\ ~Runs(s.owner, time) => Steady(s, DropOwner(s), time)
           /\ RunKept(s, DropOwner(s))
           /\ Halted(s) => Halted(DropOwner(s))
  <1> DEFINE t == DropOwner(s)
  <1>1. /\ t.owner = NoOwner /\ t.eng = CalibrationBoundary(s.eng) /\ t.state = s.state
        /\ t.job = s.job /\ t.arm = s.arm
    BY DropOwnerProps
  <1>2. SameStart(s.eng, CalibrationBoundary(s.eng)) /\ CalibrationBoundary(s.eng).out = s.eng.out
    BY DEF CalibrationBoundary, SameStart, Typed, Service, Engine
  <1> HIDE DEF t
  <1> QED
    BY <1>1, <1>2 DEF Steady, OwnerSteady, RunKept, Halted, SameStart, t

\* Recording the end of a live job drops the owner only if its release was
\* pending; the engine is disabled first.
LEMMA StopAsSteady ==
    ASSUME NEW s, Typed(s), s.job \in Jobs, s.state \in Live, NEW st \in TerminalStates,
           NEW err \in ErrorCodes, NEW x \in Contexts
    PROVE  LET t == StopAs(s, st, err, x) IN
           /\ Steady(s, t, x.now) /\ t.job = s.job
           /\ t.state \in {st, "FAILED"} /\ t.state \notin Executing /\ Halted(t)
  <1> DEFINE e == Disable(s.eng, x.off)
             stopped == [s EXCEPT !.eng = e]
             t == StopAs(s, st, err, x)
  <1>0. x.off \in BOOLEAN /\ s.eng \in Engine
    BY DEF Contexts, Typed, Service
  <1>1. e \in Engine /\ e.st \in {"idle", "failed"}
    BY <1>0, DisableType
  <1> HIDE DEF e
  <1>2. Typed(stopped) /\ stopped.job = s.job /\ stopped.owner = s.owner /\ stopped.eng = e
    BY <1>1 DEF Typed, Service
  <1>3. \E w \in TerminalStates, c \in ErrorCodes :
          t = RecordTerminal(stopped, w, c, x) /\ w \in {st, "FAILED"}
    BY EndCodes DEF StopAs, e
  <1>4. PICK w \in TerminalStates, c \in ErrorCodes :
          t = RecordTerminal(stopped, w, c, x) /\ w \in {st, "FAILED"}
    BY <1>3
  <1> HIDE DEF stopped, t
  <1>5. t.state = w /\ t.job = s.job /\ OwnerKept(stopped, t)
    BY <1>2, <1>4, RecordTerminalProps
  <1>6. /\ t.owner = s.owner \/ (t.owner = NoOwner /\ s.owner # NoOwner /\ s.owner.release)
        /\ t.eng.st = e.st
    <2> DEFINE record == [job |-> stopped.job.id, state |-> w, at |-> x.now,
                          out |-> stopped.eng.out, err |-> c, pos |-> 0]
               kept == Newest(PushFront(stopped.terminals, record), TerminalCap)
               evicted == {r.job : r \in PushFront(stopped.terminals, record) \ kept}
               held == {u \in stopped.retained \cup {[job |-> stopped.job, arm |-> stopped.arm]} :
                          u.job.id \notin evicted}
               v == [stopped EXCEPT !.state = w, !.terminals = kept, !.retained = held]
    <2>1. t = ReleasePending(v)
      BY <1>4 DEF RecordTerminal
    <2> HIDE DEF record, kept, evicted, held
    <2>2. v.owner = s.owner /\ v.eng = e
      BY <1>2 DEF Typed, Service
    <2> HIDE DEF v
    <2>3. t.owner = v.owner \/ (t.owner = NoOwner /\ v.owner # NoOwner /\ v.owner.release)
      BY <1>5, <2>1 DEF ReleasePending, OwnerKept, DropOwner
    <2>4. t.eng.st = e.st
      BY <1>1, <1>2, <1>5, CalibrationType DEF OwnerKept
    <2> QED
      BY <2>2, <2>3, <2>4
  <1>7. Halted(t) /\ t.state \notin Executing /\ t.state \notin Live
    BY <1>1, <1>5, <1>6 DEF Halted, Executing, Live, TerminalStates
  <1>8. OwnerSteady(s, t, x.now)
    BY <1>6 DEF OwnerSteady, Runs
  <1> QED
    BY <1>4, <1>5, <1>7, <1>8 DEF Steady, Live, t

\* clear_job leaves the owner and the engine.
LEMMA ClearJobSteady ==
    ASSUME NEW s, Typed(s), NEW time, s.state \notin Executing \cup {"FAILED"}, Halted(s)
    PROVE  /\ Steady(s, ClearJob(s), time) /\ RunKept(s, ClearJob(s))
           /\ Halted(ClearJob(s)) /\ ClearJob(s).owner = s.owner
  BY ClearJobProps DEF Steady, OwnerSteady, RunKept, Halted, Executing, Live

\* expire_resources takes the transmitter from nobody whose lease runs, and
\* leaves an execution to its end.
LEMMA ExpireResourcesSteady ==
    ASSUME NEW s, Sound(s), Halted(s), NEW x \in Contexts
    PROVE  LET t == ExpireResources(s, x) IN
           Steady(s, t, x.now) /\ RunKept(s, t)
  <1> DEFINE t == ExpireResources(s, x)
             stopped == StopAs(s, "ABORTED", "NONE", x)
             kept == IF stopped.state = "FAILED" THEN stopped ELSE ClearJob(stopped)
  <1>0. Typed(s) /\ x.now \in Nat
    BY DEF Sound, Contexts
  <1>1. CASE s.owner = NoOwner \/ x.now < s.owner.expires
    BY <1>1, FrameSteady DEF ExpireResources, RunKept, SameStart
  <1>2. CASE ~(s.owner = NoOwner \/ x.now < s.owner.expires) /\ s.state \in Executing
    <2>1. t = [s EXCEPT !.owner.release = TRUE]
      BY <1>2 DEF ExpireResources, Executing
    <2>2. /\ t.owner = [s.owner EXCEPT !.release = TRUE] /\ t.state = s.state /\ t.job = s.job
          /\ t.arm = s.arm /\ t.eng = s.eng
      BY <1>0, <2>1 DEF Typed, Service
    <2>3. s.owner \in Owners
      BY <1>0, <1>2 DEF Typed, Service
    <2>4. x.now >= s.owner.expires
      BY <1>0, <1>2, <2>3 DEF Owners
    <2> HIDE DEF t
    <2>5. OwnerSteady(s, t, x.now)
      BY <1>2, <2>2, <2>3, <2>4 DEF OwnerSteady, Runs, Owners
    <2> QED
      BY <2>2, <2>5 DEF Steady, Halted, RunKept, SameStart, t
  <1>3. CASE ~(s.owner = NoOwner \/ x.now < s.owner.expires) /\ s.state = "LOADED"
    <2>1. t = DropOwner(kept)
      BY <1>3 DEF ExpireResources
    <2>2. s.job \in Jobs /\ s.state \in Live
      BY <1>3 DEF Sound, Typed, Service, Live
    <2>3. /\ Typed(stopped) /\ Steady(s, stopped, x.now) /\ Halted(stopped)
          /\ stopped.state \in {"ABORTED", "FAILED"} /\ stopped.state \notin Executing
      BY <1>0, <2>2, EndCodes, StopAsProps, StopAsSteady
    <2> HIDE DEF stopped
    <2>4. Typed(kept) /\ Halted(kept) /\ kept.state \notin Executing
      <3>1. CASE stopped.state = "FAILED"
        BY <2>3, <3>1
      <3>2. CASE stopped.state # "FAILED"
        BY <2>3, <3>2, ClearJobProps, ClearJobSteady DEF Executing
      <3> QED
        BY <3>1, <3>2
    <2> HIDE DEF kept
    <2>5. /\ t.owner = NoOwner /\ t.state = kept.state /\ Halted(t)
      BY <2>1, <2>4, DropOwnerProps, DropOwnerSteady
    <2> HIDE DEF t
    <2>6. ~Runs(s.owner, x.now)
      BY <1>3 DEF Runs
    <2> QED
      BY <1>3, <2>2, <2>4, <2>5, <2>6 DEF Steady, OwnerSteady, RunKept, Executing, t
  <1>4. CASE /\ ~(s.owner = NoOwner \/ x.now < s.owner.expires)
             /\ s.state \notin Executing \cup {"LOADED"}
    <2>1. t = DropOwner(s) /\ ~Runs(s.owner, x.now)
      BY <1>4 DEF ExpireResources, Executing, Runs
    <2> QED
      BY <1>0, <2>1, DropOwnerSteady
  <1> QED
    BY <1>1, <1>2, <1>3, <1>4

\* The prologue leaves an execution and an owner whose lease runs alone.
LEMMA RefreshSteady ==
    ASSUME NEW s, Sound(s), Halted(s), NEW x \in Contexts
    PROVE  LET t == Refresh(s, x) IN
           Sound(t) /\ Halted(t) /\ Steady(s, t, x.now) /\ RunKept(s, t)
  <1> DEFINE a == ExpireResources(s, x)
             b == PruneReplay(a, x)
             c == PruneTerminals(b, x)
             d == PruneSessions(c, x)
  <1>1. Refresh(s, x) = d
    BY DEF Refresh
  <1>2. Sound(a) /\ Steady(s, a, x.now) /\ RunKept(s, a) /\ Halted(a)
    BY ExpireResourcesKeeps, ExpireResourcesSteady DEF Keeps, Steady
  <1> HIDE DEF a
  <1>3. Sound(b) /\ Steady(a, b, x.now) /\ RunKept(a, b) /\ Halted(b)
    <2>1. Sound(b)
      BY <1>2, PruneReplayKeeps DEF Keeps
    <2>2. /\ b.owner = a.owner /\ b.state = a.state /\ b.eng = a.eng /\ b.job = a.job
          /\ b.arm = a.arm
      BY <1>2 DEF PruneReplay, Sound, Typed, Service
    <2> HIDE DEF b
    <2> QED
      BY <1>2, <2>1, <2>2, FrameSteady DEF RunKept, SameStart, Halted
  <1> HIDE DEF b
  <1>4. Sound(c) /\ Steady(b, c, x.now) /\ RunKept(b, c) /\ Halted(c)
    <2>1. Sound(c)
      BY <1>3, PruneTerminalsKeeps DEF Keeps
    <2>2. PICK T, R :
            LET q == [b EXCEPT !.terminals = T, !.retained = R] IN
            c = q \/ (c = ClearJob(q) /\ b.state \in {"COMPLETE", "ABORTED", "MISSED"})
      BY DEF PruneTerminals
    <2> DEFINE q == [b EXCEPT !.terminals = T, !.retained = R]
    <2>3. c = q \/ (c = ClearJob(q) /\ b.state \in {"COMPLETE", "ABORTED", "MISSED"})
      BY <2>2
    <2>4. /\ q.owner = b.owner /\ q.state = b.state /\ q.eng = b.eng /\ q.job = b.job
          /\ q.arm = b.arm
      BY <1>3 DEF Sound, Typed, Service
    <2>5. /\ ClearJob(q).owner = b.owner /\ ClearJob(q).eng = b.eng
          /\ ClearJob(q).state = "EMPTY"
      BY <1>3 DEF ClearJob, Sound, Typed, Service
    <2> HIDE DEF c, q
    <2>6. CASE c = q
      BY <1>3, <2>1, <2>4, <2>6, FrameSteady DEF RunKept, SameStart, Halted
    <2>7. CASE c = ClearJob(q) /\ b.state \in {"COMPLETE", "ABORTED", "MISSED"}
      BY <1>3, <2>1, <2>5, <2>7 DEF Steady, OwnerSteady, RunKept, Halted, Executing, Live
    <2> QED
      BY <2>3, <2>6, <2>7
  <1> HIDE DEF c
  <1>5. Sound(d) /\ Steady(c, d, x.now) /\ RunKept(c, d) /\ Halted(d)
    <2>1. Sound(d)
      BY <1>4, PruneSessionsKeeps DEF Keeps
    <2>2. /\ d.owner = c.owner /\ d.state = c.state /\ d.eng = c.eng /\ d.job = c.job
          /\ d.arm = c.arm
      BY <1>4 DEF PruneSessions, Sound, Typed, Service
    <2> HIDE DEF d
    <2> QED
      BY <1>4, <2>1, <2>2, FrameSteady DEF RunKept, SameStart, Halted
  <1> HIDE DEF d
  <1>6. Steady(s, d, x.now)
    BY <1>2, <1>3, <1>4, <1>5, SteadyTransitive
  <1>7. RunKept(s, d)
    BY <1>2, <1>3, <1>4, <1>5, RunKeptTransitive
  <1> QED
    BY <1>1, <1>5, <1>6, <1>7

\* A method that moves a live job on, its owner in place.
LEMMA LiveSteady ==
    ASSUME NEW s, NEW t, NEW time, s.state \in Live, t.owner = s.owner, Halted(t)
    PROVE  Steady(s, t, time)
  BY DEF Steady, OwnerSteady, Live

\* What an engine's report does to a running job.
LEMMA ReportedSteady ==
    ASSUME NEW s, Sound(s), s.state \in Live, Halted(s), NEW x \in Contexts,
           NEW t \in Reported(s, x)
    PROVE  Steady(s, t, x.now) /\ Continues(s, t) /\ Halted(t)
  <1>1. Typed(s) /\ s.job \in Jobs
    BY DEF Sound, Typed, Service
  <1>2. CASE t = s
    BY <1>2, FrameSteady DEF Continues
  <1>3. ASSUME NEW st \in {"MISSED", "FAILED", "COMPLETE"}, NEW err \in ErrorCodes,
               t = StopAs(s, st, err, x)
        PROVE  Steady(s, t, x.now) /\ Continues(s, t) /\ Halted(t)
    BY <1>1, <1>3, EndCodes, StopAsSteady DEF Continues
  <1> QED
    BY <1>2, <1>3, EndCodes DEF Reported

\* The report of the engine ends a running job but never as aborted.
LEMMA SettleSteady ==
    ASSUME NEW s0, Sound(s0), s0.state = "RUNNING", NEW x \in Contexts
    PROVE  LET t == Settle(s0, x) IN
           Steady(s0, t, x.now) /\ Continues(s0, t) /\ Halted(t)
  <1>1. PICK arm \in Arms : /\ Sound([s0 EXCEPT !.arm = arm])
                            /\ Settle(s0, x) \in Reported([s0 EXCEPT !.arm = arm], x)
    BY SettleCases
  <1> DEFINE s == [s0 EXCEPT !.arm = arm]
             t == Settle(s0, x)
  <1>2. s.owner = s0.owner /\ s.eng = s0.eng /\ s.job = s0.job /\ s.state = s0.state
    BY DEF Sound, Typed, Service
  <1>3. Sound(s) /\ t \in Reported(s, x) /\ Halted(s) /\ s.state \in Live
    BY <1>1, <1>2 DEF Halted, Executing, Live
  <1> HIDE DEF s, t
  <1>4. Steady(s, t, x.now) /\ Continues(s, t) /\ Halted(t)
    BY <1>3, ReportedSteady
  <1>5. Steady(s0, s, x.now)
    BY <1>2, FrameSteady
  <1> QED
    BY <1>2, <1>4, <1>5, SteadyTransitive DEF Continues, t

\* A launch by the service, given, missed or refused.
LEMMA LaunchByServiceSteady ==
    ASSUME NEW s, Sound(s), s.state = "ARMED", NEW x \in Contexts
    PROVE  LET t == LaunchByService(s, x) IN
           Steady(s, t, x.now) /\ Continues(s, t) /\ Halted(t)
  <1> DEFINE begun == Begin(s.eng, s.job, x.now, NoCond, x.start)
             tried == [s EXCEPT !.eng = begun.eng]
             run   == [s EXCEPT !.eng = begun.eng, !.arm.launch = x.now, !.state = "RUNNING"]
             t     == LaunchByService(s, x)
  <1>1. /\ Typed(tried) /\ tried.state = "ARMED" /\ tried.job = s.job
        /\ Sound(run) /\ run.state = "RUNNING" /\ run.job = s.job
        /\ \/ t = s
           \/ t = StopAs(s, "MISSED", "MISSED_START", x)
           \/ t = StopAs(tried, "FAILED", "DEVICE_FAULT", x)
           \/ t = Settle(run, x)
    BY LaunchCases
  <1>2. tried.owner = s.owner /\ run.owner = s.owner
    BY DEF Sound, Typed, Service
  <1>3. Typed(s) /\ s.job \in Jobs
    BY DEF Sound, Typed, Service, Live
  <1> HIDE DEF begun, tried, run, t
  <1>4. Halted(s) /\ Halted(tried) /\ Halted(run)
    BY <1>1 DEF Halted, Executing
  <1>5. Steady(s, tried, x.now) /\ Steady(s, run, x.now) /\ Steady(s, s, x.now)
    BY <1>2, <1>4, LiveSteady DEF Live
  <1>6. CASE t = s
    BY <1>4, <1>5, <1>6 DEF Continues, t
  <1>7. CASE t = StopAs(s, "MISSED", "MISSED_START", x)
    BY <1>3, <1>7, EndCodes, StopAsSteady DEF Continues, Live, t
  <1>8. CASE t = StopAs(tried, "FAILED", "DEVICE_FAULT", x)
    <2>1. /\ Steady(tried, t, x.now) /\ t.job = s.job /\ t.state = "FAILED" /\ Halted(t)
      BY <1>1, <1>3, <1>8, EndCodes, StopAsSteady DEF Live
    <2> QED
      BY <1>5, <2>1, SteadyTransitive DEF Continues, t
  <1>9. CASE t = Settle(run, x)
    <2>1. Steady(run, t, x.now) /\ Continues(run, t) /\ Halted(t)
      BY <1>1, <1>9, SettleSteady
    <2> QED
      BY <1>1, <1>5, <2>1, SteadyTransitive DEF Continues, Executing, t
  <1> QED
    BY <1>1, <1>6, <1>7, <1>8, <1>9

\* poll() after its prologue ends an execution only as its engine reports, or
\* if its start is missed.
LEMMA PollRefreshedSteady ==
    ASSUME NEW s, Sound(s), Halted(s), NEW x \in Contexts
    PROVE  LET t == PollRefreshed(s, x) IN
           Steady(s, t, x.now) /\ Continues(s, t) /\ Halted(t)
  <1> DEFINE run == [s EXCEPT !.state = "RUNNING"]
             t == PollRefreshed(s, x)
  <1>1. \/ t = s
        \/ t = Settle(s, x) /\ s.state = "RUNNING"
        \/ t = LaunchByService(s, x) /\ s.state = "ARMED"
        \/ t = Settle(run, x) /\ s.state = "ARMED"
    BY DEF PollRefreshed
  <1> HIDE DEF t
  <1>2. CASE t = s
    BY <1>2, FrameSteady DEF Continues, t
  <1>3. CASE t = Settle(s, x) /\ s.state = "RUNNING"
    BY <1>3, SettleSteady DEF t
  <1>4. CASE t = LaunchByService(s, x) /\ s.state = "ARMED"
    BY <1>4, LaunchByServiceSteady DEF t
  <1>5. CASE t = Settle(run, x) /\ s.state = "ARMED"
    <2>1. Sound(run) /\ run.state = "RUNNING" /\ run.owner = s.owner /\ run.job = s.job
      BY <1>5 DEF Sound, Typed, Service, States, Live
    <2> HIDE DEF run
    <2>2. Steady(run, t, x.now) /\ Continues(run, t) /\ Halted(t)
      BY <1>5, <2>1, SettleSteady
    <2>3. Steady(s, run, x.now)
      BY <1>5, <2>1, LiveSteady DEF Live, Halted, Executing
    <2> QED
      BY <2>1, <2>2, <2>3, SteadyTransitive DEF Continues, Executing, t
  <1> QED
    BY <1>1, <1>2, <1>3, <1>4, <1>5

\* So does poll() as a whole.
LEMMA PollServiceSteady ==
    ASSUME NEW s0, Sound(s0), Halted(s0), NEW x \in Contexts
    PROVE  LET t == PollService(s0, x) IN
           Sound(t) /\ Halted(t) /\ Steady(s0, t, x.now) /\ Continues(s0, t)
  <1> DEFINE s == Refresh(s0, x)
             t == PollService(s0, x)
  <1>1. Sound(s) /\ Halted(s) /\ Steady(s0, s, x.now) /\ RunKept(s0, s)
    BY RefreshSteady
  <1>2. t = PollRefreshed(s, x)
    BY DEF PollService
  <1>3. Sound(t)
    BY PollServiceKeeps DEF Keeps
  <1> HIDE DEF s, t
  <1>4. Steady(s, t, x.now) /\ Continues(s, t) /\ Halted(t)
    BY <1>1, <1>2, PollRefreshedSteady
  <1> QED
    BY <1>1, <1>3, <1>4, SteadyTransitive, ContinuesAfter DEF t

-------------------------------------------------------------------------------
(* Requests. *)

\* The owner is the one before, or the sender of the request.
OwnerFrom(s, t, r) ==
    t.owner # NoOwner =>
        \/ /\ s.owner # NoOwner
           /\ t.owner.session = s.owner.session /\ t.owner.principal = s.owner.principal
        \/ t.owner.session = r.session /\ t.owner.principal = r.principal

\* The same owner, perhaps with another lease.
SameOwner(o, p) ==
    o # NoOwner /\ o.id = p.id /\ o.session = p.session /\ o.principal = p.principal

\* What a request r may do to the service s, with the outcome d: only an abort
\* ends an execution, only the owner releases, nothing clears a failure.
Granted(s, r, d, time) ==
    /\ Halted(d.s)
    /\ s.state = "FAILED" => d.s.state = "FAILED"
    /\ r.op # "ABORT" => Continues(s, d.s)
    /\ s.state \notin Live /\ d.s.eng.out => s.eng.out
    /\ Runs(s.owner, time) =>
         \/ SameOwner(d.s.owner, s.owner)
         \/ r.op = "RELEASE" /\ d.reply.err = "NONE" /\ Owns(s, r)
    /\ LeaseOver(s, time) => LeaseOver(d.s, time)
    /\ OwnerFrom(s, d.s, r)

\* A steady method grants nothing.
LEMMA SteadyGranted ==
    ASSUME NEW s, Halted(s), NEW t, NEW time, Steady(s, t, time), NEW r,
           r.op # "ABORT" => Continues(s, t), NEW d, d.s = t
    PROVE  Granted(s, r, d, time)
  <1>1. Runs(s.owner, time) => SameOwner(d.s.owner, s.owner)
    BY DEF Steady, OwnerSteady, Runs, SameOwner
  <1>2. LeaseOver(s, time) => LeaseOver(d.s, time)
    BY DEF Steady, OwnerSteady, LeaseOver
  <1>3. OwnerFrom(s, d.s, r)
    BY DEF Steady, OwnerSteady, OwnerFrom
  <1> QED
    BY <1>1, <1>2, <1>3 DEF Granted, Steady

\* A refusal, and a success that changes nothing.
LEMMA AnswerGranted ==
    ASSUME NEW s, Halted(s), NEW r, NEW time
    PROVE  Granted(s, r, Success(s, r), time) /\ \A err : Granted(s, r, Reject(s, r, err), time)
  <1>1. Steady(s, s, time) /\ Continues(s, s)
    BY FrameSteady DEF Continues
  <1> QED
    BY <1>1, SteadyGranted DEF Success, Reject

\* CLAIM takes only a transmitter without an owner, for the sender.
LEMMA DoClaimGranted ==
    ASSUME NEW s, Sound(s), Halted(s), NEW r, NEW x
    PROVE  Granted(s, r, DoClaim(s, r, x), x.now)
  <1> DEFINE o == [id |-> r.body.owner, session |-> r.session, principal |-> r.principal,
                   expires |-> x.now + r.body.lease, release |-> FALSE]
             t == [s EXCEPT !.eng = CalibrationBoundary(@), !.owner = o]
             d == DoClaim(s, r, x)
  <1>1. CASE s.owner # NoOwner
    BY <1>1, AnswerGranted DEF DoClaim
  <1>2. CASE s.owner = NoOwner
    <2>1. d.s = t
      BY <1>2 DEF DoClaim, Success
    <2>2. /\ t.owner = o /\ t.state = s.state /\ t.job = s.job
          /\ t.eng = CalibrationBoundary(s.eng)
      BY DEF Sound, Typed, Service
    <2>3. t.eng.st = s.eng.st /\ t.eng.out = s.eng.out
      BY <2>2, CalibrationType DEF Sound, Typed, Service
    <2>4. o.session = r.session /\ o.principal = r.principal /\ ~o.release
      OBVIOUS
    <2> HIDE DEF o, t, d
    <2> QED
      BY <1>2, <2>1, <2>2, <2>3, <2>4
      DEF Granted, Halted, Continues, Runs, LeaseOver, OwnerFrom, d
  <1> QED
    BY <1>1, <1>2

\* RENEW renews a lease whose release is not pending.
LEMMA DoRenewGranted ==
    ASSUME NEW s, Sound(s), s.owner # NoOwner, Halted(s), NEW r, WellFormed(r), r.op = "RENEW",
           NEW x \in Contexts
    PROVE  Granted(s, r, DoRenew(s, r, x), x.now)
  <1> DEFINE o == [s.owner EXCEPT !.expires = x.now + r.body.lease]
             t == [s EXCEPT !.owner = o]
             d == DoRenew(s, r, x)
  <1>1. \/ \E err : d = Reject(s, r, err)
        \/ d = Success(t, r) /\ ~s.owner.release
    BY DEF DoRenew
  <1>2. /\ t.owner = o /\ t.state = s.state /\ t.job = s.job /\ t.eng = s.eng
    BY DEF Sound, Typed, Service
  <1>3. /\ o.id = s.owner.id /\ o.session = s.owner.session /\ o.principal = s.owner.principal
        /\ o.release = s.owner.release /\ o # NoOwner
    <2>1. x.now + r.body.lease \in Nat /\ s.owner \in Owners
      BY LeaseType DEF Sound, Typed, Service
    <2>2. o \in Owners
      BY <2>1 DEF Owners
    <2> QED
      BY <2>1, <2>2, SentinelAssumption DEF Owners
  <1> HIDE DEF o, t, d
  <1>4. CASE d = Success(t, r) /\ ~s.owner.release
    <2>1. d.s = t
      BY <1>4 DEF Success
    <2>2. Runs(s.owner, x.now) => SameOwner(t.owner, s.owner)
      BY <1>2, <1>3 DEF SameOwner
    <2>3. LeaseOver(t, x.now)
      BY <1>2, <1>3, <1>4 DEF LeaseOver
    <2>4. OwnerFrom(s, t, r)
      BY <1>2, <1>3 DEF OwnerFrom
    <2>5. Halted(t) /\ Continues(s, t)
      BY <1>2 DEF Halted, Continues
    <2> QED
      BY <1>2, <2>1, <2>2, <2>3, <2>4, <2>5 DEF Granted, d
  <1> QED
    BY <1>1, <1>4, AnswerGranted DEF d

\* RELEASE is the owner's own; it releases nothing that executes or has failed.
LEMMA DoReleaseGranted ==
    ASSUME NEW s, Sound(s), Halted(s), NEW r, r.op = "RELEASE", Owns(s, r), NEW time
    PROVE  Granted(s, r, DoRelease(s, r), time)
  <1> DEFINE t == DropOwner(ClearJob(s))
             d == DoRelease(s, r)
  <1>1. CASE s.state \in {"ARMED", "RUNNING", "FAILED"}
    BY <1>1, AnswerGranted DEF DoRelease
  <1>2. CASE s.state \notin {"ARMED", "RUNNING", "FAILED"}
    <2>1. d.s = t /\ d.reply.err = "NONE"
      BY <1>2 DEF DoRelease, Success
    <2>2. /\ Typed(ClearJob(s)) /\ ClearJob(s).eng = s.eng /\ ClearJob(s).state = "EMPTY"
      BY ClearJobProps DEF Sound
    <2>3. /\ t.owner = NoOwner /\ t.state = "EMPTY" /\ t.eng = CalibrationBoundary(s.eng)
      BY <2>2, DropOwnerProps
    <2>4. t.eng.st = s.eng.st /\ t.eng.out = s.eng.out
      BY <2>3, CalibrationType DEF Sound, Typed, Service
    <2> HIDE DEF t, d
    <2> QED
      BY <1>2, <2>1, <2>3, <2>4
      DEF Granted, Halted, Continues, Executing, LeaseOver, OwnerFrom, d
  <1> QED
    BY <1>1, <1>2

\* touch_terminal touches nothing else.
LEMMA TouchTerminalFrame ==
    ASSUME NEW s, Sound(s), NEW id
    PROVE  LET t == TouchTerminal(s, id) IN
           /\ t.owner = s.owner /\ t.state = s.state /\ t.eng = s.eng /\ t.job = s.job
           /\ t.arm = s.arm /\ t.sessions = s.sessions /\ t.replay = s.replay
  BY DEF TouchTerminal, Sound, Typed, Service

\* A repeated LOAD or ARM of a recorded job grants nothing.
LEMMA TouchTerminalGranted ==
    ASSUME NEW s, Sound(s), Halted(s), NEW id, NEW r, NEW time
    PROVE  Granted(s, r, Success(TouchTerminal(s, id), r), time)
  <1> DEFINE t == TouchTerminal(s, id)
  <1>1. t.owner = s.owner /\ t.state = s.state /\ t.eng = s.eng /\ t.job = s.job
    BY TouchTerminalFrame
  <1> HIDE DEF t
  <1>2. Steady(s, t, time) /\ Continues(s, t)
    BY <1>1, FrameSteady DEF Continues
  <1> QED
    BY <1>2, SteadyGranted DEF Success, t

\* The outcomes of a LOAD that gets past the checks: the engine prepared the
\* job, e, whether or not its result is then accepted.
Admitted(s, r, e, d) ==
    /\ e \in Engine /\ e.st = s.eng.st /\ e.out = s.eng.out /\ ~s.eng.out
    /\ s.state \notin Executing \cup {"FAILED"}
    /\ \/ \E err : d = Reject([s EXCEPT !.eng = e], r, err)
       \/ d = Success([s EXCEPT !.eng = e, !.job = r.body.job, !.arm = NoArm,
                                !.state = "LOADED"], r)

\* All outcomes of a LOAD: refused, repeated, or past the checks.
Loaded(s, r, d) ==
    \/ \E err : d = Reject(s, r, err)
    \/ d = Success(TouchTerminal(s, r.body.job.id), r)
    \/ d = Success(s, r)
    \/ \E e : Admitted(s, r, e, d)

\* What LOAD may change besides the order of the records.
LEMMA LoadCases ==
    ASSUME NEW s, Sound(s), NEW r, WellFormed(r), r.op = "LOAD", NEW x \in Contexts
    PROVE  Loaded(s, r, DoLoad(s, r, x))
  <1> DEFINE j == r.body.job
             healthy == x.admit # "store"
             p == Prepare(s.eng, j, x.saved, healthy)
             d == DoLoad(s, r, x)
  <1>1. j \in Jobs /\ x.saved \in Ppbs /\ healthy \in BOOLEAN /\ s.eng \in Engine
    BY DEF WellFormed, Contexts, Sound, Typed, Service
  <1>2. p.eng \in Engine /\ p.eng.st = s.eng.st /\ p.eng.out = s.eng.out
    BY <1>1, PrepareType
  <1>3. \/ \E err : d = Reject(s, r, err)
        \/ d = Success(TouchTerminal(s, j.id), r)
        \/ d = Success(s, r)
        \/ d = AdmitJob(s, r, x) /\ ~s.eng.out /\ s.state # "FAILED"
    BY DEF DoLoad
  <1>4. \/ \E err : AdmitJob(s, r, x) = Reject(s, r, err)
        \/ /\ s.state \notin Executing
           /\ \/ \E err : AdmitJob(s, r, x) = Reject([s EXCEPT !.eng = p.eng], r, err)
              \/ AdmitJob(s, r, x) =
                   Success([[s EXCEPT !.eng = p.eng] EXCEPT !.job = j, !.arm = NoArm,
                                                            !.state = "LOADED"], r)
    BY DEF AdmitJob, Executing
  <1>5. [[s EXCEPT !.eng = p.eng] EXCEPT !.job = j, !.arm = NoArm, !.state = "LOADED"] =
        [s EXCEPT !.eng = p.eng, !.job = j, !.arm = NoArm, !.state = "LOADED"]
    OBVIOUS
  <1> HIDE DEF p, d
  <1>6. d = AdmitJob(s, r, x) /\ ~s.eng.out /\ s.state # "FAILED" =>
          (\E err : d = Reject(s, r, err)) \/ Admitted(s, r, p.eng, d)
    BY <1>2, <1>4, <1>5 DEF Admitted
  <1> QED
    BY <1>3, <1>6 DEF Loaded, d

\* LOAD replaces no job that executes and clears no failure.
LEMMA DoLoadGranted ==
    ASSUME NEW s, Sound(s), Halted(s), NEW r, WellFormed(r), r.op = "LOAD", NEW x \in Contexts
    PROVE  Granted(s, r, DoLoad(s, r, x), x.now)
  <1> DEFINE d == DoLoad(s, r, x)
  <1>1. Loaded(s, r, d)
    BY LoadCases
  <1> HIDE DEF d
  <1>2. ASSUME NEW e, Admitted(s, r, e, d)
        PROVE  Granted(s, r, d, x.now)
    <2>1. d.s = [s EXCEPT !.eng = e] \/ d.s = [s EXCEPT !.eng = e, !.job = r.body.job,
                                                        !.arm = NoArm, !.state = "LOADED"]
      BY <1>2 DEF Admitted, Reject, Success
    <2>2. d.s.owner = s.owner /\ d.s.eng = e
      BY <2>1 DEF Sound, Typed, Service
    <2>3. e.st = s.eng.st /\ e.out = s.eng.out /\ s.state \notin Executing \cup {"FAILED"}
      BY <1>2 DEF Admitted
    <2> QED
      BY <2>2, <2>3 DEF Granted, Halted, Continues, Runs, SameOwner, LeaseOver, OwnerFrom,
                        Executing
  <1> QED
    BY <1>1, <1>2, AnswerGranted, TouchTerminalGranted DEF Loaded, d

\* What an accepted ARM makes of its body: the arm record, the conditions that
\* it hands to the engine, and the engine's answer.
StartOf(r, x) == StartMonotonic(x.clk, r.body.arm.startUtc)

ArmOf(r, x) ==
    [startUtc |-> r.body.arm.startUtc, maxUnc |-> r.body.arm.maxUnc, start |-> StartOf(r, x),
     local |-> Local, launch |-> NoTime]

DeadlineOf(r, x) ==
    StartMonotonic(x.clk, r.body.arm.startUtc + StartWindow(r.body.arm.startUtc))

CondOf(r, x) ==
    [startUtc |-> r.body.arm.startUtc,
     maxUnc   |-> IF r.body.arm.maxUnc < MaxArmUnc THEN r.body.arm.maxUnc ELSE MaxArmUnc,
     deadline |-> DeadlineOf(r, x)]

BegunOf(s, r, x) == Begin(s.eng, s.job, StartOf(r, x), CondOf(r, x), x.start)

\* The three ways it ends: armed for a service that launches, armed in the
\* engine, or refused by the engine.
ArmedBy(s, r, x) == [s EXCEPT !.state = "ARMED", !.arm = ArmOf(r, x)]

ArmedIn(s, r, x) ==
    [s EXCEPT !.state = "ARMED", !.arm = ArmOf(r, x), !.eng = BegunOf(s, r, x).eng]

RefusedBy(s, r, x) ==
    [s EXCEPT !.state = "ARMED", !.arm = NoArm, !.eng = BegunOf(s, r, x).eng]

\* What the members of these are.
LEMMA ArmTypes ==
    ASSUME NEW s, Sound(s), NEW r, WellFormed(r), r.op = "ARM", NEW x \in Contexts
    PROVE  /\ r.body.arm.startUtc \in Nat /\ x.clk.off \in Int
           /\ StartOf(r, x) \in Int /\ DeadlineOf(r, x) \in Int /\ ArmOf(r, x) \in Arms
           /\ BegunOf(s, r, x).eng \in Engine /\ Typed(RefusedBy(s, r, x))
  <1> DEFINE b == r.body.arm
             e == BegunOf(s, r, x).eng
  <1>1. b.startUtc \in Nat /\ b.maxUnc \in Nat
    <2>1. b \in ArmBodies
      BY DEF WellFormed
    <2> QED
      BY <2>1, JobServiceAssumption
  <1>2. x.clk.off \in Int /\ StartWindow(b.startUtc) \in Int
    BY <1>1, JobServiceAssumption, ArmPolicyAssumption DEF Contexts, ClockSnapshot, StartWindow
  <1>3. StartOf(r, x) \in Int /\ DeadlineOf(r, x) \in Int
    BY <1>1, <1>2 DEF StartOf, DeadlineOf, StartMonotonic
  <1>4. ArmOf(r, x) \in Arms
    BY <1>1, <1>3, TxEngineAssumption DEF ArmOf, Arms
  <1>5. CondOf(r, x) \in Conditions \cup {NoCond}
    BY <1>1, <1>3, ArmPolicyAssumption DEF CondOf, Conditions
  <1>6. s.eng \in Engine /\ x.start \in {"ok", "refuse", "fault", "early"} /\ Typed(s)
    BY DEF Sound, Typed, Service, Contexts
  <1>7. e \in Engine
    BY <1>3, <1>5, <1>6, BeginType DEF BegunOf
  <1>8. Typed(RefusedBy(s, r, x))
    <2> HIDE DEF e
    <2> QED
      BY <1>6, <1>7 DEF RefusedBy, Typed, Service, States, e
  <1> QED
    BY <1>1, <1>2, <1>3, <1>4, <1>7, <1>8

\* An accepted ARM leaves an armed job, or a stopped one.
LEMMA ScheduleCases ==
    ASSUME NEW s, Sound(s), NEW r, NEW x
    PROVE  LET d == ScheduleJob(s, r, x) IN
           \/ d = Success(ArmedBy(s, r, x), r) /\ ~Local
           \/ d = Success(ArmedIn(s, r, x), r) /\ BegunOf(s, r, x).ok
           \/ \E err : d = Reject(StopAs(RefusedBy(s, r, x), "FAILED", "DEVICE_FAULT", x), r, err)
  <1> DEFINE armed == [s EXCEPT !.state = "ARMED", !.arm = ArmOf(r, x)]
             e == BegunOf(s, r, x).eng
             d == ScheduleJob(s, r, x)
  <1>1. \/ d = Success(armed, r) /\ ~Local
        \/ d = Success([armed EXCEPT !.eng = e], r) /\ BegunOf(s, r, x).ok
        \/ \E err : d = Reject(StopAs([armed EXCEPT !.arm = NoArm, !.eng = e],
                                      "FAILED", "DEVICE_FAULT", x), r, err)
    BY DEF ScheduleJob, ArmOf, StartOf, DeadlineOf, CondOf, BegunOf
  <1>2. /\ [armed EXCEPT !.eng = e] = ArmedIn(s, r, x)
        /\ [armed EXCEPT !.arm = NoArm, !.eng = e] = RefusedBy(s, r, x)
        /\ armed = ArmedBy(s, r, x)
    <2> HIDE DEF e
    <2> QED
      BY DEF ArmedIn, RefusedBy, ArmedBy, Sound, Typed, Service, e
  <1> HIDE DEF armed, e, d
  <1> QED
    BY <1>1, <1>2 DEF d

\* ARM schedules a loaded job, or ends it as failed.
LEMMA ScheduleJobGranted ==
    ASSUME NEW s, Sound(s), s.state = "LOADED", NEW r, WellFormed(r), r.op = "ARM",
           NEW x \in Contexts
    PROVE  Granted(s, r, ScheduleJob(s, r, x), x.now)
  <1> DEFINE refused == RefusedBy(s, r, x)
             stopped == StopAs(refused, "FAILED", "DEVICE_FAULT", x)
             d == ScheduleJob(s, r, x)
  <1>1. d.s = ArmedBy(s, r, x) \/ d.s = ArmedIn(s, r, x) \/ d.s = stopped
    BY ScheduleCases DEF Success, Reject
  <1>2. /\ ArmedBy(s, r, x).state = "ARMED" /\ ArmedBy(s, r, x).owner = s.owner
        /\ ArmedIn(s, r, x).state = "ARMED" /\ ArmedIn(s, r, x).owner = s.owner
        /\ refused.state = "ARMED" /\ refused.owner = s.owner /\ refused.job = s.job
    BY DEF ArmedBy, ArmedIn, RefusedBy, Sound, Typed, Service
  <1>3. Typed(refused) /\ s.job \in Jobs
    BY ArmTypes DEF Sound, Typed, Service, Live
  <1> HIDE DEF refused, d
  <1>4. Steady(refused, stopped, x.now) /\ Halted(stopped)
    BY <1>2, <1>3, EndCodes, StopAsSteady DEF Live
  <1> HIDE DEF stopped
  <1>5. CASE d.s.state = "ARMED" /\ d.s.owner = s.owner
    <2>1. Halted(d.s) /\ Continues(s, d.s)
      BY <1>5 DEF Halted, Executing, Continues
    <2>2. Steady(s, d.s, x.now)
      BY <1>5, <2>1, LiveSteady DEF Live
    <2>3. Halted(s)
      BY DEF Halted, Sound, Quiet, Executing
    <2> QED
      BY <2>1, <2>2, <2>3, SteadyGranted DEF d
  <1>6. CASE d.s = stopped
    <2>1. Steady(s, refused, x.now)
      BY <1>2, LiveSteady DEF Halted, Executing, Live
    <2>2. Steady(s, d.s, x.now) /\ Halted(d.s)
      BY <1>4, <1>6, <2>1, SteadyTransitive
    <2> QED
      BY <2>2 DEF Granted, Steady, OwnerSteady, Continues, Executing, Live, Runs, SameOwner,
                  LeaseOver, OwnerFrom, d
  <1> QED
    BY <1>1, <1>2, <1>5, <1>6

\* ARM changes nothing unless it is accepted.
LEMMA DoArmGranted ==
    ASSUME NEW s, Sound(s), Halted(s), NEW r, WellFormed(r), r.op = "ARM", NEW x \in Contexts
    PROVE  Granted(s, r, DoArm(s, r, x), x.now)
  <1> DEFINE d == DoArm(s, r, x)
  <1>1. \/ \E err : d = Reject(s, r, err)
        \/ d = Success(TouchTerminal(s, r.body.job), r)
        \/ d = Success(s, r)
        \/ d = ScheduleJob(s, r, x) /\ s.state = "LOADED"
    BY DEF DoArm
  <1> HIDE DEF d
  <1> QED
    BY <1>1, AnswerGranted, TouchTerminalGranted, ScheduleJobGranted DEF d

\* An abort ends a live job, and only that.
LEMMA AbortJobSteady ==
    ASSUME NEW s, Sound(s), Halted(s), NEW r, NEW id, NEW x \in Contexts
    PROVE  LET t == AbortJob(s, r, id, x).s IN
           Steady(s, t, x.now) /\ Halted(t)
  <1> DEFINE stopped == StopAs(s, "ABORTED", "NONE", x)
             t == AbortJob(s, r, id, x).s
  <1>1. t = s \/ (t = stopped /\ s.job # NoJob /\ s.state \notin TerminalStates)
    BY DEF AbortJob, TerminalStates, Reject, Success
  <1>2. CASE t = s
    BY <1>2, FrameSteady
  <1>3. CASE t = stopped /\ s.job # NoJob /\ s.state \notin TerminalStates
    <2>1. Typed(s) /\ s.job \in Jobs /\ s.state \in Live
      BY <1>3 DEF Sound, Typed, Service, States, Live, TerminalStates
    <2> QED
      BY <1>3, <2>1, EndCodes, StopAsSteady
  <1> QED
    BY <1>1, <1>2, <1>3

\* ABORT ends an execution, and grants nothing.
LEMMA AbortJobGranted ==
    ASSUME NEW s, Sound(s), Halted(s), NEW r, r.op = "ABORT", NEW id, NEW x \in Contexts
    PROVE  Granted(s, r, AbortJob(s, r, id, x), x.now)
  BY AbortJobSteady, SteadyGranted

\* Every operation.
LEMMA DispatchGranted ==
    ASSUME NEW s, Sound(s), Halted(s), NEW r, WellFormed(r), NEW x \in Contexts
    PROVE  Granted(s, r, Dispatch(s, r, x), x.now)
  <1> DEFINE d == Dispatch(s, r, x)
  <1>1. \/ d = Success(s, r)
        \/ \E err : d = Reject(s, r, err)
        \/ d = DoClaim(s, r, x)
        \/ /\ s.owner # NoOwner /\ Owns(s, r)
           /\ \/ r.op = "RENEW" /\ d = DoRenew(s, r, x)
              \/ r.op = "RELEASE" /\ d = DoRelease(s, r)
              \/ r.op = "LOAD" /\ d = DoLoad(s, r, x)
              \/ r.op = "ARM" /\ d = DoArm(s, r, x)
              \/ r.op = "ABORT" /\ d = AbortJob(s, r, r.body.job, x)
    BY DispatchCases
  <1> HIDE DEF d
  <1> QED
    BY <1>1, AnswerGranted, DoClaimGranted, DoRenewGranted, DoReleaseGranted, DoLoadGranted,
       DoArmGranted, AbortJobGranted DEF d

\* A change of the replay cache or of the sessions is no grant.
LEMMA GrantedFrame ==
    ASSUME NEW s, NEW r, NEW time, NEW d, Granted(s, r, d, time), NEW t,
           t.owner = d.s.owner, t.state = d.s.state, t.job = d.s.job, t.eng = d.s.eng
    PROVE  Granted(s, r, [s |-> t, reply |-> d.reply], time)
  BY DEF Granted, Halted, Continues, LeaseOver, OwnerFrom

\* A replay, a refusal or a dispatch.
LEMMA ServeGranted ==
    ASSUME NEW s, Sound(s), Halted(s), NEW r, WellFormed(r), NEW x \in Contexts
    PROVE  Granted(s, r, Serve(s, r, x), x.now)
  <1> DEFINE done == Dispatch(s, r, x)
             d == Serve(s, r, x)
  <1>1. \/ d = done
        \/ d = Reject(s, r, "REQUEST_ID_REUSE")
        \/ \E hit : d = [s |-> [s EXCEPT !.replay = ToFront(@, hit)], reply |-> hit.reply]
        \/ d = [s |-> Remember(done.s, r, done.reply, x), reply |-> done.reply]
    BY ServeCases
  <1>2. Granted(s, r, done, x.now) /\ Sound(done.s)
    BY DispatchGranted, DispatchObeys DEF Obeys
  <1> HIDE DEF done, d
  <1>3. ASSUME NEW hit, d = [s |-> [s EXCEPT !.replay = ToFront(@, hit)], reply |-> hit.reply]
        PROVE  Granted(s, r, d, x.now)
    <2> DEFINE t == [s EXCEPT !.replay = ToFront(@, hit)]
    <2>1. t.owner = s.owner /\ t.state = s.state /\ t.job = s.job /\ t.eng = s.eng
      BY DEF Sound, Typed, Service
    <2>2. d.s = t
      BY <1>3
    <2> HIDE DEF t
    <2>3. Steady(s, t, x.now) /\ Continues(s, t)
      BY <2>1, FrameSteady DEF Continues
    <2> QED
      BY <2>2, <2>3, SteadyGranted
  <1>4. CASE d = [s |-> Remember(done.s, r, done.reply, x), reply |-> done.reply]
    <2> DEFINE t == Remember(done.s, r, done.reply, x)
    <2>1. /\ t.owner = done.s.owner /\ t.state = done.s.state /\ t.job = done.s.job
          /\ t.eng = done.s.eng
      BY <1>2 DEF Remember, Sound, Typed, Service
    <2> HIDE DEF t
    <2>2. Granted(s, r, [s |-> t, reply |-> done.reply], x.now)
      BY <1>2, <2>1, GrantedFrame
    <2> QED
      BY <1>4, <2>2 DEF t, d
  <1> QED
    BY <1>1, <1>2, <1>3, <1>4, AnswerGranted DEF d

\* A grant after a prologue that is steady and keeps the execution.
LEMMA GrantedAfter ==
    ASSUME NEW s, Sound(s), NEW t, NEW time, Steady(s, t, time), RunKept(s, t),
           NEW r, NEW d, Granted(t, r, d, time)
    PROVE  Granted(s, r, d, time)
  <1>1. r.op # "ABORT" => Continues(s, d.s)
    BY ContinuesAfter DEF Granted
  <1>2. s.state \notin Live /\ d.s.eng.out => s.eng.out
    BY DEF Granted, Steady
  <1>3. Runs(s.owner, time) =>
          \/ SameOwner(d.s.owner, s.owner)
          \/ r.op = "RELEASE" /\ d.reply.err = "NONE" /\ Owns(s, r)
    BY DEF Granted, Steady, OwnerSteady, Owns
  <1>4. LeaseOver(s, time) => LeaseOver(t, time)
    BY DEF Steady, OwnerSteady, LeaseOver
  <1>5. OwnerFrom(s, d.s, r)
    BY DEF Granted, Steady, OwnerSteady, OwnerFrom
  <1> QED
    BY <1>1, <1>2, <1>3, <1>4, <1>5 DEF Granted, Steady

\* A request, from its prologue to its reply.
LEMMA HandleOwnedGranted ==
    ASSUME NEW s0, Sound(s0), Halted(s0), NEW r, WellFormed(r), NEW x \in Contexts
    PROVE  Granted(s0, r, HandleOwned(s0, r, x), x.now)
  <1> DEFINE s == Refresh(s0, x)
             seen == SeeSession(s, r, x)
             d == HandleOwned(s0, r, x)
  <1>1. /\ Sound(s) /\ Sound(seen)
        /\ (\E err : d = Reject(s, r, err)) \/ d = Serve(seen, r, x)
    BY HandleCases
  <1>2. Halted(s) /\ Steady(s0, s, x.now) /\ RunKept(s0, s)
    BY RefreshSteady
  <1> HIDE DEF s, d
  <1>3. /\ seen.owner = s.owner /\ seen.state = s.state /\ seen.job = s.job /\ seen.eng = s.eng
        /\ seen.arm = s.arm
    BY <1>1 DEF SeeSession, Sound, Typed, Service
  <1> HIDE DEF seen
  <1>4. Steady(s, seen, x.now) /\ RunKept(s, seen) /\ Halted(seen)
    BY <1>2, <1>3, FrameSteady DEF RunKept, SameStart, Halted
  <1>5. Granted(s, r, d, x.now)
    BY <1>1, <1>2, <1>4, AnswerGranted, ServeGranted, GrantedAfter DEF d
  <1> QED
    BY <1>2, <1>5, GrantedAfter DEF d

-------------------------------------------------------------------------------
(* Local controls, the engine and the constructor. *)

\* What every step but a grant keeps.
Guarded(s, t, time) ==
    /\ Halted(t)
    /\ s.state = "FAILED" => t.state = "FAILED"
    /\ s.state \notin Live => t.state \notin Live /\ (t.eng.out => s.eng.out)
    /\ LeaseOver(s, time) => LeaseOver(t, time)

\* A steady method is guarded.
LEMMA SteadyGuarded ==
    ASSUME NEW s, NEW t, NEW time, Steady(s, t, time), Halted(t)
    PROVE  Guarded(s, t, time)
  BY DEF Steady, OwnerSteady, Guarded, LeaseOver

\* Dropping the owner after it is guarded as well.
LEMMA DropOwnerGuarded ==
    ASSUME NEW s, NEW t, Typed(t), NEW time, Guarded(s, t, time)
    PROVE  Guarded(s, DropOwner(t), time)
  <1>1. /\ DropOwner(t).owner = NoOwner /\ DropOwner(t).state = t.state
        /\ DropOwner(t).eng = CalibrationBoundary(t.eng)
    BY DropOwnerProps
  <1>2. CalibrationBoundary(t.eng).st = t.eng.st /\ CalibrationBoundary(t.eng).out = t.eng.out
    BY DEF CalibrationBoundary, Typed, Service, Engine
  <1> QED
    BY <1>1, <1>2 DEF Guarded, Halted, LeaseOver

\* Guarded methods compose.
LEMMA GuardedTransitive ==
    ASSUME NEW r, NEW s, NEW t, NEW time, Guarded(r, s, time), Guarded(s, t, time)
    PROVE  Guarded(r, t, time)
  BY DEF Guarded

\* A local abort after its poll, and the operation that its reply names.
LEMMA AbortPolledGuarded ==
    ASSUME NEW s, Sound(s), Halted(s), NEW r, NEW x \in Contexts
    PROVE  /\ Guarded(s, AbortPolled(s, r, x).s, x.now)
           /\ AbortPolled(s, r, x).reply \in [op: {r.op}, err: ErrorCodes]
  <1> DEFINE a == AbortJob(s, r, s.job.id, x)
             d == AbortPolled(s, r, x)
  <1>1. Guarded(s, s, x.now) /\ Typed(s)
    BY FrameSteady, SteadyGuarded DEF Sound
  <1>2. Guarded(s, a.s, x.now)
    BY AbortJobSteady, SteadyGuarded
  <1>3. a.reply \in [op: {r.op}, err: ErrorCodes] /\ Sound(a.s) /\ a = [s |-> a.s, reply |-> a.reply]
    BY AbortJobKeeps DEF Keeps
  <1> HIDE DEF a
  <1>4. Guarded(s, DropOwner(s), x.now) /\ Guarded(s, DropOwner(a.s), x.now)
    BY <1>1, <1>2, <1>3, DropOwnerGuarded DEF Sound
  <1>5. Guarded(s, d.s, x.now)
    <2> HIDE DEF d
    <2> QED
      BY <1>1, <1>2, <1>4, AbortPolledCases DEF a, d
  <1>6. d.reply \in [op: {r.op}, err: ErrorCodes]
    <2>1. "OUTPUT_STATE_UNKNOWN" \in ErrorCodes /\ "NONE" \in ErrorCodes
      BY DEF ErrorCodes
    <2>2. d.reply = a.reply \/ d.reply = [op |-> r.op, err |-> "OUTPUT_STATE_UNKNOWN"]
                            \/ d.reply = [op |-> r.op, err |-> "NONE"]
      BY <1>3 DEF AbortPolled, Reject, Success, a
    <2> QED
      BY <1>3, <2>1, <2>2
  <1> QED
    BY <1>5, <1>6

\* A local abort with its poll.
LEMMA LocalAbortGuarded ==
    ASSUME NEW s, Sound(s), Halted(s), NEW r, NEW x \in Contexts
    PROVE  /\ Guarded(s, LocalAbortOf(s, r, x).s, x.now)
           /\ LocalAbortOf(s, r, x).reply \in [op: {r.op}, err: ErrorCodes]
  <1> DEFINE p == PollService(s, x)
  <1>1. Sound(p) /\ Halted(p) /\ Guarded(s, p, x.now)
    BY PollServiceSteady, SteadyGuarded
  <1> HIDE DEF p
  <1>2. /\ Guarded(p, AbortPolled(p, r, x).s, x.now)
        /\ AbortPolled(p, r, x).reply \in [op: {r.op}, err: ErrorCodes]
    BY <1>1, AbortPolledGuarded
  <1>3. Guarded(s, AbortPolled(p, r, x).s, x.now)
    BY <1>1, <1>2, GuardedTransitive
  <1> QED
    BY <1>2, <1>3 DEF LocalAbortOf, p

\* The interlock: its abort, and one more disable.
LEMMA LocalInhibitGuarded ==
    ASSUME NEW s, Sound(s), Halted(s), NEW r, NEW x \in Contexts, NEW off2 \in BOOLEAN
    PROVE  /\ Guarded(s, LocalInhibitOf(s, r, x, off2).s, x.now)
           /\ LocalInhibitOf(s, r, x, off2).reply \in [op: {r.op}, err: ErrorCodes]
  <1> DEFINE l == Latched(s)
             p == PollService(l, x)
             a == AbortPolled(p, r, x).s
             d == LocalInhibitOf(s, r, x, off2)
  <1>1. Sound(a) /\ d.s = [a EXCEPT !.eng = Disable(@, off2)]
    BY LocalInhibitCases
  <1>2. /\ Sound(l) /\ l.owner = s.owner /\ l.state = s.state
        /\ l.eng.st = s.eng.st /\ l.eng.out = s.eng.out
    BY LatchedSound, InhibitOutputType DEF Sound, Typed, Service
  <1>3. Halted(l) /\ Guarded(s, l, x.now)
    BY <1>2, FrameSteady, SteadyGuarded DEF Halted
  <1>4. d.reply \in [op: {r.op}, err: ErrorCodes]
    <2>1. "OUTPUT_STATE_UNKNOWN" \in ErrorCodes /\ "NONE" \in ErrorCodes
      BY DEF ErrorCodes
    <2>2. \/ d.reply = [op |-> r.op, err |-> "OUTPUT_STATE_UNKNOWN"]
          \/ d.reply = [op |-> r.op, err |-> "NONE"]
      BY DEF LocalInhibitOf, InhibitAborted, Reject, Success
    <2> QED
      BY <2>1, <2>2
  <1>5. a = LocalAbortOf(l, r, x).s
    BY DEF LocalAbortOf
  <1> HIDE DEF l, a, d
  <1>6. Guarded(l, a, x.now)
    BY <1>2, <1>3, <1>5, LocalAbortGuarded
  <1>7. Guarded(a, d.s, x.now)
    <2> DEFINE e == Disable(a.eng, off2)
    <2>0. a.eng \in Engine
      BY <1>1 DEF Sound, Typed, Service
    <2>1. e.st \in {"idle", "failed"} /\ (e.out => a.eng.out)
      BY <2>0, DisableType
    <2> HIDE DEF e
    <2>2. d.s.owner = a.owner /\ d.s.state = a.state /\ d.s.eng = e
      BY <1>1 DEF Sound, Typed, Service, e
    <2> QED
      BY <2>1, <2>2 DEF Guarded, Halted, LeaseOver
  <1> QED
    BY <1>3, <1>4, <1>6, <1>7, GuardedTransitive DEF d

\* An engine with no start pending starts nothing by itself.
LEMMA EngineStepHalted ==
    ASSUME NEW e \in Engine, e.st \in {"idle", "failed"}, NEW t \in Nat, NEW f,
           \/ f \in EngLead(e)
           \/ \E c \in Clocks : f \in EngLaunch(e, t, c)
           \/ \E c \in Clocks : f \in EngMiss(e, t, c)
           \/ f \in EngFinish(e, t) \/ f \in EngTail(e, t)
           \/ f \in EngFault(e) \/ f \in EngSafetyStop(e)
    PROVE  f.st \in {"idle", "failed"} /\ (f.out => e.out)
  <1>1. f \in EngSafetyStop(e)
    BY DEF EngLead, EngLaunch, EngMiss, EngFinish, EngTail, EngFault
  <1>2. f = [Stopped(e) EXCEPT !.safety = "stopped"]
    BY <1>1 DEF EngSafetyStop
  <1>3. Stopped(e) \in Engine /\ Stopped(e).st = "idle" /\ Stopped(e).out = FALSE
    BY StoppedType
  <1> QED
    BY <1>2, <1>3 DEF Engine

\* Nor do upkeep, the freezing of a pair and the steps of the engine.
LEMMA UpkeepGuarded ==
    ASSUME IInv, Halted(svc), Upkeep \/ FreezePair \/ Engine1
    PROVE  Guarded(svc, svc', now)
  <1>1. svc \in Service /\ svc.eng \in Engine /\ now \in Nat
    BY DEF IInv, Sound, Typed, Service
  <1>2. svc'.state = svc.state /\ svc'.owner = svc.owner
    BY UpkeepCases
  <1>3. svc.eng.st \in {"idle", "failed"} =>
          svc'.eng.st \in {"idle", "failed"} /\ (svc'.eng.out => svc.eng.out)
    <2>1. CASE Upkeep
      BY <1>1, <2>1 DEF Upkeep, BeginMaintenance, EndMaintenance, FinishVerification, Service
    <2>2. CASE FreezePair
      <3>1. PICK freeze \in BOOLEAN : svc' = [svc EXCEPT !.eng = FreezePairCalibration(@, freeze)]
        BY <2>2 DEF FreezePair
      <3>2. svc'.eng = FreezePairCalibration(svc.eng, freeze)
        BY <1>1, <3>1 DEF Service
      <3> QED
        BY <1>1, <3>2 DEF FreezePairCalibration, Engine
    <2>3. CASE Engine1
      <3>1. PICK f : /\ \/ f \in EngLead(svc.eng)
                        \/ \E c \in Clocks : f \in EngLaunch(svc.eng, now, c)
                        \/ \E c \in Clocks : f \in EngMiss(svc.eng, now, c)
                        \/ f \in EngFinish(svc.eng, now) \/ f \in EngTail(svc.eng, now)
                        \/ f \in EngFault(svc.eng) \/ f \in EngSafetyStop(svc.eng)
                     /\ svc' = [svc EXCEPT !.eng = f]
        BY <2>3 DEF Engine1, EngineLead, EngineLaunch, EngineMiss, EngineFinish, EngineTail,
                    EngineFault, EngineSafetyStop, EngineStep
      <3>2. svc'.eng = f
        BY <1>1, <3>1 DEF Service
      <3> QED
        BY <1>1, <3>1, <3>2, EngineStepHalted
    <2> QED
      BY <2>1, <2>2, <2>3
  <1>4. svc.state \notin Live => svc.state \notin Executing
    BY DEF Live, Executing
  <1> QED
    BY <1>2, <1>3, <1>4 DEF Guarded, Halted, LeaseOver

\* The constructor's disable leaves no start pending and raises nothing.
LEMMA BlankEngine ==
    ASSUME NEW e \in Engine, NEW off \in BOOLEAN, NEW verify \in BOOLEAN
    PROVE  LET b == Boot(e, off, verify) IN
           b.eng.st \in {"idle", "failed"} /\ (b.eng.out => e.out)
  BY DisableType DEF Boot

\* Neither does a reset, which is known by its boot count.
LEMMA ResetEngine ==
    ASSUME NEW s, Sound(s), NEW off \in BOOLEAN, NEW fresh \in BOOLEAN
    PROVE  LET t == ResetOf(s, off, fresh) IN
           t.eng.st \in {"idle", "failed"} /\ (t.eng.out => s.eng.out) /\ t.boot = s.boot + 1
  <1> DEFINE e == CalibrationBoundary(s.eng)
             b == Boot(e, off, FALSE)
             t == ResetOf(s, off, fresh)
  <1>1. e \in Engine /\ e.out = s.eng.out
    BY CalibrationType DEF Sound, Typed, Service
  <1>2. t.eng = b.eng /\ t.boot = s.boot + 1
    BY DEF ResetOf, Boot
  <1> HIDE DEF e, t
  <1>3. b.eng.st \in {"idle", "failed"} /\ (b.eng.out => e.out)
    BY <1>1, BlankEngine
  <1> QED
    BY <1>1, <1>2, <1>3 DEF t

-------------------------------------------------------------------------------
(* The invariant, and what the steps may do. *)

\* No start is pending in the engine of a service that executes nothing, and a
\* pending release belongs to an expired lease.
StepInv == Halted(svc) /\ LeaseOver(svc, now)

\* The kinds of steps, with what each may do.
Granting ==
    \E r : \E from \in Senders, x \in Contexts :
        Serves(from, r, x) /\ Granted(svc, r, HandleOwned(svc, r, x), now)

Steadily ==
    /\ Steady(svc, svc', now) /\ Continues(svc, svc') /\ Halted(svc')
    /\ now' = now /\ last' = NoReply

Idly == svc' = svc /\ now' \in {now, now + 1} /\ last' = NoReply

Locally ==
    /\ Guarded(svc, svc', now) /\ now' = now
    /\ last' \in [op: {"LOCAL_ABORT", "INHIBIT"}, err: ErrorCodes]

Restarting ==
    /\ svc'.boot # svc.boot /\ svc'.owner = NoOwner /\ Halted(svc')
    /\ svc'.eng.out => svc.eng.out
    /\ now' = now /\ last' = NoReply

\* Every step is of one of these kinds.
LEMMA NextCases ==
    ASSUME IInv, StepInv, Next
    PROVE  Granting \/ Steadily \/ Idly \/ Locally \/ Restarting
  <1>0. Sound(svc) /\ Halted(svc)
    BY DEF IInv, StepInv
  <1>1. CASE Requests
    <2>1. PICK r : \E from \in Senders, x \in Contexts : Serves(from, r, x)
      BY <1>1, RequestsCases DEF IInv
    <2>2. PICK from \in Senders, x \in Contexts : Serves(from, r, x)
      BY <2>1
    <2>3. WellFormed(r) /\ x.now = now
      BY <2>2 DEF Serves
    <2>4. Granted(svc, r, HandleOwned(svc, r, x), now)
      BY <1>0, <2>3, HandleOwnedGranted
    <2> QED
      BY <2>2, <2>4 DEF Granting
  <1>2. CASE Poll
    <2>1. PICK x \in PollContexts : svc' = PollService(svc, x)
      BY <1>2 DEF Poll
    <2>2. x \in Contexts /\ x.now = now
      BY PollContextType
    <2>3. Steady(svc, svc', now) /\ Continues(svc, svc') /\ Halted(svc')
      BY <1>0, <2>1, <2>2, PollServiceSteady
    <2> QED
      BY <1>2, <2>3 DEF Poll, Steadily
  <1>3. CASE LocalAbort
    <2> DEFINE r == [op |-> "LOCAL_ABORT"]
    <2>1. PICK x \in PollContexts : /\ svc' = LocalAbortOf(svc, r, x).s
                                    /\ last' = LocalAbortOf(svc, r, x).reply
      BY <1>3 DEF LocalAbort
    <2>2. x \in Contexts /\ x.now = now /\ r.op = "LOCAL_ABORT"
      BY PollContextType
    <2> HIDE DEF r
    <2>3. Guarded(svc, svc', now) /\ last' \in [op: {r.op}, err: ErrorCodes]
      BY <1>0, <2>1, <2>2, LocalAbortGuarded
    <2> QED
      BY <1>3, <2>2, <2>3 DEF LocalAbort, Locally
  <1>4. CASE LocalInhibit
    <2> DEFINE r == [op |-> "INHIBIT"]
    <2>1. PICK x \in PollContexts, off2 \in BOOLEAN :
            /\ svc' = LocalInhibitOf(svc, r, x, off2).s
            /\ last' = LocalInhibitOf(svc, r, x, off2).reply
      BY <1>4 DEF LocalInhibit
    <2>2. x \in Contexts /\ x.now = now /\ r.op = "INHIBIT"
      BY PollContextType
    <2> HIDE DEF r
    <2>3. Guarded(svc, svc', now) /\ last' \in [op: {r.op}, err: ErrorCodes]
      BY <1>0, <2>1, <2>2, LocalInhibitGuarded
    <2> QED
      BY <1>4, <2>2, <2>3 DEF LocalInhibit, Locally
  <1>5. CASE Upkeep \/ FreezePair \/ Engine1
    <2>1. Guarded(svc, svc', now)
      BY <1>0, <1>5, UpkeepGuarded
    <2>2. /\ now' = now /\ last' = NoReply
          /\ svc'.state = svc.state /\ svc'.job = svc.job /\ svc'.owner = svc.owner
      BY <1>5, UpkeepCases
    <2> QED
      BY <2>1, <2>2 DEF Steadily, Guarded, Steady, OwnerSteady, Continues
  <1>6. CASE Reset
    <2>1. PICK off \in BOOLEAN, fresh \in BOOLEAN : svc' = ResetOf(svc, off, fresh)
      BY <1>6 DEF Reset
    <2>2. svc'.owner = NoOwner
      BY <2>1, BlankService
    <2>3. /\ svc'.eng.st \in {"idle", "failed"} /\ (svc'.eng.out => svc.eng.out)
          /\ svc'.boot = svc.boot + 1
      BY <1>0, <2>1, ResetEngine
    <2>4. svc.boot \in Nat
      BY <1>0 DEF Sound, Typed, Service
    <2>5. svc'.boot # svc.boot /\ Halted(svc')
      BY <2>3, <2>4 DEF Halted
    <2> QED
      BY <1>6, <2>2, <2>3, <2>5 DEF Reset, Restarting
  <1>7. CASE SaveCorrection
    BY <1>7 DEF SaveCorrection, Idly
  <1>8. CASE Tick
    BY <1>8 DEF Tick, Idly
  <1> QED
    BY <1>1, <1>2, <1>3, <1>4, <1>5, <1>6, <1>7, <1>8 DEF Next

\* Every step keeps the invariant.
LEMMA NextStepInv == IInv /\ StepInv /\ [Next]_vars => StepInv'
  <1> SUFFICES ASSUME IInv, StepInv, [Next]_vars PROVE StepInv'
    OBVIOUS
  <1>1. CASE Granting
    <2>1. PICK r : \E from \in Senders, x \in Contexts :
            Serves(from, r, x) /\ Granted(svc, r, HandleOwned(svc, r, x), now)
      BY <1>1 DEF Granting
    <2> QED
      BY <2>1 DEF Serves, Granted, StepInv
  <1>2. CASE Steadily
    BY <1>2 DEF Steadily, Steady, OwnerSteady, StepInv, LeaseOver
  <1>3. CASE Idly
    <2>1. svc.owner # NoOwner => svc.owner.expires \in Nat
      BY DEF IInv, Sound, Typed, Service, Owners
    <2>2. now \in Nat
      BY DEF IInv
    <2> QED
      BY <1>3, <2>1, <2>2 DEF Idly, StepInv, LeaseOver, Halted
  <1>4. CASE Locally
    BY <1>4 DEF Locally, Guarded, StepInv
  <1>5. CASE Restarting
    BY <1>5 DEF Restarting, StepInv, LeaseOver
  <1>6. CASE UNCHANGED vars
    BY <1>6 DEF vars, StepInv, Halted, LeaseOver
  <1> QED
    BY <1>1, <1>2, <1>3, <1>4, <1>5, <1>6, NextCases

\* An idle service has no start pending in its engine, and an owner keeps the
\* transmitter for its whole lease (expire_resources, job_service.cpp:989).
THEOREM StepsKept == Spec => []StepInv
  <1>1. Init => StepInv
    <2> SUFFICES ASSUME Init PROVE StepInv
      OBVIOUS
    <2>1. PICK off \in BOOLEAN, verify \in BOOLEAN : svc = Boot(EngineInit, off, verify)
      BY DEF Init
    <2>2. EngineInit \in Engine
      BY DEF EngineInit, Engine, EngineStates
    <2>3. svc.eng.st \in {"idle", "failed"} /\ svc.owner = NoOwner
      BY <2>1, <2>2, BlankEngine DEF Boot
    <2> QED
      BY <2>3 DEF StepInv, Halted, LeaseOver
  <1> QED
    BY <1>1, NextStepInv, Soundness, PTL DEF Spec

\* An answer to a request or to a local control is one.
LEMMA AnswersAreReplies ==
    /\ \A op \in Ops, err \in ErrorCodes, from \in Senders :
         [op |-> op, err |-> err, from |-> from] # NoReply
    /\ \A a \in [op: {"LOCAL_ABORT", "INHIBIT"}, err: ErrorCodes] : a # NoReply
  BY ReplyAssumption

\* What a request's reply is.
LEMMA RequestReplies ==
    ASSUME IInv, NEW r, NEW from \in Senders, NEW x \in Contexts, Serves(from, r, x)
    PROVE  /\ last' # NoReply /\ last'.op = r.op /\ last'.from = from
           /\ last'.err = HandleOwned(svc, r, x).reply.err
  <1>1. r.op \in Ops /\ HandleOwned(svc, r, x).reply.err \in ErrorCodes
    BY HandleOwnedHandled DEF Serves, IInv, Handled, Replies, WellFormed
  <1> QED
    BY <1>1, AnswersAreReplies DEF Serves

\* The owner whose lease runs keeps the transmitter.
LEMMA NextLease ==
    ASSUME IInv, StepInv, Next, svc.owner # NoOwner, now < svc.owner.expires,
           svc'.boot = svc.boot
    PROVE  \/ /\ svc'.owner # NoOwner
              /\ svc'.owner.session = svc.owner.session
              /\ svc'.owner.principal = svc.owner.principal
              /\ svc'.owner.id = svc.owner.id
           \/ /\ last' # NoReply
              /\ \/ last'.op \in {"LOCAL_ABORT", "INHIBIT"}
                 \/ /\ last'.op = "RELEASE" /\ last'.err = "NONE"
                    /\ last'.from.session = svc.owner.session
                    /\ last'.from.principal = svc.owner.principal
  <1>1. Runs(svc.owner, now)
    <2>1. svc.owner.expires \in Nat /\ now \in Nat
      BY DEF IInv, Sound, Typed, Service, Owners
    <2> QED
      BY <2>1 DEF StepInv, LeaseOver, Runs
  <1>2. CASE Granting
    <2>1. PICK r : \E from \in Senders, x \in Contexts :
            Serves(from, r, x) /\ Granted(svc, r, HandleOwned(svc, r, x), now)
      BY <1>2 DEF Granting
    <2>2. PICK from \in Senders, x \in Contexts :
            Serves(from, r, x) /\ Granted(svc, r, HandleOwned(svc, r, x), now)
      BY <2>1
    <2>3. /\ last' # NoReply /\ last'.op = r.op /\ last'.from = from
          /\ last'.err = HandleOwned(svc, r, x).reply.err
      BY <2>2, RequestReplies
    <2>4. \/ SameOwner(svc'.owner, svc.owner)
          \/ /\ r.op = "RELEASE" /\ HandleOwned(svc, r, x).reply.err = "NONE"
             /\ svc.owner.session = r.session /\ svc.owner.principal = r.principal
      BY <1>1, <2>2 DEF Serves, Granted, Owns
    <2>5. r.session = from.session /\ r.principal = from.principal
      BY <2>2 DEF Serves
    <2> QED
      BY <2>3, <2>4, <2>5 DEF SameOwner
  <1>3. CASE Steadily
    BY <1>1, <1>3 DEF Steadily, Steady, OwnerSteady
  <1>4. CASE Idly
    BY <1>4 DEF Idly
  <1>5. CASE Locally
    <2>1. last' # NoReply /\ last'.op \in {"LOCAL_ABORT", "INHIBIT"}
      BY <1>5, AnswersAreReplies DEF Locally
    <2> QED
      BY <2>1
  <1>6. CASE Restarting
    BY <1>6 DEF Restarting
  <1> QED
    BY <1>2, <1>3, <1>4, <1>5, <1>6, NextCases

\* Nobody takes the transmitter from an owner whose lease runs: not a CLAIM, an
\* expiry, a pruned session or the end of its job (expire_resources and
\* record_terminal, job_service.cpp:989, 1012).
THEOREM LeasesRespected == Spec => LeaseRespected
  <1>1. IInv /\ StepInv /\ [Next]_vars =>
          [svc.owner # NoOwner /\ now < svc.owner.expires /\ svc'.boot = svc.boot =>
             \/ /\ svc'.owner # NoOwner
                /\ svc'.owner.session = svc.owner.session
                /\ svc'.owner.principal = svc.owner.principal
                /\ svc'.owner.id = svc.owner.id
             \/ /\ last' # NoReply
                /\ \/ last'.op \in {"LOCAL_ABORT", "INHIBIT"}
                   \/ /\ last'.op = "RELEASE" /\ last'.err = "NONE"
                      /\ last'.from.session = svc.owner.session
                      /\ last'.from.principal = svc.owner.principal]_vars
    BY NextLease
  <1> QED
    BY <1>1, Soundness, StepsKept, PTL DEF Spec, LeaseRespected

\* What an execution may become, and what a failed transmitter may.
LEMMA NextUndisturbed ==
    ASSUME IInv, StepInv, Next, svc'.boot = svc.boot
    PROVE  /\ svc.state \in {"ARMED", "RUNNING"} =>
                \/ svc'.state \in {"ARMED", "RUNNING", "COMPLETE", "MISSED", "FAILED"}
                       /\ svc'.job = svc.job
                \/ last' # NoReply /\ last'.op \in {"ABORT", "LOCAL_ABORT", "INHIBIT"}
           /\ svc.state = "FAILED" => svc'.state = "FAILED"
  <1>1. CASE Granting
    <2>1. PICK r : \E from \in Senders, x \in Contexts :
            Serves(from, r, x) /\ Granted(svc, r, HandleOwned(svc, r, x), now)
      BY <1>1 DEF Granting
    <2>2. PICK from \in Senders, x \in Contexts :
            Serves(from, r, x) /\ Granted(svc, r, HandleOwned(svc, r, x), now)
      BY <2>1
    <2>3. last' # NoReply /\ last'.op = r.op
      BY <2>2, RequestReplies
    <2>4. /\ r.op # "ABORT" => Continues(svc, svc')
          /\ svc.state = "FAILED" => svc'.state = "FAILED"
      BY <2>2 DEF Serves, Granted
    <2> QED
      BY <2>3, <2>4 DEF Continues, Executing
  <1>2. CASE Steadily
    BY <1>2 DEF Steadily, Steady, Continues, Executing
  <1>3. CASE Idly
    BY <1>3 DEF Idly
  <1>4. CASE Locally
    <2>1. last' # NoReply /\ last'.op \in {"LOCAL_ABORT", "INHIBIT"}
      BY <1>4, AnswersAreReplies DEF Locally
    <2> QED
      BY <1>4, <2>1 DEF Locally, Guarded
  <1>5. CASE Restarting
    BY <1>5 DEF Restarting
  <1> QED
    BY <1>1, <1>2, <1>3, <1>4, <1>5, NextCases

\* An execution ends early only by an abort, and a failed transmitter stays
\* failed until it restarts (abort_job, poll and reset, job_service.cpp:546, 614,
\* 762).
THEOREM NothingDisturbed == Spec => Undisturbed
  <1>1. IInv /\ StepInv /\ [Next]_vars =>
          [svc.state \in {"ARMED", "RUNNING"} /\ svc'.boot = svc.boot =>
             \/ svc'.state \in {"ARMED", "RUNNING", "COMPLETE", "MISSED", "FAILED"}
                    /\ svc'.job = svc.job
             \/ last' # NoReply /\ last'.op \in {"ABORT", "LOCAL_ABORT", "INHIBIT"}]_vars
    BY NextUndisturbed
  <1>2. IInv /\ StepInv /\ [Next]_vars =>
          [svc.state = "FAILED" /\ svc'.boot = svc.boot => svc'.state = "FAILED"]_vars
    BY NextUndisturbed
  <1> QED
    BY <1>1, <1>2, Soundness, StepsKept, PTL
    DEF Spec, Undisturbed, ExecutionContinues, FailedSticky

\* A request for authority is refused before its session or its cached reply
\* is looked at.
LEMMA AuthorityAnswer ==
    ASSUME NEW s0, Sound(s0), NEW r, r.op \in Authority, NEW x \in Contexts,
           s0.inhibited \/ Maintenance(s0, x.now)
    PROVE  HandleOwned(s0, r, x).reply.err # "NONE"
  <1> DEFINE s == Refresh(s0, x)
  <1>1. s.inhibited = s0.inhibited /\ s.maint = s0.maint /\ s.verify = s0.verify
    BY RefreshKeeps DEF Keeps, Mode
  <1> HIDE DEF s
  <1>2. Refused(s, r, x)
    BY <1>1 DEF Refused, Maintenance
  <1>3. \E err \in {"DEVICE_FAULT", "BUSY"} : Handle(s, r, x) = Reject(s, r, err)
    BY <1>2 DEF Handle
  <1> QED
    BY <1>3 DEF HandleOwned, Reject, s

\* What the interlock and maintenance allow.
LEMMA NextAuthority ==
    ASSUME IInv, StepInv, Next
    PROVE  /\ svc.inhibited /\ ~svc.eng.out => ~svc'.eng.out
           /\ /\ svc.inhibited \/ Maintenance(svc, now)
              /\ last' # NoReply /\ last'.op \in Authority
              => last'.err # "NONE"
  <1>1. svc.inhibited => svc.state \notin Live
    BY DEF IInv, Locked
  <1>2. CASE Granting
    <2>1. PICK r : \E from \in Senders, x \in Contexts :
            Serves(from, r, x) /\ Granted(svc, r, HandleOwned(svc, r, x), now)
      BY <1>2 DEF Granting
    <2>2. PICK from \in Senders, x \in Contexts :
            Serves(from, r, x) /\ Granted(svc, r, HandleOwned(svc, r, x), now)
      BY <2>1
    <2>3. last'.op = r.op /\ last'.err = HandleOwned(svc, r, x).reply.err /\ x.now = now
      BY <2>2, RequestReplies DEF Serves
    <2>4. svc.state \notin Live /\ svc'.eng.out => svc.eng.out
      BY <2>2 DEF Serves, Granted
    <2>5. /\ svc.inhibited \/ Maintenance(svc, now)
          /\ last'.op \in Authority
          => last'.err # "NONE"
      BY <2>3, AuthorityAnswer DEF IInv
    <2> QED
      BY <1>1, <2>4, <2>5
  <1>3. CASE Steadily
    BY <1>1, <1>3 DEF Steadily, Steady
  <1>4. CASE Idly
    BY <1>4 DEF Idly
  <1>5. CASE Locally
    BY <1>1, <1>5 DEF Locally, Guarded, Authority
  <1>6. CASE Restarting
    BY <1>6 DEF Restarting
  <1> QED
    BY <1>2, <1>3, <1>4, <1>5, <1>6, NextCases

\* Behind the interlock output that is off stays off, and neither the interlock
\* nor maintenance lets a request gain authority, a replayed one included
\* (the check before the replay in handle_owned, job_service.cpp:177).
THEOREM NothingGranted == Spec => NoNewAuthority
  <1>1. IInv /\ StepInv /\ [Next]_vars =>
          [svc.inhibited /\ ~svc.eng.out => ~svc'.eng.out]_vars
    BY NextAuthority
  <1>2. IInv /\ StepInv /\ [Next]_vars =>
          [/\ svc.inhibited \/ Maintenance(svc, now)
           /\ last' # NoReply /\ last'.op \in Authority
           => last'.err # "NONE"]_vars
    BY NextAuthority
  <1> QED
    BY <1>1, <1>2, Soundness, StepsKept, PTL
    DEF Spec, NoNewAuthority, InhibitFinal, AuthorityRefused

-----------------------------------------------------------------------------
(***************************************************************************)
(* Sessions: the owner's session and every session that still has cached   *)
(* replies are kept, bound to the principal that used them (SessionBound). *)
(* In a section of its own below: the UTC second a job is armed for        *)
(* (LaunchInSecond).                                                       *)
(*                                                                         *)
(* SessionBound is not inductive: a session is pruned by its own age and a *)
(* reply by its own, so that a reply could outlive its session. Bound adds *)
(* why it does not: the session of a reply was last seen no earlier than   *)
(* the reply was given, and nothing was seen in the future. The methods    *)
(* that prune neither leave both lists alone (ClientsKept).                *)
(***************************************************************************)

\* The owner and every reply have a session of their principal, that was last
\* seen after the reply.
Bound(s, time) ==
    /\ \A m, n \in s.sessions : m.id = n.id => m = n
    /\ \A n \in s.sessions : n.seen <= time
    /\ s.owner # NoOwner =>
         \E n \in s.sessions : n.id = s.owner.session /\ n.principal = s.owner.principal
    /\ \A e \in s.replay :
         \E n \in s.sessions : n.id = e.session /\ n.principal = e.principal /\ e.at <= n.seen

\* A method leaves the sessions and the replay cache alone.
ClientsKept(s, t) == t.sessions = s.sessions /\ t.replay = s.replay

\* Nobody becomes owner.
OwnerLeft(s, t) ==
    t.owner # NoOwner => /\ s.owner # NoOwner
                         /\ t.owner.session = s.owner.session
                         /\ t.owner.principal = s.owner.principal

\* A steady method makes nobody owner.
LEMMA SteadyOwnerLeft ==
    ASSUME NEW s, NEW t, NEW time, Steady(s, t, time)
    PROVE  OwnerLeft(s, t)
  BY DEF Steady, OwnerSteady, OwnerLeft

\* A method that leaves both alone and makes nobody owner keeps the bindings.
LEMMA FrameBound ==
    ASSUME NEW s, NEW t, NEW time, Bound(s, time), ClientsKept(s, t), OwnerLeft(s, t)
    PROVE  Bound(t, time)
  BY DEF Bound, ClientsKept, OwnerLeft

-------------------------------------------------------------------------------
(* Methods that leave the sessions and the replay cache alone. *)

\* Dropping the owner or the job.
LEMMA DropOwnerClients ==
    ASSUME NEW s, Typed(s)
    PROVE  ClientsKept(s, DropOwner(s)) /\ ClientsKept(s, ClearJob(s))
  BY DEF ClientsKept, DropOwner, ClearJob, Typed, Service

\* Recording the end of an execution.
LEMMA StopAsClients ==
    ASSUME NEW s, Typed(s), NEW st, NEW err, NEW x
    PROVE  ClientsKept(s, StopAs(s, st, err, x))
  <1> DEFINE stopped == [s EXCEPT !.eng = Disable(@, x.off)]
             t == StopAs(s, st, err, x)
  <1>1. \E w, T, R :
          t = ReleasePending([stopped EXCEPT !.state = w, !.terminals = T, !.retained = R])
    BY DEF StopAs, RecordTerminal
  <1>2. PICK w, T, R :
          t = ReleasePending([stopped EXCEPT !.state = w, !.terminals = T, !.retained = R])
    BY <1>1
  <1> HIDE DEF t
  <1> DEFINE v == [stopped EXCEPT !.state = w, !.terminals = T, !.retained = R]
  <1>3. t = v \/ t = DropOwner(v)
    BY <1>2 DEF ReleasePending
  <1>4. /\ v.sessions = s.sessions /\ v.replay = s.replay
        /\ DropOwner(v).sessions = s.sessions /\ DropOwner(v).replay = s.replay
    BY DEF Typed, Service, DropOwner
  <1> HIDE DEF v
  <1> QED
    BY <1>3, <1>4 DEF ClientsKept, t

\* The expiry of a lease.
LEMMA ExpireResourcesClients ==
    ASSUME NEW s, Sound(s), NEW x \in Contexts
    PROVE  ClientsKept(s, ExpireResources(s, x))
  <1> DEFINE t == ExpireResources(s, x)
             stopped == StopAs(s, "ABORTED", "NONE", x)
             kept == IF stopped.state = "FAILED" THEN stopped ELSE ClearJob(stopped)
  <1>0. Typed(s)
    BY DEF Sound
  <1>1. \/ t = s
        \/ t = [s EXCEPT !.owner.release = TRUE]
        \/ t = DropOwner(kept) /\ s.state = "LOADED"
        \/ t = DropOwner(s)
    BY DEF ExpireResources
  <1>2. ClientsKept(s, s) /\ ClientsKept(s, [s EXCEPT !.owner.release = TRUE])
    BY <1>0 DEF ClientsKept, Typed, Service
  <1>3. CASE t = DropOwner(kept) /\ s.state = "LOADED"
    <2>1. s.job \in Jobs /\ s.state \in Live
      BY <1>3 DEF Sound, Typed, Service, Live
    <2>2. Typed(stopped) /\ ClientsKept(s, stopped)
      BY <1>0, <2>1, EndCodes, StopAsProps, StopAsClients
    <2> HIDE DEF stopped
    <2>3. Typed(kept) /\ ClientsKept(s, kept)
      <3>1. Typed(ClearJob(stopped)) /\ ClientsKept(s, ClearJob(stopped))
        BY <2>2, ClearJobProps, DropOwnerClients DEF ClientsKept
      <3> QED
        BY <2>2, <3>1
    <2> HIDE DEF kept
    <2> QED
      BY <1>3, <2>3, DropOwnerClients DEF ClientsKept
  <1> QED
    BY <1>0, <1>1, <1>2, <1>3, DropOwnerClients

\* The end that an engine reports.
LEMMA ReportedClients ==
    ASSUME NEW s, Sound(s), NEW x, NEW t \in Reported(s, x)
    PROVE  ClientsKept(s, t)
  <1>1. ClientsKept(s, s) /\ Typed(s)
    BY DEF ClientsKept, Sound
  <1> QED
    BY <1>1, StopAsClients DEF Reported

\* Settling a running job.
LEMMA SettleClients ==
    ASSUME NEW s0, Sound(s0), s0.state = "RUNNING", NEW x \in Contexts
    PROVE  ClientsKept(s0, Settle(s0, x))
  <1>1. PICK arm \in Arms : /\ Sound([s0 EXCEPT !.arm = arm])
                            /\ Settle(s0, x) \in Reported([s0 EXCEPT !.arm = arm], x)
    BY SettleCases
  <1> DEFINE s == [s0 EXCEPT !.arm = arm]
  <1>2. s.sessions = s0.sessions /\ s.replay = s0.replay
    BY DEF Sound, Typed, Service
  <1>3. Sound(s) /\ Settle(s0, x) \in Reported(s, x)
    BY <1>1
  <1> HIDE DEF s
  <1>4. ClientsKept(s, Settle(s0, x))
    BY <1>3, ReportedClients
  <1> QED
    BY <1>2, <1>4 DEF ClientsKept

\* A launch by the service.
LEMMA LaunchByServiceClients ==
    ASSUME NEW s, Sound(s), s.state = "ARMED", NEW x \in Contexts
    PROVE  ClientsKept(s, LaunchByService(s, x))
  <1> DEFINE begun == Begin(s.eng, s.job, x.now, NoCond, x.start)
             tried == [s EXCEPT !.eng = begun.eng]
             run   == [s EXCEPT !.eng = begun.eng, !.arm.launch = x.now, !.state = "RUNNING"]
             t     == LaunchByService(s, x)
  <1>1. /\ Typed(tried) /\ tried.state = "ARMED" /\ tried.job = s.job
        /\ Sound(run) /\ run.state = "RUNNING" /\ run.job = s.job
        /\ \/ t = s
           \/ t = StopAs(s, "MISSED", "MISSED_START", x)
           \/ t = StopAs(tried, "FAILED", "DEVICE_FAULT", x)
           \/ t = Settle(run, x)
    BY LaunchCases
  <1>2. ClientsKept(s, tried) /\ ClientsKept(s, run) /\ ClientsKept(s, s) /\ Typed(s)
    BY DEF ClientsKept, Sound, Typed, Service
  <1> HIDE DEF begun, tried, run, t
  <1>3. /\ ClientsKept(s, StopAs(s, "MISSED", "MISSED_START", x))
        /\ ClientsKept(tried, StopAs(tried, "FAILED", "DEVICE_FAULT", x))
        /\ ClientsKept(run, Settle(run, x))
    BY <1>1, <1>2, StopAsClients, SettleClients
  <1> QED
    BY <1>1, <1>2, <1>3 DEF ClientsKept, t

\* poll() after its prologue.
LEMMA PollRefreshedClients ==
    ASSUME NEW s, Sound(s), NEW x \in Contexts
    PROVE  ClientsKept(s, PollRefreshed(s, x))
  <1> DEFINE run == [s EXCEPT !.state = "RUNNING"]
             t == PollRefreshed(s, x)
  <1>1. \/ t = s
        \/ t = Settle(s, x) /\ s.state = "RUNNING"
        \/ t = LaunchByService(s, x) /\ s.state = "ARMED"
        \/ t = Settle(run, x) /\ s.state = "ARMED"
    BY DEF PollRefreshed
  <1>2. s.state = "ARMED" => Sound(run) /\ run.state = "RUNNING"
    BY DEF Sound, Typed, Service, States, Live
  <1>3. ClientsKept(s, run) /\ ClientsKept(s, s)
    BY DEF ClientsKept, Sound, Typed, Service
  <1> HIDE DEF run, t
  <1>4. CASE t = Settle(run, x) /\ s.state = "ARMED"
    <2>1. ClientsKept(run, Settle(run, x))
      BY <1>2, <1>4, SettleClients
    <2> QED
      BY <1>3, <1>4, <2>1 DEF ClientsKept, t
  <1> QED
    BY <1>1, <1>3, <1>4, SettleClients, LaunchByServiceClients DEF t

\* An abort.
LEMMA AbortJobClients ==
    ASSUME NEW s, Sound(s), NEW r, NEW id, NEW x \in Contexts
    PROVE  ClientsKept(s, AbortJob(s, r, id, x).s)
  <1> DEFINE t == AbortJob(s, r, id, x).s
  <1>1. t = s \/ t = StopAs(s, "ABORTED", "NONE", x)
    BY DEF AbortJob, Reject, Success
  <1>2. ClientsKept(s, s) /\ Typed(s)
    BY DEF ClientsKept, Sound
  <1> HIDE DEF t
  <1> QED
    BY <1>1, <1>2, StopAsClients DEF t

\* A local abort after its poll.
LEMMA AbortPolledClients ==
    ASSUME NEW s, Sound(s), NEW r, NEW x \in Contexts
    PROVE  ClientsKept(s, AbortPolled(s, r, x).s)
  <1> DEFINE a == AbortJob(s, r, s.job.id, x)
             t == AbortPolled(s, r, x).s
  <1>1. ClientsKept(s, a.s) /\ ClientsKept(s, s)
    BY AbortJobClients DEF ClientsKept
  <1>2. Typed(s) /\ (Sound(a.s) => Typed(a.s))
    BY DEF Sound
  <1>3. t = s \/ t = a.s \/ (t = DropOwner(a.s) /\ Sound(a.s)) \/ t = DropOwner(s)
    BY AbortPolledCases
  <1> HIDE DEF a, t
  <1> QED
    BY <1>1, <1>2, <1>3, DropOwnerClients DEF ClientsKept, t

\* What the operations do to a service; a job's and a lease's members aside.
LEMMA DispatchClients ==
    ASSUME NEW s, Sound(s), NEW r, WellFormed(r), NEW x \in Contexts
    PROVE  ClientsKept(s, Dispatch(s, r, x).s)
  <1> DEFINE d == Dispatch(s, r, x)
  <1>1. \/ d.s = s
        \/ d.s = DoClaim(s, r, x).s
        \/ d.s = DoRenew(s, r, x).s
        \/ d.s = DoRelease(s, r).s
        \/ r.op = "LOAD" /\ d.s = DoLoad(s, r, x).s
        \/ r.op = "ARM" /\ d.s = DoArm(s, r, x).s
        \/ d.s = AbortJob(s, r, r.body.job, x).s
    BY DispatchCases DEF Success, Reject
  <1>2. ClientsKept(s, s)
    BY DEF ClientsKept
  <1>3. ClientsKept(s, DoClaim(s, r, x).s) /\ ClientsKept(s, DoRenew(s, r, x).s)
    BY DEF DoClaim, DoRenew, Success, Reject, ClientsKept, Sound, Typed, Service
  <1>4. ClientsKept(s, DoRelease(s, r).s)
    <2>1. DoRelease(s, r).s = s \/ DoRelease(s, r).s = DropOwner(ClearJob(s))
      BY DEF DoRelease, Success, Reject
    <2>2. Typed(s) /\ Typed(ClearJob(s))
      BY ClearJobProps DEF Sound
    <2> QED
      BY <1>2, <2>1, <2>2, DropOwnerClients DEF ClientsKept
  <1>5. ASSUME r.op = "LOAD" PROVE ClientsKept(s, DoLoad(s, r, x).s)
    <2> DEFINE l == DoLoad(s, r, x)
    <2>1. Loaded(s, r, l)
      BY <1>5, LoadCases
    <2> HIDE DEF l
    <2>2. ASSUME NEW e, Admitted(s, r, e, l) PROVE ClientsKept(s, l.s)
      <3>1. l.s = [s EXCEPT !.eng = e] \/ l.s = [s EXCEPT !.eng = e, !.job = r.body.job,
                                                          !.arm = NoArm, !.state = "LOADED"]
        BY <2>2 DEF Admitted, Reject, Success
      <3> QED
        BY <3>1 DEF ClientsKept, Sound, Typed, Service
    <2>3. ClientsKept(s, TouchTerminal(s, r.body.job.id))
      BY TouchTerminalFrame DEF ClientsKept
    <2> QED
      BY <1>2, <2>1, <2>2, <2>3 DEF Loaded, Reject, Success, l
  <1>6. ASSUME r.op = "ARM" PROVE ClientsKept(s, DoArm(s, r, x).s)
    <2> DEFINE a == DoArm(s, r, x)
               refused == RefusedBy(s, r, x)
    <2>1. \/ a.s = s \/ a.s = TouchTerminal(s, r.body.job) \/ a.s = ScheduleJob(s, r, x).s
      BY DEF DoArm, Success, Reject
    <2>2. \/ ScheduleJob(s, r, x).s = ArmedBy(s, r, x)
          \/ ScheduleJob(s, r, x).s = ArmedIn(s, r, x)
          \/ ScheduleJob(s, r, x).s = StopAs(refused, "FAILED", "DEVICE_FAULT", x)
      BY ScheduleCases DEF Success, Reject
    <2>3. /\ ClientsKept(s, ArmedBy(s, r, x)) /\ ClientsKept(s, ArmedIn(s, r, x))
          /\ ClientsKept(s, refused) /\ ClientsKept(s, TouchTerminal(s, r.body.job))
      BY TouchTerminalFrame
      DEF ArmedBy, ArmedIn, RefusedBy, ClientsKept, Sound, Typed, Service
    <2>4. Typed(refused)
      BY <1>6, ArmTypes
    <2> HIDE DEF a, refused
    <2>5. ClientsKept(refused, StopAs(refused, "FAILED", "DEVICE_FAULT", x))
      BY <2>4, StopAsClients
    <2> QED
      BY <1>2, <2>1, <2>2, <2>3, <2>5 DEF ClientsKept, a
  <1>7. ClientsKept(s, AbortJob(s, r, r.body.job, x).s)
    BY AbortJobClients
  <1> HIDE DEF d
  <1> QED
    BY <1>1, <1>2, <1>3, <1>4, <1>5, <1>6, <1>7 DEF d

-------------------------------------------------------------------------------
(* The lists themselves. *)

\* Every entry of U is an entry of T, moved.
Moved(T, U) ==
    \A e \in U : \E q \in T : e.session = q.session /\ e.principal = q.principal /\ e.at = q.at

\* Closing the gaps of the cache only moves its entries.
LEMMA CompactMoved ==
    ASSUME NEW T \in SUBSET ReplayEntries
    PROVE  Moved(T, Compact(T))
  <1> SUFFICES ASSUME NEW e \in Compact(T)
               PROVE  \E q \in T : e.session = q.session /\ e.principal = q.principal /\ e.at = q.at
    BY DEF Moved
  <1>1. PICK q \in T : e = [q EXCEPT !.pos = Cardinality(Ahead(T, q))]
    BY DEF Compact
  <1>2. e.session = q.session /\ e.principal = q.principal /\ e.at = q.at
    BY <1>1 DEF ReplayEntries
  <1> QED
    BY <1>2

\* So does putting one of them in front.
LEMMA PushFrontMoved ==
    ASSUME NEW T \in SUBSET ReplayEntries, NEW r \in ReplayEntries
    PROVE  Moved(T \cup {r}, PushFront(T, r))
  <1> SUFFICES ASSUME NEW e \in PushFront(T, r)
               PROVE  \E q \in T \cup {r} :
                        e.session = q.session /\ e.principal = q.principal /\ e.at = q.at
    BY DEF Moved
  <1>1. e = [r EXCEPT !.pos = 0] \/ \E q \in T : e = [q EXCEPT !.pos = @ + 1]
    BY DEF PushFront
  <1>2. CASE e = [r EXCEPT !.pos = 0]
    BY <1>2 DEF ReplayEntries
  <1>3. CASE \E q \in T : e = [q EXCEPT !.pos = @ + 1]
    <2>1. PICK q \in T : e = [q EXCEPT !.pos = @ + 1]
      BY <1>3
    <2>2. e.session = q.session /\ e.principal = q.principal /\ e.at = q.at
      BY <2>1 DEF ReplayEntries
    <2> QED
      BY <2>2
  <1> QED
    BY <1>1, <1>2, <1>3

\* Moves compose.
LEMMA MovedTransitive ==
    ASSUME NEW T, NEW U, NEW V, Moved(T, U), Moved(U, V)
    PROVE  Moved(T, V)
  BY DEF Moved

\* Entries that are moved keep their sessions.
LEMMA MovedBound ==
    ASSUME NEW s, Sound(s), NEW time, Bound(s, time), NEW T, Moved(s.replay, T)
    PROVE  Bound([s EXCEPT !.replay = T], time)
  <1> DEFINE t == [s EXCEPT !.replay = T]
  <1>1. t.sessions = s.sessions /\ t.owner = s.owner /\ t.replay = T
    BY DEF Sound, Typed, Service
  <1> HIDE DEF t
  <1> QED
    BY <1>1 DEF Bound, Moved, t

\* An entry of a session that has been seen now.
LEMMA EntryBound ==
    ASSUME NEW s, Sound(s), NEW time, Bound(s, time), NEW e \in ReplayEntries, e.at = time,
           \E n \in s.sessions : n.id = e.session /\ n.principal = e.principal /\ n.seen = time,
           NEW T, Moved(s.replay \cup {e}, T)
    PROVE  Bound([s EXCEPT !.replay = T], time)
  <1> DEFINE t == [s EXCEPT !.replay = T]
  <1>1. t.sessions = s.sessions /\ t.owner = s.owner /\ t.replay = T
    BY DEF Sound, Typed, Service
  <1>2. time \in Nat
    BY DEF ReplayEntries
  <1> HIDE DEF t
  <1>3. ASSUME NEW f \in T
        PROVE  \E n \in s.sessions : n.id = f.session /\ n.principal = f.principal /\ f.at <= n.seen
    <2>1. PICK q \in s.replay \cup {e} :
            f.session = q.session /\ f.principal = q.principal /\ f.at = q.at
      BY DEF Moved
    <2>2. CASE q \in s.replay
      BY <2>1, <2>2 DEF Bound
    <2>3. CASE q = e
      BY <1>2, <2>1, <2>3
    <2> QED
      BY <2>2, <2>3
  <1> QED
    BY <1>1, <1>3 DEF Bound, t

\* Pruning replies before sessions, at one time, leaves no reply behind.
LEMMA PruneBound ==
    ASSUME NEW s, Sound(s), NEW x \in Contexts, Bound(s, x.now)
    PROVE  LET b == PruneReplay(s, x)
               c == PruneTerminals(b, x) IN
           Bound(PruneSessions(c, x), x.now)
  <1> DEFINE live == {r \in s.replay : x.now - r.at < ReplayTtl}
             b == PruneReplay(s, x)
             c == PruneTerminals(b, x)
             d == PruneSessions(c, x)
  <1>0. x.now \in Nat /\ ReplayTtl \in Nat
    BY JobServiceAssumption DEF Contexts
  <1>1. live \in SUBSET ReplayEntries /\ live \subseteq s.replay
    BY DEF Sound, Typed, Service
  <1>2. b.sessions = s.sessions /\ b.replay = Compact(live) /\ b.owner = s.owner
    BY DEF PruneReplay, Sound, Typed, Service
  <1>3. Sound(b)
    BY PruneReplayKeeps DEF Keeps
  <1>4. \A e \in b.replay : \E q \in s.replay :
          /\ e.session = q.session /\ e.principal = q.principal /\ e.at = q.at
          /\ x.now - q.at < ReplayTtl
    BY <1>1, <1>2, CompactMoved DEF Moved
  <1> HIDE DEF b, live
  <1>5. Sound(c) /\ c.sessions = b.sessions /\ c.replay = b.replay /\ c.owner = b.owner
    <2>1. Sound(c)
      BY <1>3, PruneTerminalsKeeps DEF Keeps
    <2>2. PICK T, R :
            LET q == [b EXCEPT !.terminals = T, !.retained = R] IN c = q \/ c = ClearJob(q)
      BY DEF PruneTerminals
    <2>3. /\ c.sessions = b.sessions /\ c.replay = b.replay /\ c.owner = b.owner
      <3> DEFINE q == [b EXCEPT !.terminals = T, !.retained = R]
      <3>1. b \in Service
        BY <1>3 DEF Sound, Typed
      <3>2. q.sessions = b.sessions /\ q.replay = b.replay /\ q.owner = b.owner
        BY <3>1 DEF Service
      <3>3. /\ ClearJob(q).sessions = b.sessions /\ ClearJob(q).replay = b.replay
            /\ ClearJob(q).owner = b.owner
        BY <3>1 DEF ClearJob, Service
      <3>4. c = q \/ c = ClearJob(q)
        BY <2>2
      <3> HIDE DEF q, c
      <3> QED
        BY <3>2, <3>3, <3>4
    <2> QED
      BY <2>1, <2>3
  <1> HIDE DEF c
  <1>6. /\ d.sessions = {n \in s.sessions : \/ s.owner # NoOwner /\ s.owner.session = n.id
                                            \/ x.now - n.seen < ReplayTtl}
        /\ d.replay = c.replay /\ d.owner = s.owner
    BY <1>2, <1>5 DEF PruneSessions, Sound, Typed, Service
  <1> HIDE DEF d
  <1>7. \A n \in s.sessions : n.seen \in Nat
    BY DEF Sound, Typed, Service, Sessions
  <1>8. \A q \in s.replay : q.at \in Nat
    BY DEF Sound, Typed, Service, ReplayEntries
  <1>9. ASSUME NEW e \in d.replay
        PROVE  \E n \in d.sessions : n.id = e.session /\ n.principal = e.principal /\ e.at <= n.seen
    <2>1. PICK q \in s.replay :
            /\ e.session = q.session /\ e.principal = q.principal /\ e.at = q.at
            /\ x.now - q.at < ReplayTtl
      BY <1>4, <1>5, <1>6
    <2>2. PICK n \in s.sessions : n.id = q.session /\ n.principal = q.principal /\ q.at <= n.seen
      BY DEF Bound
    <2>3. x.now - n.seen < ReplayTtl
      BY <1>0, <1>7, <1>8, <2>1, <2>2
    <2> QED
      BY <1>6, <2>1, <2>2, <2>3
  <1>10. d.owner # NoOwner =>
           \E n \in d.sessions : n.id = d.owner.session /\ n.principal = d.owner.principal
    BY <1>6 DEF Bound
  <1>11. /\ \A m, n \in d.sessions : m.id = n.id => m = n
         /\ \A n \in d.sessions : n.seen <= x.now
    BY <1>6 DEF Bound
  <1> QED
    BY <1>9, <1>10, <1>11 DEF Bound, d, c, b

\* The prologue keeps the bindings.
LEMMA RefreshBound ==
    ASSUME NEW s, Sound(s), Halted(s), NEW x \in Contexts, Bound(s, x.now)
    PROVE  Bound(Refresh(s, x), x.now)
  <1> DEFINE a == ExpireResources(s, x)
  <1>1. Sound(a) /\ OwnerLeft(s, a) /\ ClientsKept(s, a)
    BY ExpireResourcesKeeps, ExpireResourcesSteady, SteadyOwnerLeft, ExpireResourcesClients DEF Keeps
  <1>2. Refresh(s, x) = PruneSessions(PruneTerminals(PruneReplay(a, x), x), x)
    BY DEF Refresh
  <1> HIDE DEF a
  <1>3. Bound(a, x.now)
    BY <1>1, FrameBound
  <1> QED
    BY <1>1, <1>2, <1>3, PruneBound

-------------------------------------------------------------------------------
(* Requests. *)

\* The sender of r has a session that has been seen at the time.
Seen(s, r, time) ==
    \E n \in s.sessions : n.id = r.session /\ n.principal = r.principal /\ n.seen = time

\* A request sees its session, which belongs to its principal if there is one.
LEMMA SeeSessionBound ==
    ASSUME NEW s, Sound(s), NEW r, NEW x \in Contexts, Bound(s, x.now),
           \A n \in SessionOf(s, r.session) : n.principal = r.principal
    PROVE  LET t == SeeSession(s, r, x) IN
           Bound(t, x.now) /\ Seen(t, r, x.now)
  <1> DEFINE m == [id |-> r.session, principal |-> r.principal, seen |-> x.now]
             t == SeeSession(s, r, x)
  <1>0. x.now \in Nat /\ m.id = r.session /\ m.principal = r.principal /\ m.seen = x.now
    BY DEF Contexts
  <1>1. t = [s EXCEPT !.sessions = (@ \ SessionOf(s, r.session)) \cup {m}]
    BY DEF SeeSession
  <1> HIDE DEF m
  <1>2. /\ t.sessions = {n \in s.sessions : n.id # r.session} \cup {m}
        /\ t.replay = s.replay /\ t.owner = s.owner
    BY <1>1 DEF SessionOf, Sound, Typed, Service
  <1> HIDE DEF t
  <1>3. Seen(t, r, x.now)
    BY <1>0, <1>2 DEF Seen
  <1>4. ASSUME NEW n \in s.sessions
        PROVE  \E k \in t.sessions : k.id = n.id /\ k.principal = n.principal /\ n.seen <= k.seen
    <2>1. CASE n.id # r.session
      <3>1. n \in t.sessions /\ n.seen \in Nat
        BY <1>2, <2>1 DEF Sound, Typed, Service, Sessions
      <3> QED
        BY <3>1
    <2>2. CASE n.id = r.session
      <3>1. n.principal = r.principal /\ n.seen <= x.now
        BY <2>2 DEF SessionOf, Bound
      <3> QED
        BY <1>0, <1>2, <2>2, <3>1
    <2> QED
      BY <2>1, <2>2
  <1>5. /\ \A j, k \in t.sessions : j.id = k.id => j = k
        /\ \A k \in t.sessions : k.seen <= x.now
    BY <1>0, <1>2 DEF Bound
  <1>6. t.owner # NoOwner =>
          \E k \in t.sessions : k.id = t.owner.session /\ k.principal = t.owner.principal
    BY <1>2, <1>4 DEF Bound
  <1>7. ASSUME NEW e \in t.replay
        PROVE  \E k \in t.sessions : k.id = e.session /\ k.principal = e.principal /\ e.at <= k.seen
    <2>1. PICK n \in s.sessions : n.id = e.session /\ n.principal = e.principal /\ e.at <= n.seen
      BY <1>2 DEF Bound
    <2>2. PICK k \in t.sessions : k.id = n.id /\ k.principal = n.principal /\ n.seen <= k.seen
      BY <1>4
    <2>3. e.at \in Nat /\ n.seen \in Nat /\ k.seen \in Nat
      BY <1>0, <1>2 DEF Sound, Typed, Service, Sessions, ReplayEntries
    <2> QED
      BY <2>1, <2>2, <2>3
  <1> QED
    BY <1>3, <1>5, <1>6, <1>7 DEF Bound, t

\* An operation makes at most the sender owner.
LEMMA DispatchBound ==
    ASSUME NEW s, Sound(s), Halted(s), NEW r, WellFormed(r), NEW x \in Contexts,
           Bound(s, x.now), Seen(s, r, x.now)
    PROVE  LET t == Dispatch(s, r, x).s IN
           Bound(t, x.now) /\ Seen(t, r, x.now)
  <1> DEFINE t == Dispatch(s, r, x).s
  <1>1. ClientsKept(s, t) /\ OwnerFrom(s, t, r)
    BY DispatchClients, DispatchGranted DEF Granted
  <1> HIDE DEF t
  <1> QED
    BY <1>1 DEF Bound, Seen, ClientsKept, OwnerFrom, t

\* remember adds a reply to a session that has just been seen.
LEMMA RememberBound ==
    ASSUME NEW s, Sound(s), NEW r, WellFormed(r), r.id # NoRequestId, NEW reply \in Replies,
           NEW x \in Contexts, Bound(s, x.now), Seen(s, r, x.now)
    PROVE  Bound(Remember(s, r, reply, x), x.now)
  <1> DEFINE entry == [session |-> r.session, principal |-> r.principal, id |-> r.id, op |-> r.op,
                       body |-> r.body, reply |-> reply, at |-> x.now, pos |-> 0]
  <1>1. /\ entry \in ReplayEntries /\ entry.session = r.session /\ entry.principal = r.principal
        /\ entry.at = x.now
    BY DEF WellFormed, ReplayEntries, Contexts, Replies
  <1>2. \E K \in SUBSET s.replay :
          Remember(s, r, reply, x) = [s EXCEPT !.replay = PushFront(Compact(K), entry)]
    <2> DEFINE mine == {e \in s.replay : e.session = r.session}
               oldest == CHOOSE e \in mine : \A f \in mine : f.pos <= e.pos
               K == IF Cardinality(mine) >= ReplayCap THEN s.replay \ {oldest} ELSE s.replay
    <2>1. Remember(s, r, reply, x) = [s EXCEPT !.replay = PushFront(Compact(K), entry)]
      BY DEF Remember
    <2> HIDE DEF mine, oldest, entry
    <2>2. K \in SUBSET s.replay
      OBVIOUS
    <2> QED
      BY <2>1, <2>2 DEF entry
  <1>3. PICK K \in SUBSET s.replay :
          Remember(s, r, reply, x) = [s EXCEPT !.replay = PushFront(Compact(K), entry)]
    BY <1>2
  <1> DEFINE T == Compact(K)
             U == PushFront(T, entry)
  <1>4. K \in SUBSET ReplayEntries
    BY DEF Sound, Typed, Service
  <1>5. T \in SUBSET ReplayEntries /\ Moved(K, T)
    <2>1. IsFiniteSet(K)
      BY FS_Subset DEF Sound, Typed
    <2> QED
      BY <1>1, <1>4, <2>1, ReplayType, CompactMoved
  <1>6. Remember(s, r, reply, x) = [s EXCEPT !.replay = U]
    BY <1>3
  <1> HIDE DEF entry, T
  <1>7. Moved(T \cup {entry}, U)
    BY <1>1, <1>5, PushFrontMoved
  <1> HIDE DEF U
  <1>8. Moved(s.replay \cup {entry}, U)
    BY <1>5, <1>7 DEF Moved
  <1>9. \E n \in s.sessions :
          n.id = entry.session /\ n.principal = entry.principal /\ n.seen = x.now
    BY <1>1 DEF Seen
  <1> QED
    BY <1>1, <1>6, <1>8, <1>9, EntryBound

\* A replay moves an entry, a dispatch may add one.
LEMMA ServeBound ==
    ASSUME NEW s, Sound(s), Halted(s), NEW r, WellFormed(r), NEW x \in Contexts,
           Bound(s, x.now), Seen(s, r, x.now)
    PROVE  Bound(Serve(s, r, x).s, x.now)
  <1> DEFINE done == Dispatch(s, r, x)
             d == Serve(s, r, x)
  <1>1. \/ d = done
        \/ d = Reject(s, r, "REQUEST_ID_REUSE")
        \/ \E hit \in Cached(s, r) :
             d = [s |-> [s EXCEPT !.replay = ToFront(@, hit)], reply |-> hit.reply]
        \/ /\ d = [s |-> Remember(done.s, r, done.reply, x), reply |-> done.reply]
           /\ r.id # NoRequestId
    BY ServeCases
  <1>2. /\ Sound(done.s) /\ done.reply \in Replies
        /\ Bound(done.s, x.now) /\ Seen(done.s, r, x.now)
    BY DispatchBound, DispatchObeys DEF Obeys
  <1> HIDE DEF done, d
  <1>3. ASSUME NEW hit \in Cached(s, r),
               d = [s |-> [s EXCEPT !.replay = ToFront(@, hit)], reply |-> hit.reply]
        PROVE  Bound(d.s, x.now)
    <2> DEFINE others == s.replay \ {hit}
               pushed == PushFront(others, hit)
               T == ToFront(s.replay, hit)
    <2>1. /\ hit \in ReplayEntries /\ hit \in s.replay /\ others \in SUBSET ReplayEntries
          /\ IsFiniteSet(others)
      BY FS_Subset DEF Cached, Sound, Typed, Service
    <2>2. others \cup {hit} = s.replay
      BY <2>1
    <2> HIDE DEF others
    <2>3. pushed \in SUBSET ReplayEntries /\ Moved(s.replay, pushed)
      BY <2>1, <2>2, ReplayType, PushFrontMoved
    <2> HIDE DEF pushed
    <2>4. T = Compact(pushed)
      BY DEF ToFront, pushed, others
    <2>5. Moved(s.replay, T)
      BY <2>3, <2>4, CompactMoved, MovedTransitive
    <2>6. d.s = [s EXCEPT !.replay = T]
      BY <1>3
    <2> HIDE DEF T
    <2> QED
      BY <2>5, <2>6, MovedBound
  <1>4. CASE d = [s |-> Remember(done.s, r, done.reply, x), reply |-> done.reply]
             /\ r.id # NoRequestId
    <2>1. d.s = Remember(done.s, r, done.reply, x)
      BY <1>4
    <2>2. Bound(Remember(done.s, r, done.reply, x), x.now)
      BY <1>2, <1>4, RememberBound
    <2>3. Bound(d.s, x.now)
      BY <2>1, <2>2
    <2> QED
      BY <2>3 DEF d
  <1>5. d = Reject(s, r, "REQUEST_ID_REUSE") => d.s = s
    BY DEF Reject
  <1> QED
    BY <1>1, <1>2, <1>3, <1>4, <1>5 DEF d

\* A request, from its prologue to its reply.
LEMMA HandleOwnedBound ==
    ASSUME NEW s0, Sound(s0), Halted(s0), NEW r, WellFormed(r), NEW x \in Contexts,
           Bound(s0, x.now)
    PROVE  Bound(HandleOwned(s0, r, x).s, x.now)
  <1> DEFINE s == Refresh(s0, x)
             seen == SeeSession(s, r, x)
             d == HandleOwned(s0, r, x)
  <1>1. /\ Sound(s) /\ Sound(seen)
        /\ \/ \E err : d = Reject(s, r, err)
           \/ /\ d = Serve(seen, r, x)
              /\ \A n \in SessionOf(s, r.session) : n.principal = r.principal
    BY HandleCases
  <1>2. Halted(s) /\ Bound(s, x.now)
    BY RefreshSteady, RefreshBound
  <1> HIDE DEF s, d
  <1>3. Halted(seen)
    <2>1. seen.state = s.state /\ seen.eng = s.eng
      BY <1>1 DEF SeeSession, Sound, Typed, Service
    <2> QED
      BY <1>2, <2>1 DEF Halted
  <1>4. CASE \E err : d = Reject(s, r, err)
    BY <1>2, <1>4 DEF Reject, d
  <1>5. CASE /\ d = Serve(seen, r, x)
             /\ \A n \in SessionOf(s, r.session) : n.principal = r.principal
    <2>1. Bound(seen, x.now) /\ Seen(seen, r, x.now)
      BY <1>1, <1>2, <1>5, SeeSessionBound
    <2> HIDE DEF seen
    <2> QED
      BY <1>1, <1>3, <1>5, <2>1, ServeBound DEF d
  <1> QED
    BY <1>1, <1>4, <1>5

-------------------------------------------------------------------------------
(* The other steps, and the theorem. *)

\* poll() forgets sessions only when nothing refers to them any more.
LEMMA PollServiceBound ==
    ASSUME NEW s, Sound(s), Halted(s), NEW x \in Contexts, Bound(s, x.now)
    PROVE  Bound(PollService(s, x), x.now)
  <1> DEFINE p == Refresh(s, x)
             t == PollService(s, x)
  <1>1. Sound(p) /\ Halted(p) /\ Bound(p, x.now)
    BY RefreshSteady, RefreshBound
  <1>2. t = PollRefreshed(p, x)
    BY DEF PollService
  <1> HIDE DEF p
  <1>3. ClientsKept(p, t)
    BY <1>1, <1>2, PollRefreshedClients
  <1>4. OwnerLeft(p, t)
    BY <1>1, <1>2, PollRefreshedSteady, SteadyOwnerLeft
  <1> QED
    BY <1>1, <1>3, <1>4, FrameBound

\* A local abort after its poll keeps sessions and cached replies.
LEMMA AbortPolledBound ==
    ASSUME NEW s, Sound(s), Halted(s), NEW r, NEW x \in Contexts, Bound(s, x.now)
    PROVE  Bound(AbortPolled(s, r, x).s, x.now)
  <1> DEFINE a == AbortJob(s, r, s.job.id, x)
             t == AbortPolled(s, r, x).s
  <1>1. OwnerLeft(s, a.s)
    BY AbortJobSteady, SteadyOwnerLeft
  <1>2. Typed(s) /\ (Sound(a.s) => Typed(a.s))
    BY DEF Sound
  <1>3. t = s \/ t = a.s \/ (t = DropOwner(a.s) /\ Sound(a.s)) \/ t = DropOwner(s)
    BY AbortPolledCases
  <1>4. ClientsKept(s, t)
    BY AbortPolledClients
  <1> HIDE DEF a, t
  <1>5. OwnerLeft(s, t)
    BY <1>1, <1>2, <1>3, DropOwnerProps DEF OwnerLeft
  <1> QED
    BY <1>4, <1>5, FrameBound DEF t

\* So does the interlock.
LEMMA LocalInhibitBound ==
    ASSUME NEW s, Sound(s), Halted(s), NEW r, NEW x \in Contexts, NEW off2 \in BOOLEAN,
           Bound(s, x.now)
    PROVE  Bound(LocalInhibitOf(s, r, x, off2).s, x.now)
  <1> DEFINE l == Latched(s)
             p == PollService(l, x)
             a == AbortPolled(p, r, x).s
             t == LocalInhibitOf(s, r, x, off2).s
  <1>1. Sound(p) /\ Sound(a) /\ t = [a EXCEPT !.eng = Disable(@, off2)]
    BY LocalInhibitCases
  <1>2. /\ Sound(l) /\ l.owner = s.owner /\ l.state = s.state /\ l.eng.st = s.eng.st
        /\ l.sessions = s.sessions /\ l.replay = s.replay
    BY LatchedSound, InhibitOutputType DEF Sound, Typed, Service
  <1> HIDE DEF l
  <1>3. Halted(l) /\ Bound(l, x.now)
    BY <1>2, FrameBound DEF Halted, ClientsKept, OwnerLeft
  <1>4. Halted(p) /\ Bound(p, x.now)
    BY <1>2, <1>3, PollServiceSteady, PollServiceBound
  <1> HIDE DEF p
  <1>5. Bound(a, x.now)
    BY <1>1, <1>4, AbortPolledBound
  <1> HIDE DEF a
  <1>6. t.owner = a.owner /\ t.sessions = a.sessions /\ t.replay = a.replay
    BY <1>1 DEF Sound, Typed, Service
  <1> QED
    BY <1>5, <1>6, FrameBound DEF ClientsKept, OwnerLeft

\* Bound, of the service now.
BoundNow == Bound(svc, now)

\* Every step keeps the bindings: one case for each action.
LEMMA NextBound == IInv /\ StepInv /\ BoundNow /\ [Next]_vars => BoundNow'
  <1> SUFFICES ASSUME IInv, StepInv, Bound(svc, now), [Next]_vars PROVE Bound(svc', now')
    BY DEF BoundNow
  <1>0. Sound(svc) /\ Halted(svc)
    BY DEF IInv, StepInv
  <1>1. CASE Requests
    <2>1. PICK r : \E from \in Senders, x \in Contexts : Serves(from, r, x)
      BY <1>1, RequestsCases DEF IInv
    <2> QED
      BY <1>0, <2>1, HandleOwnedBound DEF Serves
  <1>2. CASE Poll
    <2>1. PICK x \in PollContexts : svc' = PollService(svc, x) /\ now' = now
      BY <1>2 DEF Poll
    <2> QED
      BY <1>0, <2>1, PollContextType, PollServiceBound
  <1>3. CASE LocalAbort
    <2>1. PICK x \in PollContexts : svc' = LocalAbortOf(svc, [op |-> "LOCAL_ABORT"], x).s
      BY <1>3 DEF LocalAbort
    <2>2. svc' = AbortPolled(PollService(svc, x), [op |-> "LOCAL_ABORT"], x).s
      BY <2>1 DEF LocalAbortOf
    <2>3. x \in Contexts /\ x.now = now /\ now' = now
      BY <1>3, <2>1, PollContextType DEF LocalAbort
    <2>4. /\ Sound(PollService(svc, x)) /\ Halted(PollService(svc, x))
          /\ Bound(PollService(svc, x), now)
      BY <1>0, <2>3, PollServiceSteady, PollServiceBound
    <2> QED
      BY <2>2, <2>3, <2>4, AbortPolledBound
  <1>4. CASE LocalInhibit
    <2>1. PICK x \in PollContexts, off2 \in BOOLEAN :
            svc' = LocalInhibitOf(svc, [op |-> "INHIBIT"], x, off2).s
      BY <1>4 DEF LocalInhibit
    <2>2. x \in Contexts /\ x.now = now /\ now' = now
      BY <1>4, <2>1, PollContextType DEF LocalInhibit
    <2> QED
      BY <1>0, <2>1, <2>2, LocalInhibitBound
  <1>5. CASE Upkeep \/ FreezePair \/ Engine1
    BY <1>5, UpkeepCases, FrameBound DEF ClientsKept, OwnerLeft
  <1>6. CASE Reset
    <2>1. PICK off \in BOOLEAN, fresh \in BOOLEAN : svc' = ResetOf(svc, off, fresh)
      BY <1>6 DEF Reset
    <2>2. svc'.sessions = {} /\ svc'.replay = {} /\ svc'.owner = NoOwner
      BY <2>1 DEF ResetOf, Boot
    <2> QED
      BY <2>2 DEF Bound
  <1>7. CASE Tick
    <2>1. svc' = svc /\ now' = now + 1 /\ now \in Nat
      BY <1>7 DEF Tick, IInv
    <2>2. \A n \in svc.sessions : n.seen \in Nat
      BY <1>0 DEF Sound, Typed, Service, Sessions
    <2>3. \A n \in svc.sessions : n.seen <= now + 1
      BY <2>1, <2>2 DEF Bound
    <2> QED
      BY <2>1, <2>3 DEF Bound
  <1>8. CASE SaveCorrection \/ UNCHANGED vars
    BY <1>8 DEF SaveCorrection, vars
  <1> QED
    BY <1>1, <1>2, <1>3, <1>4, <1>5, <1>6, <1>7, <1>8 DEF Next

\* A session that owns the transmitter or has cached replies stays, bound to
\* one principal (handle_owned and prune_sessions, job_service.cpp:148, 1125).
THEOREM SessionsBound == Spec => []SessionBound
  <1>1. Init => BoundNow
    <2> SUFFICES ASSUME Init PROVE BoundNow
      OBVIOUS
    <2>1. PICK off \in BOOLEAN, verify \in BOOLEAN : svc = Boot(EngineInit, off, verify)
      BY DEF Init
    <2>2. svc.sessions = {} /\ svc.replay = {} /\ svc.owner = NoOwner
      BY <2>1, BlankService
    <2> QED
      BY <2>2 DEF BoundNow, Bound
  <1>2. BoundNow => SessionBound
    BY DEF BoundNow, Bound, SessionBound
  <1> QED
    BY <1>1, <1>2, NextBound, Soundness, StepsKept, PTL DEF Spec

-------------------------------------------------------------------------------
(***************************************************************************)
(* The armed second. A job is launched inside the UTC second that it was   *)
(* armed for, mapped to monotonic time when it was armed, for every set of *)
(* clocks: the service checks its own launches (poll), and an engine that  *)
(* schedules locally holds to the deadline it was given, however its clock *)
(* is steered between the two.                                             *)
(*                                                                         *)
(* What has to hold before the launch is that every start the engine may   *)
(* still make ends before the window does (Within). The service copies the *)
(* engine's launch into the arm record at a later poll, so the record and  *)
(* the engine are bounded separately (Timely).                             *)
(***************************************************************************)

\* The end of the armed second, in the time it was mapped to.
Limit(arm) == arm.start + StartWindow(arm.startUtc)

\* The engine e has launched before l, and launches before l if it still may.
Within(e, l) ==
    /\ e.launch # NoTime => e.launch < l
    /\ e.st = "armed" => IF e.cond = NoCond THEN e.start < l ELSE e.cond.deadline <= l

\* The launch on record is in time, and so is the engine's of a job that the
\* engine starts or has been asked to start.
Timely(s) ==
    s.state \in Executing =>
        /\ s.arm.launch # NoTime => s.arm.launch < Limit(s.arm)
        /\ s.state = "RUNNING" \/ s.arm.local => Within(s.eng, Limit(s.arm))

\* Nothing to launch.
LEMMA EndedTimely ==
    ASSUME NEW s, s.state \notin Executing
    PROVE  Timely(s)
  BY DEF Timely

\* A method that leaves an execution alone.
LEMMA RunKeptTimely ==
    ASSUME NEW s, NEW t, Timely(s), RunKept(s, t)
    PROVE  Timely(t)
  <1>1. CASE t.state \notin Executing
    BY <1>1, EndedTimely
  <1>2. CASE t.state \in Executing
    BY <1>2 DEF RunKept, SameStart, Timely, Within
  <1> QED
    BY <1>1, <1>2

\* The window ends at a time, and a job that executes has a record of it.
LEMMA LimitType ==
    /\ \A arm \in Arms : Limit(arm) \in Int
    /\ \A s : Sound(s) /\ s.state \in Executing => s.arm \in Arms /\ s.eng \in Engine
  <1>1. ASSUME NEW arm \in Arms PROVE Limit(arm) \in Int
    <2>1. StartWindow(arm.startUtc) \in Int /\ arm.start \in Int
      BY ArmPolicyAssumption DEF StartWindow, Arms
    <2> QED
      BY <2>1 DEF Limit
  <1>2. ASSUME NEW s, Sound(s), s.state \in Executing PROVE s.arm \in Arms /\ s.eng \in Engine
    BY <1>2 DEF Sound, Typed, Service, Executing, Live
  <1> QED
    BY <1>1, <1>2

\* The engine's report puts its launch on record, or ends the job.
LEMMA SettleTimely ==
    ASSUME NEW s0, Sound(s0), s0.state = "RUNNING", Timely(s0), NEW x \in Contexts
    PROVE  Timely(Settle(s0, x))
  <1> DEFINE armed == [s0.arm EXCEPT !.launch = s0.eng.launch]
             s == IF s0.eng.launch = NoTime THEN s0 ELSE [s0 EXCEPT !.arm = armed]
             t == Settle(s0, x)
  <1>1. \/ t = s
        \/ t = StopAs(s, "MISSED", "MISSED_START", x)
        \/ t = StopAs(s, "FAILED", "DEVICE_FAULT", x)
        \/ t = StopAs(s, "COMPLETE", "NONE", x)
    BY DEF Settle
  <1>2. /\ s0.eng \in Engine /\ s0.arm \in Arms /\ Typed(s0) /\ s0.job \in Jobs
        /\ s0.eng.launch \in Nat \cup {NoTime} /\ s0 \in Service
    BY DEF Sound, Typed, Service, Engine, Live
  <1>3. /\ armed \in Arms /\ armed.launch = s0.eng.launch /\ Limit(armed) = Limit(s0.arm)
    BY <1>2 DEF Arms, Limit
  <1> HIDE DEF armed
  <1>4. /\ Typed(s) /\ s.state = "RUNNING" /\ s.job = s0.job /\ s.eng = s0.eng
        /\ s.arm = IF s0.eng.launch = NoTime THEN s0.arm ELSE armed
    BY <1>2, <1>3 DEF Typed, Service
  <1> HIDE DEF s, t
  <1>5. Timely(s)
    BY <1>2, <1>3, <1>4 DEF Timely, Executing, Within
  <1>6. ASSUME NEW st \in {"MISSED", "FAILED", "COMPLETE"}, NEW err \in ErrorCodes,
               t = StopAs(s, st, err, x)
        PROVE  Timely(t)
    BY <1>2, <1>4, <1>6, EndCodes, StopAsSteady, EndedTimely DEF Live
  <1> QED
    BY <1>1, <1>5, <1>6, EndCodes DEF t

\* A start accepted by the engine is armed with the conditions given.
LEMMA BegunStart ==
    ASSUME NEW e \in Engine, NEW j, NEW start \in Int, NEW cond \in Conditions \cup {NoCond},
           NEW outcome, Begin(e, j, start, cond, outcome).ok
    PROVE  LET f == Begin(e, j, start, cond, outcome).eng IN
           f.st = "armed" /\ f.launch = NoTime /\ f.cond = cond /\ f.start = start
  <1> DEFINE early == outcome = "early"
             phase == IF early THEN "lead" ELSE "none"
             g == [e EXCEPT !.st = "armed", !.start = start, !.cond = cond, !.launch = NoTime,
                            !.tailEnd = NoTime, !.out = early, !.phase = phase]
             b == Begin(e, j, start, cond, outcome)
  <1>1. \/ b.ok = FALSE
        \/ b = [eng |-> g, ok |-> TRUE]
    BY DEF Begin
  <1> HIDE DEF early, phase
  <1>2. g.st = "armed" /\ g.launch = NoTime /\ g.cond = cond /\ g.start = start
    BY DEF Engine
  <1> HIDE DEF g, b
  <1> QED
    BY <1>1, <1>2 DEF b

\* A launch by the service is made inside the window, or the start is missed.
LEMMA LaunchByServiceTimely ==
    ASSUME NEW s, Sound(s), s.state = "ARMED", Timely(s), NEW x \in Contexts
    PROVE  Timely(LaunchByService(s, x))
  <1> DEFINE begun == Begin(s.eng, s.job, x.now, NoCond, x.start)
             tried == [s EXCEPT !.eng = begun.eng]
             run   == [s EXCEPT !.eng = begun.eng, !.arm.launch = x.now, !.state = "RUNNING"]
             t     == LaunchByService(s, x)
  <1>1. /\ Typed(tried) /\ tried.state = "ARMED" /\ tried.job = s.job
        /\ Sound(run) /\ run.state = "RUNNING"
    BY LaunchCases
  <1>2. \/ t = s
        \/ t = StopAs(s, "MISSED", "MISSED_START", x)
        \/ t = StopAs(tried, "FAILED", "DEVICE_FAULT", x)
        \/ t = Settle(run, x) /\ begun.ok /\ ~TooLate(s, x)
    BY DEF LaunchByService
  <1>3. /\ Typed(s) /\ s.job \in Jobs /\ s.arm \in Arms /\ s.eng \in Engine /\ x.now \in Nat
        /\ s \in Service
    BY DEF Sound, Typed, Service, Live, Contexts
  <1>4. run.eng = begun.eng /\ run.arm = [s.arm EXCEPT !.launch = x.now]
    BY <1>3 DEF Service
  <1>5. begun.ok => /\ begun.eng.st = "armed" /\ begun.eng.launch = NoTime
                    /\ begun.eng.cond = NoCond /\ begun.eng.start = x.now
    BY <1>3, BegunStart
  <1>6. ~TooLate(s, x) => x.now < Limit(s.arm)
    <2>1. StartWindow(s.arm.startUtc) \in Int /\ s.arm.start \in Int
      BY <1>3, ArmPolicyAssumption DEF StartWindow, Arms
    <2> QED
      BY <1>3, <2>1 DEF TooLate, Limit
  <1>7. /\ Limit([s.arm EXCEPT !.launch = x.now]) = Limit(s.arm)
        /\ [s.arm EXCEPT !.launch = x.now].launch = x.now
    BY <1>3 DEF Limit, Arms
  <1> HIDE DEF begun, tried, run, t
  <1>8. CASE t = s
    BY <1>8 DEF t
  <1>9. CASE t = StopAs(s, "MISSED", "MISSED_START", x)
    <2>1. t.state \notin Executing
      BY <1>3, <1>9, EndCodes, StopAsSteady DEF Live
    <2> QED
      BY <2>1, EndedTimely DEF t
  <1>10. CASE t = StopAs(tried, "FAILED", "DEVICE_FAULT", x)
    <2>1. t.state \notin Executing
      BY <1>1, <1>3, <1>10, EndCodes, StopAsSteady DEF Live
    <2> QED
      BY <2>1, EndedTimely DEF t
  <1>11. CASE t = Settle(run, x) /\ begun.ok /\ ~TooLate(s, x)
    <2>1. Timely(run)
      BY <1>1, <1>4, <1>5, <1>6, <1>7, <1>11 DEF Timely, Within
    <2> QED
      BY <1>1, <1>11, <2>1, SettleTimely DEF t
  <1> QED
    BY <1>2, <1>8, <1>9, <1>10, <1>11

\* poll as a whole.
LEMMA PollServiceTimely ==
    ASSUME NEW s0, Sound(s0), Halted(s0), Timely(s0), NEW x \in Contexts
    PROVE  Timely(PollService(s0, x))
  <1> DEFINE s == Refresh(s0, x)
             run == [s EXCEPT !.state = "RUNNING"]
             t == PollService(s0, x)
  <1>1. Sound(s) /\ Timely(s)
    BY RefreshSteady, RunKeptTimely
  <1>2. \/ t = s
        \/ t = Settle(s, x) /\ s.state = "RUNNING"
        \/ t = LaunchByService(s, x) /\ s.state = "ARMED"
        \/ t = Settle(run, x) /\ s.state = "ARMED" /\ s.arm.local
    BY DEF PollService, PollRefreshed
  <1> HIDE DEF s, t
  <1>3. CASE t = Settle(run, x) /\ s.state = "ARMED" /\ s.arm.local
    <2>1. Sound(run) /\ run.state = "RUNNING" /\ run.arm = s.arm /\ run.eng = s.eng
      BY <1>1, <1>3 DEF Sound, Typed, Service, States, Live
    <2> HIDE DEF run
    <2>2. Timely(run)
      BY <1>1, <1>3, <2>1 DEF Timely, Executing
    <2> QED
      BY <1>3, <2>1, <2>2, SettleTimely DEF t
  <1> QED
    BY <1>1, <1>2, <1>3, SettleTimely, LaunchByServiceTimely DEF t

-------------------------------------------------------------------------------
(* Requests. *)

\* A method that leaves the state, the arm record and the start alone.
LEMMA FrameTimely ==
    ASSUME NEW s, NEW t, Timely(s), t.state = s.state, t.arm = s.arm, SameStart(s.eng, t.eng)
    PROVE  Timely(t)
  BY DEF Timely, Within, SameStart

\* LOAD and the operations that only concern the owner leave a start alone.
LEMMA ClaimTimely ==
    ASSUME NEW s, Sound(s), s.owner # NoOwner, Timely(s), NEW r, NEW x
    PROVE  Timely(DoRenew(s, r, x).s) /\ Timely(DoRelease(s, r).s)
  <1>1. Timely(DoRenew(s, r, x).s)
    <2> DEFINE t == [s EXCEPT !.owner.expires = x.now + r.body.lease]
    <2>1. DoRenew(s, r, x).s \in {s, t}
      BY DEF DoRenew, Reject, Success
    <2>2. t.state = s.state /\ t.arm = s.arm /\ t.eng = s.eng
      BY DEF Sound, Typed, Service
    <2> HIDE DEF t
    <2> QED
      BY <2>1, <2>2, FrameTimely DEF SameStart
  <1>2. Timely(DoRelease(s, r).s)
    <2> DEFINE t == DropOwner(ClearJob(s))
    <2>1. DoRelease(s, r).s \in {s, t}
      BY DEF DoRelease, Reject, Success
    <2>2. Typed(ClearJob(s)) /\ ClearJob(s).state = "EMPTY"
      BY ClearJobProps DEF Sound
    <2>3. t.state = "EMPTY"
      BY <2>2, DropOwnerProps
    <2> HIDE DEF t
    <2> QED
      BY <2>1, <2>3, EndedTimely DEF Executing
  <1> QED
    BY <1>1, <1>2

\* CLAIM thaws the calibration of an engine, and leaves its start alone.
LEMMA DoClaimTimely ==
    ASSUME NEW s, Sound(s), Timely(s), NEW r, NEW x
    PROVE  Timely(DoClaim(s, r, x).s)
  <1> DEFINE o == [id |-> r.body.owner, session |-> r.session, principal |-> r.principal,
                   expires |-> x.now + r.body.lease, release |-> FALSE]
             t == [s EXCEPT !.eng = CalibrationBoundary(@), !.owner = o]
  <1>1. DoClaim(s, r, x).s \in {s, t}
    BY DEF DoClaim, Reject, Success
  <1>2. /\ t.state = s.state /\ t.arm = s.arm /\ t.eng = CalibrationBoundary(s.eng)
        /\ s.eng \in Engine
    BY DEF Sound, Typed, Service
  <1>3. SameStart(s.eng, CalibrationBoundary(s.eng))
    BY <1>2 DEF SameStart, CalibrationBoundary, Engine
  <1> HIDE DEF t, o
  <1> QED
    BY <1>1, <1>2, <1>3, FrameTimely

\* LOAD replaces no job that executes.
LEMMA DoLoadTimely ==
    ASSUME NEW s, Sound(s), Timely(s), NEW r, WellFormed(r), r.op = "LOAD", NEW x \in Contexts
    PROVE  Timely(DoLoad(s, r, x).s)
  <1> DEFINE d == DoLoad(s, r, x)
  <1>1. Loaded(s, r, d)
    BY LoadCases
  <1> HIDE DEF d
  <1>2. ASSUME NEW e, Admitted(s, r, e, d)
        PROVE  Timely(d.s)
    <2>1. d.s = [s EXCEPT !.eng = e] \/ d.s = [s EXCEPT !.eng = e, !.job = r.body.job,
                                                        !.arm = NoArm, !.state = "LOADED"]
      BY <1>2 DEF Admitted, Reject, Success
    <2>2. d.s.state \in {s.state, "LOADED"}
      BY <2>1 DEF Sound, Typed, Service
    <2> QED
      BY <1>2, <2>2, EndedTimely DEF Admitted, Executing
  <1>3. Timely(TouchTerminal(s, r.body.job.id))
    BY TouchTerminalFrame, FrameTimely DEF SameStart
  <1> QED
    BY <1>1, <1>2, <1>3 DEF Loaded, Reject, Success, d

\* ARM gives the engine the deadline that the window of its record ends at.
LEMMA ScheduleJobTimely ==
    ASSUME NEW s, Sound(s), s.state = "LOADED", NEW r, WellFormed(r), r.op = "ARM",
           NEW x \in Contexts
    PROVE  Timely(ScheduleJob(s, r, x).s)
  <1> DEFINE refused == RefusedBy(s, r, x)
             stopped == StopAs(refused, "FAILED", "DEVICE_FAULT", x)
             by == ArmedBy(s, r, x)
             in == ArmedIn(s, r, x)
             arm == ArmOf(r, x)
             e == BegunOf(s, r, x).eng
             d == ScheduleJob(s, r, x)
  <1>1. \/ d.s = by /\ ~Local
        \/ d.s = in /\ BegunOf(s, r, x).ok
        \/ d.s = stopped
    BY ScheduleCases DEF Success, Reject
  <1>2. /\ r.body.arm.startUtc \in Nat /\ x.clk.off \in Int
        /\ StartOf(r, x) \in Int /\ DeadlineOf(r, x) \in Int /\ arm \in Arms
        /\ e \in Engine /\ Typed(refused) /\ s \in Service /\ s.eng \in Engine /\ s.job \in Jobs
    BY ArmTypes DEF Sound, Typed, Service, Live
  <1>3. /\ arm.launch = NoTime /\ arm.local = Local /\ arm.start = StartOf(r, x)
        /\ arm.startUtc = r.body.arm.startUtc
    BY DEF ArmOf
  <1>4. Limit(arm) = DeadlineOf(r, x)
    <2>1. StartWindow(r.body.arm.startUtc) \in Int
      BY <1>2, ArmPolicyAssumption DEF StartWindow
    <2> QED
      BY <1>2, <1>3, <2>1 DEF Limit, StartOf, DeadlineOf, StartMonotonic
  <1>5. CondOf(r, x).deadline = DeadlineOf(r, x) /\ CondOf(r, x) \in Conditions
    <2>1. r.body.arm.maxUnc \in Nat
      <3>1. r.body.arm \in ArmBodies
        BY DEF WellFormed
      <3> QED
        BY <3>1, JobServiceAssumption
    <2> QED
      BY <1>2, <2>1, ArmPolicyAssumption DEF CondOf, Conditions
  <1>6. BegunOf(s, r, x).ok => /\ e.st = "armed" /\ e.launch = NoTime
                               /\ e.cond = CondOf(r, x) /\ e.start = StartOf(r, x)
    BY <1>2, <1>5, BegunStart DEF BegunOf
  <1>7. /\ by.arm = arm /\ by.state = "ARMED" /\ in.arm = arm /\ in.eng = e
        /\ in.state = "ARMED" /\ refused.state = "ARMED" /\ refused.job = s.job
    BY <1>2 DEF ArmedBy, ArmedIn, RefusedBy, Service
  <1> HIDE DEF refused, by, in, arm, e, d
  <1>8. CASE d.s = by /\ ~Local
    <2>1. Timely(by)
      BY <1>3, <1>7, <1>8 DEF Timely
    <2> QED
      BY <1>8, <2>1 DEF d
  <1>9. CASE d.s = in /\ BegunOf(s, r, x).ok
    <2>1. Within(e, Limit(arm))
      <3>1. e.cond # NoCond => e.cond.deadline <= Limit(arm)
        BY <1>2, <1>4, <1>5, <1>6, <1>9
      <3>2. e.cond = NoCond => e.start < Limit(arm)
        <4>1. StartWindow(arm.startUtc) \in Nat \ {0}
          BY <1>2, <1>3, ArmPolicyAssumption DEF StartWindow
        <4> QED
          BY <1>2, <1>3, <1>6, <1>9, <4>1 DEF Limit
      <3> QED
        BY <1>6, <1>9, <3>1, <3>2 DEF Within
    <2>2. Timely(in)
      BY <1>3, <1>7, <2>1 DEF Timely
    <2> QED
      BY <1>9, <2>2 DEF d
  <1>10. CASE d.s = stopped
    <2>1. stopped.state \notin Executing
      BY <1>2, <1>7, EndCodes, StopAsSteady DEF Live
    <2> QED
      BY <1>10, <2>1, EndedTimely DEF d
  <1> QED
    BY <1>1, <1>8, <1>9, <1>10

\* ARM of any job.
LEMMA DoArmTimely ==
    ASSUME NEW s, Sound(s), Timely(s), NEW r, WellFormed(r), r.op = "ARM", NEW x \in Contexts
    PROVE  Timely(DoArm(s, r, x).s)
  <1> DEFINE d == DoArm(s, r, x)
  <1>1. \/ \E err : d = Reject(s, r, err)
        \/ d = Success(TouchTerminal(s, r.body.job), r)
        \/ d = Success(s, r)
        \/ d = ScheduleJob(s, r, x) /\ s.state = "LOADED"
    BY DEF DoArm
  <1>2. Timely(TouchTerminal(s, r.body.job))
    BY TouchTerminalFrame, FrameTimely DEF SameStart
  <1>3. s.state = "LOADED" => Timely(ScheduleJob(s, r, x).s)
    BY ScheduleJobTimely
  <1> HIDE DEF d
  <1> QED
    BY <1>1, <1>2, <1>3 DEF Reject, Success, d

\* An abort leaves the service as it was, or ends the execution.
LEMMA AbortJobTimely ==
    ASSUME NEW s, Sound(s), Timely(s), NEW r, NEW id, NEW x \in Contexts
    PROVE  Timely(AbortJob(s, r, id, x).s)
  <1> DEFINE stopped == StopAs(s, "ABORTED", "NONE", x)
             t == AbortJob(s, r, id, x).s
  <1>1. t = s \/ (t = stopped /\ s.job # NoJob /\ s.state \notin TerminalStates)
    BY DEF AbortJob, TerminalStates, Reject, Success
  <1>2. CASE t = stopped /\ s.job # NoJob /\ s.state \notin TerminalStates
    <2>1. Typed(s) /\ s.job \in Jobs /\ s.state \in Live
      BY <1>2 DEF Sound, Typed, Service, States, Live, TerminalStates
    <2> QED
      BY <1>2, <2>1, EndCodes, StopAsSteady, EndedTimely
  <1> QED
    BY <1>1, <1>2

\* Every operation.
LEMMA DispatchTimely ==
    ASSUME NEW s, Sound(s), Timely(s), NEW r, WellFormed(r), NEW x \in Contexts
    PROVE  Timely(Dispatch(s, r, x).s)
  <1> DEFINE d == Dispatch(s, r, x)
  <1>1. \/ d = Success(s, r)
        \/ \E err : d = Reject(s, r, err)
        \/ d = DoClaim(s, r, x)
        \/ /\ s.owner # NoOwner
           /\ \/ r.op = "RENEW" /\ d = DoRenew(s, r, x)
              \/ r.op = "RELEASE" /\ d = DoRelease(s, r)
              \/ r.op = "LOAD" /\ d = DoLoad(s, r, x)
              \/ r.op = "ARM" /\ d = DoArm(s, r, x)
              \/ r.op = "ABORT" /\ d = AbortJob(s, r, r.body.job, x)
    BY DispatchCases
  <1>2. Success(s, r).s = s /\ \A err : Reject(s, r, err).s = s
    BY DEF Success, Reject
  <1> HIDE DEF d
  <1> QED
    BY <1>1, <1>2, DoClaimTimely, ClaimTimely, DoLoadTimely, DoArmTimely, AbortJobTimely DEF d

\* A replay changes the order of the cache only.
LEMMA ServeTimely ==
    ASSUME NEW s, Sound(s), Timely(s), NEW r, WellFormed(r), NEW x \in Contexts
    PROVE  Timely(Serve(s, r, x).s)
  <1> DEFINE done == Dispatch(s, r, x)
             t == Remember(done.s, r, done.reply, x)
             d == Serve(s, r, x)
  <1>1. \/ d = done
        \/ d = Reject(s, r, "REQUEST_ID_REUSE")
        \/ \E hit : d = [s |-> [s EXCEPT !.replay = ToFront(@, hit)], reply |-> hit.reply]
        \/ d = [s |-> t, reply |-> done.reply]
    BY ServeCases
  <1>2. Timely(done.s) /\ Sound(done.s)
    BY DispatchTimely, DispatchObeys DEF Obeys
  <1> HIDE DEF done, d
  <1>3. Timely(t)
    <2>1. t.state = done.s.state /\ t.arm = done.s.arm /\ t.eng = done.s.eng
      BY <1>2 DEF Remember, Sound, Typed, Service
    <2> HIDE DEF t
    <2> QED
      BY <1>2, <2>1, FrameTimely DEF SameStart
  <1> HIDE DEF t
  <1>4. ASSUME NEW hit PROVE Timely([s EXCEPT !.replay = ToFront(@, hit)])
    <2> DEFINE u == [s EXCEPT !.replay = ToFront(@, hit)]
    <2>1. u.state = s.state /\ u.arm = s.arm /\ u.eng = s.eng
      BY DEF Sound, Typed, Service
    <2> HIDE DEF u
    <2>2. Timely(u)
      BY <2>1, FrameTimely DEF SameStart
    <2> QED
      BY <2>2 DEF u
  <1> QED
    BY <1>1, <1>2, <1>3, <1>4 DEF Reject, d

\* A request, from its prologue to its reply.
LEMMA HandleOwnedTimely ==
    ASSUME NEW s0, Sound(s0), Halted(s0), Timely(s0), NEW r, WellFormed(r), NEW x \in Contexts
    PROVE  Timely(HandleOwned(s0, r, x).s)
  <1> DEFINE s == Refresh(s0, x)
             seen == SeeSession(s, r, x)
             d == HandleOwned(s0, r, x)
  <1>1. /\ Sound(s) /\ Sound(seen)
        /\ (\E err : d = Reject(s, r, err)) \/ d = Serve(seen, r, x)
    BY HandleCases
  <1>2. Timely(s)
    BY RefreshSteady, RunKeptTimely
  <1> HIDE DEF s, d
  <1>3. seen.state = s.state /\ seen.eng = s.eng /\ seen.arm = s.arm
    BY <1>1 DEF SeeSession, Sound, Typed, Service
  <1> HIDE DEF seen
  <1>4. Timely(seen)
    BY <1>2, <1>3, FrameTimely DEF SameStart
  <1> QED
    BY <1>1, <1>2, <1>4, ServeTimely DEF Reject, d

-------------------------------------------------------------------------------
(* Local controls, the engine and the theorem. *)

\* A local abort after its poll.
LEMMA AbortPolledTimely ==
    ASSUME NEW s, Sound(s), Timely(s), NEW r, NEW x \in Contexts
    PROVE  Timely(AbortPolled(s, r, x).s)
  <1> DEFINE a == AbortJob(s, r, s.job.id, x)
             d == AbortPolled(s, r, x)
  <1>1. Timely(a.s)
    BY AbortJobTimely
  <1>2. ASSUME NEW t, Sound(t), Timely(t) PROVE Timely(DropOwner(t))
    BY <1>2, DropOwnerSteady, RunKeptTimely DEF Sound
  <1>3. d.s = s \/ d.s = a.s \/ (d.s = DropOwner(a.s) /\ Sound(a.s)) \/ d.s = DropOwner(s)
    BY AbortPolledCases
  <1> HIDE DEF a, d
  <1> QED
    BY <1>1, <1>2, <1>3 DEF d

\* The interlock: its abort, and one more disable.
LEMMA LocalInhibitTimely ==
    ASSUME NEW s, Sound(s), Halted(s), Timely(s), NEW r, NEW x \in Contexts,
           NEW off2 \in BOOLEAN
    PROVE  Timely(LocalInhibitOf(s, r, x, off2).s)
  <1> DEFINE l == Latched(s)
             p == PollService(l, x)
             a == AbortPolled(p, r, x).s
             e == Disable(a.eng, off2)
             d == LocalInhibitOf(s, r, x, off2)
  <1>1. Sound(p) /\ Sound(a) /\ d.s = [a EXCEPT !.eng = e]
    BY LocalInhibitCases
  <1>2. Sound(l) /\ l.state = s.state /\ l.arm = s.arm /\ l.eng = InhibitOutput(s.eng)
    BY LatchedSound
  <1> HIDE DEF l
  <1>3. SameStart(s.eng, l.eng)
    BY <1>2 DEF SameStart, InhibitOutput, Sound, Typed, Service, Engine
  <1>4. Timely(l) /\ Halted(l)
    BY <1>2, <1>3, FrameTimely DEF Halted, SameStart
  <1>5. Timely(p)
    BY <1>2, <1>4, PollServiceTimely
  <1> HIDE DEF p
  <1>6. Timely(a)
    BY <1>1, <1>5, AbortPolledTimely
  <1> HIDE DEF a
  <1>7. e.st # "armed" /\ (e.launch # NoTime => e.launch = a.eng.launch)
    BY <1>1 DEF Disable, Stopped, Sound, Typed, Service, Engine
  <1> HIDE DEF e
  <1>8. d.s.state = a.state /\ d.s.arm = a.arm /\ d.s.eng = e
    BY <1>1 DEF Sound, Typed, Service
  <1> HIDE DEF d
  <1>9. Timely(d.s)
    BY <1>6, <1>7, <1>8 DEF Timely, Within
  <1> QED
    BY <1>9 DEF d

\* An engine that launches by itself does it within the limit of its start.
LEMMA EngineStepWithin ==
    ASSUME NEW e \in Engine, NEW l \in Int, Within(e, l), NEW t \in Nat, NEW f,
           \/ f \in EngLead(e)
           \/ \E c \in Clocks : f \in EngLaunch(e, t, c)
           \/ \E c \in Clocks : f \in EngMiss(e, t, c)
           \/ f \in EngFinish(e, t) \/ f \in EngTail(e, t)
           \/ f \in EngFault(e) \/ f \in EngSafetyStop(e)
    PROVE  Within(f, l)
  <1>1. CASE f \in EngLead(e)
    BY <1>1 DEF EngLead, Within, Engine
  <1>2. CASE \E c \in Clocks : f \in EngLaunch(e, t, c)
    <2>1. PICK c \in Clocks : f \in EngLaunch(e, t, c)
      BY <1>2
    <2>2. e.st = "armed" /\ LaunchAdmissible(e, t, c) /\ f.st = "running" /\ f.launch = t
      BY <2>1 DEF EngLaunch, Engine
    <2>3. t < l
      <3>1. CASE e.cond = NoCond
        <4>1. t <= e.start /\ e.start < l /\ e.start \in Int
          BY <2>2, <3>1 DEF LaunchAdmissible, Within, Engine
        <4> QED
          BY <4>1
      <3>2. CASE e.cond # NoCond
        <4>1. t < e.cond.deadline /\ e.cond.deadline <= l /\ e.cond \in Conditions
          BY <2>2, <3>2 DEF LaunchAdmissible, Within, Engine
        <4>2. e.cond.deadline \in Int
          BY <4>1 DEF Conditions
        <4> QED
          BY <4>1, <4>2
      <3> QED
        BY <3>1, <3>2
    <2> QED
      BY <2>2, <2>3 DEF Within
  <1>3. CASE \E c \in Clocks : f \in EngMiss(e, t, c)
    BY <1>3 DEF EngMiss, Within, Engine
  <1>4. CASE f \in EngFinish(e, t)
    BY <1>4 DEF EngFinish, Completed, Within, Engine
  <1>5. CASE f \in EngTail(e, t)
    BY <1>5 DEF EngTail, Completed, Within, Engine
  <1>6. CASE f \in EngFault(e)
    BY <1>6 DEF EngFault, Within, Engine
  <1>7. CASE f \in EngSafetyStop(e)
    BY <1>7 DEF EngSafetyStop, Stopped, Within, Engine
  <1> QED
    BY <1>1, <1>2, <1>3, <1>4, <1>5, <1>6, <1>7

\* So do upkeep, the freezing of a pair and the steps of the engine.
LEMMA UpkeepTimely ==
    ASSUME IInv, Timely(svc), Upkeep \/ FreezePair \/ Engine1
    PROVE  Timely(svc')
  <1>1. svc \in Service /\ svc.eng \in Engine /\ now \in Nat
    BY DEF IInv, Sound, Typed, Service
  <1>2. svc'.state = svc.state /\ svc'.arm = svc.arm
    BY UpkeepCases
  <1>3. CASE Upkeep
    <2>1. svc'.eng = svc.eng
      BY <1>1, <1>3 DEF Upkeep, BeginMaintenance, EndMaintenance, FinishVerification, Service
    <2> QED
      BY <1>2, <2>1, FrameTimely DEF SameStart
  <1>4. CASE FreezePair
    <2>1. PICK freeze \in BOOLEAN : svc' = [svc EXCEPT !.eng = FreezePairCalibration(@, freeze)]
      BY <1>4 DEF FreezePair
    <2>2. svc'.eng = FreezePairCalibration(svc.eng, freeze)
      BY <1>1, <2>1 DEF Service
    <2>3. SameStart(svc.eng, svc'.eng)
      BY <1>1, <2>2 DEF FreezePairCalibration, SameStart, Engine
    <2> QED
      BY <1>2, <2>3, FrameTimely
  <1>5. CASE Engine1
    <2>1. PICK f : /\ \/ f \in EngLead(svc.eng)
                      \/ \E c \in Clocks : f \in EngLaunch(svc.eng, now, c)
                      \/ \E c \in Clocks : f \in EngMiss(svc.eng, now, c)
                      \/ f \in EngFinish(svc.eng, now) \/ f \in EngTail(svc.eng, now)
                      \/ f \in EngFault(svc.eng) \/ f \in EngSafetyStop(svc.eng)
                   /\ svc' = [svc EXCEPT !.eng = f]
      BY <1>5 DEF Engine1, EngineLead, EngineLaunch, EngineMiss, EngineFinish, EngineTail,
                  EngineFault, EngineSafetyStop, EngineStep
    <2>2. svc'.eng = f
      BY <1>1, <2>1 DEF Service
    <2>3. ASSUME svc.state \in Executing
          PROVE  Within(svc.eng, Limit(svc.arm)) => Within(f, Limit(svc.arm))
      BY <1>1, <2>1, <2>3, LimitType, EngineStepWithin DEF IInv
    <2> QED
      BY <1>2, <2>2, <2>3 DEF Timely
  <1> QED
    BY <1>3, <1>4, <1>5

\* The launch of the current job is, or will be, in its window.
InTime == Timely(svc)

\* Every step keeps the launch in its window.
LEMMA NextTimely == IInv /\ StepInv /\ InTime /\ [Next]_vars => InTime'
  <1> SUFFICES ASSUME IInv, StepInv, InTime, [Next]_vars PROVE Timely(svc')
    BY DEF InTime
  <1>0. Sound(svc) /\ Halted(svc) /\ Timely(svc)
    BY DEF IInv, StepInv, InTime
  <1>1. CASE Requests
    <2>1. PICK r : \E from \in Senders, x \in Contexts : Serves(from, r, x)
      BY <1>1, RequestsCases DEF IInv
    <2> QED
      BY <1>0, <2>1, HandleOwnedTimely DEF Serves
  <1>2. CASE Poll
    <2>1. PICK x \in PollContexts : svc' = PollService(svc, x)
      BY <1>2 DEF Poll
    <2> QED
      BY <1>0, <2>1, PollContextType, PollServiceTimely
  <1>3. CASE LocalAbort
    <2>1. PICK x \in PollContexts : svc' = LocalAbortOf(svc, [op |-> "LOCAL_ABORT"], x).s
      BY <1>3 DEF LocalAbort
    <2>2. svc' = AbortPolled(PollService(svc, x), [op |-> "LOCAL_ABORT"], x).s
      BY <2>1 DEF LocalAbortOf
    <2>3. x \in Contexts
      BY PollContextType
    <2>4. Sound(PollService(svc, x)) /\ Timely(PollService(svc, x))
      BY <1>0, <2>3, PollServiceSteady, PollServiceTimely
    <2> QED
      BY <2>2, <2>3, <2>4, AbortPolledTimely
  <1>4. CASE LocalInhibit
    <2>1. PICK x \in PollContexts, off2 \in BOOLEAN :
            svc' = LocalInhibitOf(svc, [op |-> "INHIBIT"], x, off2).s
      BY <1>4 DEF LocalInhibit
    <2> QED
      BY <1>0, <2>1, PollContextType, LocalInhibitTimely
  <1>5. CASE Upkeep \/ FreezePair \/ Engine1
    BY <1>0, <1>5, UpkeepTimely
  <1>6. CASE Reset
    <2>1. PICK off \in BOOLEAN, fresh \in BOOLEAN : svc' = ResetOf(svc, off, fresh)
      BY <1>6 DEF Reset
    <2>2. svc'.state \notin Executing
      BY <2>1 DEF ResetOf, Boot, Executing
    <2> QED
      BY <2>2, EndedTimely
  <1>7. CASE SaveCorrection \/ Tick \/ UNCHANGED vars
    BY <1>0, <1>7 DEF SaveCorrection, Tick, vars
  <1> QED
    BY <1>1, <1>2, <1>3, <1>4, <1>5, <1>6, <1>7 DEF Next

\* A job is launched before the UTC second it was armed for is over, in the
\* time of its ARM, however the clock is steered in between: by poll()
\* (job_service.cpp:614) and by the engine's own guard.
THEOREM LaunchesInSecond == Spec => []LaunchInSecond
  <1>1. Init => InTime
    <2> SUFFICES ASSUME Init PROVE Timely(svc)
      BY DEF InTime
    <2>1. PICK off \in BOOLEAN, verify \in BOOLEAN : svc = Boot(EngineInit, off, verify)
      BY DEF Init
    <2>2. svc.state \notin Executing
      BY <2>1 DEF Boot, Executing
    <2> QED
      BY <2>2, EndedTimely
  <1>2. InTime => LaunchInSecond
    BY DEF InTime, Timely, Executing, Limit, LaunchInSecond
  <1> QED
    BY <1>1, <1>2, NextTimely, Soundness, StepsKept, PTL DEF Spec

-----------------------------------------------------------------------------
(***************************************************************************)
(* A message goes out once within the retention of its record (Launches):  *)
(* a record is dropped only when it has expired or the records of other    *)
(* jobs fill the list, in whatever order a call expires a lease, records   *)
(* an end, prunes and answers.                                             *)
(*                                                                         *)
(* A call is a first part, which may end a job and lets records expire,    *)
(* and a later one, which touches no record unless a job is still live:    *)
(* so a call records at most one end (FirstThenLater).                     *)
(***************************************************************************)

\* U has the record r, of the same job and the same end.
Kept(r, U) == \E u \in U : u.job = r.job /\ u.at = r.at

\* The record has expired.
Aged(r, time) == time - r.at >= TerminalTtl

\* The other jobs recorded in S or T fill the list.
Crowd(S, T, id) == Cardinality((JobsOf(S) \cup JobsOf(T)) \ {id}) >= TerminalCap

\* The end of the present job is on record.
Noted(s, t, time) == \E u \in t.terminals : u.job = s.job.id /\ u.at = time

\* No record is lost early, and no execution ends without one.
Fate(s, t, time) ==
    /\ \A r \in s.terminals :
         Kept(r, t.terminals) \/ Aged(r, time) \/ Crowd(s.terminals, t.terminals, r.job)
    /\ s.state \in Executing =>
         (t.state \in Executing /\ t.job = s.job) \/ Noted(s, t, time)

\* Nothing is recorded and no execution ends; records may expire.
Idles(s, t, time) ==
    /\ JobsOf(t.terminals) \subseteq JobsOf(s.terminals)
    /\ \A r \in s.terminals : Kept(r, t.terminals) \/ Aged(r, time)
    /\ s.state \in Executing => t.state \in Executing /\ t.job = s.job

\* What may come first in a call, and what may come later.
First(s, t, time) == Fate(s, t, time) /\ (t.state \in Live => Idles(s, t, time))

Later(s, t, time) ==
    /\ Fate(s, t, time)
    /\ s.state \notin Live => \A r \in s.terminals : Kept(r, t.terminals)

\* The same records and the same job.
Alike(s, t) == t.terminals = s.terminals /\ t.state = s.state /\ t.job = s.job

\* Finitely many records are about finitely many jobs.
LEMMA JobsFinite ==
    ASSUME NEW T, IsFiniteSet(T)
    PROVE  IsFiniteSet(JobsOf(T))
  <1> DEFINE f == [r \in T |-> r.job]
  <1>1. JobsOf(T) = {f[r] : r \in T}
    BY DEF JobsOf
  <1> HIDE DEF f
  <1> QED
    BY <1>1, ImageFinite

\* A list stays full when more jobs count.
LEMMA CrowdWider ==
    ASSUME NEW S, NEW T, NEW V, NEW W, NEW id, IsFiniteSet(V), IsFiniteSet(W),
           JobsOf(S) \cup JobsOf(T) \subseteq JobsOf(V) \cup JobsOf(W), Crowd(S, T, id)
    PROVE  Crowd(V, W, id)
  <1> DEFINE a == (JobsOf(S) \cup JobsOf(T)) \ {id}
             b == (JobsOf(V) \cup JobsOf(W)) \ {id}
  <1>1. IsFiniteSet(b)
    <2>1. IsFiniteSet(JobsOf(V) \cup JobsOf(W))
      BY JobsFinite, FS_Union
    <2> QED
      BY <2>1, FS_Subset
  <1>2. a \in SUBSET b
    OBVIOUS
  <1> HIDE DEF a, b
  <1>3. IsFiniteSet(a) /\ Cardinality(a) <= Cardinality(b)
    BY <1>1, <1>2, FS_Subset
  <1>4. Cardinality(a) \in Nat /\ Cardinality(b) \in Nat /\ TerminalCap \in Nat
    BY <1>1, <1>3, FS_CardinalityType, JobServiceAssumption
  <1>5. Cardinality(a) >= TerminalCap
    BY DEF Crowd, a
  <1>6. Cardinality(b) >= TerminalCap
    BY <1>3, <1>4, <1>5
  <1> QED
    BY <1>6 DEF Crowd, b

\* A record that is kept twice is kept, and its job with it.
LEMMA KeptTwice ==
    ASSUME NEW S, NEW T, NEW U
    PROVE  /\ \A r \in S : Kept(r, T) /\ (\A q \in T : Kept(q, U)) => Kept(r, U)
           /\ (\A r \in S : Kept(r, T)) => JobsOf(S) \subseteq JobsOf(T)
           /\ \A r \in S : Kept(r, S)
  BY DEF Kept, JobsOf

\* Changing nothing is allowed at any place in a call.
LEMMA FrameFate ==
    ASSUME NEW s, NEW t, NEW time, t.terminals = s.terminals,
           s.state \in Executing => t.state \in Executing /\ t.job = s.job
    PROVE  Idles(s, t, time) /\ Fate(s, t, time) /\ First(s, t, time) /\ Later(s, t, time)
  BY KeptTwice DEF Idles, Fate, First, Later

\* Idling is a fate.
LEMMA IdlesFirst ==
    ASSUME NEW s, NEW t, NEW time, Idles(s, t, time)
    PROVE  First(s, t, time)
  BY DEF Idles, First, Fate

\* The relations read the records and the job only.
LEMMA AlikeFate ==
    ASSUME NEW s, NEW t, NEW v, NEW w, NEW time, Alike(s, v), Alike(t, w)
    PROVE  /\ Fate(s, t, time) => Fate(v, w, time)
           /\ First(s, t, time) => First(v, w, time)
           /\ Later(s, t, time) => Later(v, w, time)
           /\ Idles(s, t, time) => Idles(v, w, time)
  BY DEF Alike, Fate, First, Later, Idles, Noted

\* Idling twice.
LEMMA IdlesTwice ==
    ASSUME NEW s, NEW m, NEW t, NEW time, Idles(s, m, time), Idles(m, t, time)
    PROVE  Idles(s, t, time)
  <1>1. \A r \in s.terminals : Kept(r, t.terminals) \/ Aged(r, time)
    BY DEF Idles, Kept, Aged
  <1> QED
    BY <1>1 DEF Idles

\* The two parts of a call make one fate.
LEMMA FirstThenLater ==
    ASSUME NEW s, NEW m, NEW t, NEW time,
           IsFiniteSet(s.terminals), IsFiniteSet(t.terminals),
           First(s, m, time), Later(m, t, time)
    PROVE  Fate(s, t, time)
  <1>1. CASE m.state \in Live
    <2>1. Idles(s, m, time) /\ Fate(m, t, time)
      BY <1>1 DEF First, Later
    <2>2. ASSUME NEW r \in s.terminals, ~Aged(r, time)
          PROVE  Kept(r, t.terminals) \/ Crowd(s.terminals, t.terminals, r.job)
      <3>1. PICK q \in m.terminals : q.job = r.job /\ q.at = r.at
        BY <2>1, <2>2 DEF Idles, Kept
      <3>2. ~Aged(q, time)
        BY <2>2, <3>1 DEF Aged
      <3>3. Kept(q, t.terminals) \/ Crowd(m.terminals, t.terminals, q.job)
        BY <2>1, <3>2 DEF Fate
      <3>4. JobsOf(m.terminals) \cup JobsOf(t.terminals)
              \subseteq JobsOf(s.terminals) \cup JobsOf(t.terminals)
        BY <2>1 DEF Idles
      <3>5. Crowd(m.terminals, t.terminals, r.job) => Crowd(s.terminals, t.terminals, r.job)
        BY <3>4, CrowdWider
      <3> QED
        BY <3>1, <3>3, <3>5 DEF Kept
    <2>3. s.state \in Executing => (t.state \in Executing /\ t.job = s.job) \/ Noted(s, t, time)
      BY <2>1 DEF Idles, Fate, Noted
    <2> QED
      BY <2>2, <2>3 DEF Fate
  <1>2. CASE m.state \notin Live
    <2>1. Fate(s, m, time) /\ \A q \in m.terminals : Kept(q, t.terminals)
      BY <1>2 DEF First, Later
    <2>2. JobsOf(s.terminals) \cup JobsOf(m.terminals)
            \subseteq JobsOf(s.terminals) \cup JobsOf(t.terminals)
      BY <2>1, KeptTwice
    <2>3. ASSUME NEW r \in s.terminals, ~Aged(r, time)
          PROVE  Kept(r, t.terminals) \/ Crowd(s.terminals, t.terminals, r.job)
      <3>1. Kept(r, m.terminals) \/ Crowd(s.terminals, m.terminals, r.job)
        BY <2>1, <2>3 DEF Fate
      <3>2. Kept(r, m.terminals) => Kept(r, t.terminals)
        BY <2>1, KeptTwice
      <3>3. Crowd(s.terminals, m.terminals, r.job) => Crowd(s.terminals, t.terminals, r.job)
        BY <2>2, CrowdWider
      <3> QED
        BY <3>1, <3>2, <3>3
    <2>4. ASSUME s.state \in Executing PROVE Noted(s, t, time)
      <3>1. Noted(s, m, time)
        BY <1>2, <2>1, <2>4 DEF Fate, Executing, Live
      <3>2. PICK u \in m.terminals : u.job = s.job.id /\ u.at = time
        BY <3>1 DEF Noted
      <3>3. Kept(u, t.terminals)
        BY <2>1
      <3> QED
        BY <3>2, <3>3 DEF Noted, Kept
    <2> QED
      BY <2>3, <2>4 DEF Fate
  <1> QED
    BY <1>1, <1>2

\* A first part that nothing but an idle one follows.
LEMMA FirstTwice ==
    ASSUME NEW s, NEW m, NEW t, NEW time,
           IsFiniteSet(s.terminals), IsFiniteSet(t.terminals),
           First(s, m, time), First(m, t, time), Later(m, t, time),
           t.state \in Live => m.state \in Live
    PROVE  First(s, t, time)
  <1>1. Fate(s, t, time)
    BY FirstThenLater
  <1>2. t.state \in Live => Idles(s, t, time)
    BY IdlesTwice DEF First
  <1> QED
    BY <1>1, <1>2 DEF First

-------------------------------------------------------------------------------
(* What the methods that write the list do to it. *)

\* Closing the gaps keeps every record, and so does moving one to the front.
LEMMA MovesKeep ==
    ASSUME NEW T \in SUBSET TerminalRecords, IsFiniteSet(T)
    PROVE  /\ \A r \in T : Kept(r, Compact(T))
           /\ JobsOf(Compact(T)) \subseteq JobsOf(T)
           /\ \A q \in T : \A r \in T : Kept(r, ToFront(T, q))
  <1> DEFINE f == [r \in T |-> [r EXCEPT !.pos = Cardinality(Ahead(T, r))]]
  <1>1. \A r \in T : f[r].job = r.job /\ f[r].at = r.at
    BY DEF TerminalRecords
  <1>2. Compact(T) = {f[r] : r \in T}
    BY DEF Compact
  <1> HIDE DEF f
  <1>3. (\A r \in T : Kept(r, Compact(T))) /\ JobsOf(Compact(T)) \subseteq JobsOf(T)
    BY <1>1, <1>2 DEF Kept, JobsOf
  <1>4. ASSUME NEW q \in T, NEW r \in T PROVE Kept(r, ToFront(T, q))
    <2> DEFINE P == PushFront(T \ {q}, q)
               g == [u \in P |-> [u EXCEPT !.pos = Cardinality(Ahead(P, u))]]
    <2>1. P \in SUBSET TerminalRecords
      BY FS_Subset, TerminalsType
    <2>2. Kept(r, P)
      <3>1. CASE r = q
        <4>1. [q EXCEPT !.pos = 0] \in P
          BY DEF PushFront
        <4> QED
          BY <3>1, <4>1 DEF Kept, TerminalRecords
      <3>2. CASE r # q
        <4>1. [r EXCEPT !.pos = @ + 1] \in P
          BY <3>2 DEF PushFront
        <4> QED
          BY <4>1 DEF Kept, TerminalRecords
      <3> QED
        BY <3>1, <3>2
    <2> HIDE DEF P
    <2>3. \A u \in P : g[u].job = u.job /\ g[u].at = u.at
      BY <2>1 DEF TerminalRecords
    <2>4. Compact(P) = {g[u] : u \in P}
      BY DEF Compact
    <2> HIDE DEF g
    <2>5. Kept(r, Compact(P))
      BY <2>2, <2>3, <2>4 DEF Kept
    <2> QED
      BY <2>5 DEF ToFront, P
  <1> QED
    BY <1>3, <1>4

\* A new record pushes another out only when the list is full of others.
LEMMA PushedOut ==
    ASSUME NEW T \in SUBSET TerminalRecords, Ranked(T), Once(T), NEW r \in TerminalRecords,
           \A q \in T : q.job # r.job
    PROVE  LET N == Newest(PushFront(T, r), TerminalCap) IN
           /\ \A q \in T : Kept(q, N) \/ Crowd(T, N, q.job)
           /\ Kept(r, N)
           /\ \A u \in N : (u.job = r.job /\ u.at = r.at) \/ u.job \in JobsOf(T)
  <1> DEFINE P == PushFront(T, r)
             N == Newest(P, TerminalCap)
             first == [r EXCEPT !.pos = 0]
             f == [q \in T |-> [q EXCEPT !.pos = @ + 1]]
  <1>0. TerminalCap \in Nat \ {0}
    BY JobServiceAssumption
  <1>1. \A q \in T : f[q].job = q.job /\ f[q].at = q.at
    BY DEF TerminalRecords
  <1>2. first.job = r.job /\ first.at = r.at
    BY DEF TerminalRecords
  <1>3. P = {f[q] : q \in T} \cup {first}
    BY DEF PushFront
  <1>4. /\ P \in SUBSET TerminalRecords /\ IsFiniteSet(P) /\ Once(P)
        /\ first \in P /\ Ahead(P, first) = {}
    BY PushFrontRecords DEF Ranked
  <1> HIDE DEF f, first, P
  <1>5. N \in SUBSET P /\ IsFiniteSet(N) /\ first \in N
    <2>1. first \in N
      BY <1>0, <1>4, FS_EmptySet DEF Newest
    <2> QED
      BY <1>4, <2>1, FS_Subset DEF Newest
  <1>6. Kept(r, N)
    BY <1>2, <1>5 DEF Kept
  <1>7. \A u \in N : (u.job = r.job /\ u.at = r.at) \/ u.job \in JobsOf(T)
    BY <1>1, <1>2, <1>3, <1>5 DEF JobsOf
  <1>8. ASSUME NEW q \in T, f[q] \notin N PROVE Crowd(T, N, q.job)
    <2> DEFINE p == f[q]
               A == Ahead(P, p)
               B == (JobsOf(T) \cup JobsOf(N)) \ {q.job}
               g == [a \in A |-> a.job]
    <2>1. p \in P /\ p.job = q.job
      BY <1>1, <1>3
    <2>2. IsFiniteSet(A) /\ A \in SUBSET P /\ p \notin A
      <3>1. p.pos \in Nat
        BY <1>4, <2>1 DEF TerminalRecords
      <3> QED
        BY <1>4, <3>1, FS_Subset DEF Ahead
    <2>3. ~(Cardinality(A) < TerminalCap)
      BY <1>8, <2>1 DEF Newest
    <2>4. IsFiniteSet(B)
      <3>1. IsFiniteSet(T)
        BY DEF Ranked
      <3>2. IsFiniteSet(JobsOf(T) \cup JobsOf(N))
        BY <1>5, <3>1, JobsFinite, FS_Union
      <3> QED
        BY <3>2, FS_Subset
    <2>5. \A a \in A : a.job \in B
      <3> SUFFICES ASSUME NEW a \in A PROVE a.job \in B
        OBVIOUS
      <3>1. a \in P /\ a # p
        BY <2>2
      <3>2. a.job # q.job
        BY <1>4, <2>1, <3>1 DEF Once
      <3>3. r.job \in JobsOf(N)
        BY <1>2, <1>5 DEF JobsOf
      <3>4. a.job \in JobsOf(T) \/ a.job = r.job
        BY <1>1, <1>2, <1>3, <3>1 DEF JobsOf
      <3> QED
        BY <3>2, <3>3, <3>4
    <2>6. \A a, b \in A : a.job = b.job => a = b
      BY <1>4, <2>2 DEF Once
    <2> HIDE DEF A, B, p
    <2>7. g \in Injection(A, B)
      BY <2>5, <2>6 DEF Injection, IsInjective
    <2>8. Cardinality(A) <= Cardinality(B)
      BY <2>4, <2>7, FS_Injection
    <2>9. Cardinality(A) \in Nat /\ Cardinality(B) \in Nat
      BY <2>2, <2>4, FS_CardinalityType
    <2>10. Cardinality(B) >= TerminalCap
      BY <1>0, <2>3, <2>8, <2>9
    <2> QED
      BY <2>10 DEF Crowd, B
  <1>9. \A q \in T : Kept(q, N) \/ Crowd(T, N, q.job)
    BY <1>1, <1>8 DEF Kept
  <1> HIDE DEF N
  <1> QED
    BY <1>6, <1>7, <1>9 DEF N, P

\* What is on record after an end: the end itself, and jobs that were before.
Fresh(s, t, time) == \A u \in t.terminals : u.at = time \/ u.job \in JobsOf(s.terminals)

\* Every end of a live job is noted, and drops a record only from a full list.
LEMMA StopAsFate ==
    ASSUME NEW s, Typed(s), s.job \in Jobs, s.state \in Live, Records(s),
           NEW st \in TerminalStates, NEW err \in ErrorCodes, NEW x \in Contexts
    PROVE  LET t == StopAs(s, st, err, x) IN
           /\ First(s, t, x.now) /\ Later(s, t, x.now) /\ Fresh(s, t, x.now)
           /\ Typed(t) /\ t.state \notin Live /\ t.job = s.job
  <1> DEFINE e == Disable(s.eng, x.off)
             stopped == [s EXCEPT !.eng = e]
             t == StopAs(s, st, err, x)
  <1>1. e \in Engine
    BY DisableType DEF Typed, Service, Contexts
  <1>2. PICK w \in TerminalStates, c \in ErrorCodes : t = RecordTerminal(stopped, w, c, x)
    BY EndCodes DEF StopAs
  <1> HIDE DEF e
  <1>3. Typed(stopped) /\ stopped.job = s.job /\ stopped.terminals = s.terminals
    BY <1>1 DEF Typed, Service
  <1>4. Typed(t) /\ t.state \in TerminalStates /\ t.job = s.job
    BY StopAsProps
  <1> HIDE DEF stopped, t
  <1> DEFINE record == [job |-> stopped.job.id, state |-> w, at |-> x.now,
                        out |-> stopped.eng.out, err |-> c, pos |-> 0]
             N == Newest(PushFront(stopped.terminals, record), TerminalCap)
  <1>5. t.terminals = N
    <2> DEFINE evicted == {r.job : r \in PushFront(stopped.terminals, record) \ N}
               held == {u \in stopped.retained \cup {[job |-> stopped.job, arm |-> stopped.arm]} :
                          u.job.id \notin evicted}
               v == [stopped EXCEPT !.state = w, !.terminals = N, !.retained = held]
    <2>1. t = ReleasePending(v)
      BY <1>2 DEF RecordTerminal
    <2> HIDE DEF record, N, held
    <2>2. v.terminals = N /\ DropOwner(v).terminals = N
      BY <1>3 DEF Typed, Service, DropOwner
    <2> QED
      BY <2>1, <2>2 DEF ReleasePending
  <1>6. /\ record \in TerminalRecords /\ record.job = s.job.id /\ record.at = x.now
        /\ s.terminals \in SUBSET TerminalRecords
    BY <1>3 DEF TerminalRecords, JobIds, Contexts, Typed, Service, Engine
  <1> HIDE DEF record
  <1>7. \A q \in s.terminals : q.job # record.job
    BY <1>6 DEF Records
  <1>8. /\ \A q \in s.terminals : Kept(q, N) \/ Crowd(s.terminals, N, q.job)
        /\ Kept(record, N)
        /\ \A u \in N : (u.job = record.job /\ u.at = record.at) \/ u.job \in JobsOf(s.terminals)
    BY <1>3, <1>6, <1>7, PushedOut DEF Records
  <1> HIDE DEF N
  <1>9. Noted(s, t, x.now) /\ Fresh(s, t, x.now)
    BY <1>5, <1>6, <1>8 DEF Noted, Fresh, Kept
  <1>10. Fate(s, t, x.now)
    BY <1>5, <1>8, <1>9 DEF Fate
  <1>11. t.state \notin Live
    BY <1>4 DEF TerminalStates, Live
  <1> QED
    BY <1>4, <1>9, <1>10, <1>11 DEF First, Later, t

\* prune_terminals drops what has expired and nothing else.
LEMMA PruneTerminalsIdles ==
    ASSUME NEW s, Sound(s), NEW x \in Contexts
    PROVE  LET t == PruneTerminals(s, x) IN
           /\ Idles(s, t, x.now) /\ (t.state \in Live => s.state \in Live)
  <1> DEFINE expired == {r \in s.terminals : x.now - r.at >= TerminalTtl}
             live == s.terminals \ expired
             held == {u \in s.retained : \E r \in live : r.job = u.job.id}
             pruned == [s EXCEPT !.terminals = Compact(live), !.retained = held]
             t == PruneTerminals(s, x)
  <1>1. t = pruned \/ (t = ClearJob(pruned) /\ s.state \in Ended)
    BY DEF PruneTerminals, Ended
  <1>2. live \in SUBSET TerminalRecords /\ IsFiniteSet(live)
    BY FS_Subset DEF Sound, Typed, Service
  <1>3. (\A r \in live : Kept(r, Compact(live))) /\ JobsOf(Compact(live)) \subseteq JobsOf(live)
    BY <1>2, MovesKeep
  <1>4. JobsOf(live) \subseteq JobsOf(s.terminals)
    BY DEF JobsOf
  <1>5. \A r \in s.terminals : r \in live \/ Aged(r, x.now)
    BY DEF Aged
  <1> HIDE DEF live, held, expired
  <1>6. /\ pruned.terminals = Compact(live) /\ pruned.state = s.state /\ pruned.job = s.job
        /\ ClearJob(pruned).terminals = Compact(live) /\ ClearJob(pruned).state = "EMPTY"
    BY DEF Sound, Typed, Service, ClearJob
  <1> HIDE DEF pruned, t
  <1>7. t.terminals = Compact(live)
    BY <1>1, <1>6
  <1>8. (t.state = s.state /\ t.job = s.job) \/ (t.state = "EMPTY" /\ s.state \notin Executing)
    BY <1>1, <1>6 DEF Ended, Executing
  <1> QED
    BY <1>3, <1>4, <1>5, <1>7, <1>8 DEF Idles, Live, t

-------------------------------------------------------------------------------
(* The calls. *)

\* What an end has noted is still there once the list has been pruned.
LEMMA IdlesAfterEnd ==
    ASSUME NEW s, NEW a, NEW d, NEW time \in Nat,
           IsFiniteSet(s.terminals), IsFiniteSet(d.terminals),
           Fate(s, a, time), Fresh(s, a, time), Idles(a, d, time),
           s.state \notin Executing, d.state \notin Live
    PROVE  First(s, d, time)
  <1>1. \A u \in a.terminals : u.at = time => ~Aged(u, time)
    BY JobServiceAssumption DEF Aged
  <1>2. JobsOf(a.terminals) \subseteq JobsOf(s.terminals) \cup JobsOf(d.terminals)
    <2> SUFFICES ASSUME NEW u \in a.terminals, u.job \notin JobsOf(s.terminals)
                 PROVE  u.job \in JobsOf(d.terminals)
      BY DEF JobsOf
    <2>1. u.at = time
      BY DEF Fresh
    <2>2. Kept(u, d.terminals)
      BY <1>1, <2>1 DEF Idles
    <2> QED
      BY <2>2 DEF Kept, JobsOf
  <1>3. ASSUME NEW r \in s.terminals, ~Aged(r, time)
        PROVE  Kept(r, d.terminals) \/ Crowd(s.terminals, d.terminals, r.job)
    <2>1. CASE Kept(r, a.terminals)
      <3>1. PICK q \in a.terminals : q.job = r.job /\ q.at = r.at
        BY <2>1 DEF Kept
      <3>2. Kept(q, d.terminals)
        BY <1>3, <3>1 DEF Idles, Aged
      <3> QED
        BY <3>1, <3>2 DEF Kept
    <2>2. CASE Crowd(s.terminals, a.terminals, r.job)
      <3>1. JobsOf(s.terminals) \cup JobsOf(a.terminals)
              \subseteq JobsOf(s.terminals) \cup JobsOf(d.terminals)
        BY <1>2
      <3> QED
        BY <2>2, <3>1, CrowdWider
    <2> QED
      BY <1>3, <2>1, <2>2 DEF Fate
  <1>4. Fate(s, d, time)
    BY <1>3 DEF Fate
  <1> QED
    BY <1>4 DEF First

\* expire_resources ends a loaded job, or records nothing.
LEMMA ExpireResourcesFate ==
    ASSUME NEW s, Sound(s), Records(s), NEW x \in Contexts
    PROVE  LET t == ExpireResources(s, x) IN
           \/ Idles(s, t, x.now) /\ t.state = s.state
           \/ /\ Fate(s, t, x.now) /\ Fresh(s, t, x.now)
              /\ s.state \notin Executing /\ t.state \notin Live
  <1> DEFINE stopped == StopAs(s, "ABORTED", "NONE", x)
             marked == [s EXCEPT !.owner.release = TRUE]
             t == ExpireResources(s, x)
  <1>1. /\ marked.terminals = s.terminals /\ marked.job = s.job /\ marked.state = s.state
        /\ DropOwner(s).terminals = s.terminals /\ DropOwner(s).job = s.job
        /\ DropOwner(s).state = s.state
    BY DEF Sound, Typed, Service, DropOwner
  <1>2. CASE s.state = "LOADED" /\ t # s
    <2>1. Typed(s) /\ s.job \in Jobs /\ s.state \in Live
      BY <1>2 DEF Sound, Live, Typed, Service
    <2>2. "ABORTED" \in TerminalStates /\ "NONE" \in ErrorCodes
      BY EndCodes
    <2>3. /\ Fate(s, stopped, x.now) /\ Fresh(s, stopped, x.now)
          /\ Typed(stopped) /\ stopped.state \notin Live
      BY <2>1, <2>2, StopAsFate DEF First
    <2>4. t = DropOwner(stopped) \/ t = DropOwner(ClearJob(stopped))
      BY <1>2 DEF ExpireResources
    <2> HIDE DEF stopped, t
    <2>5. t.terminals = stopped.terminals /\ t.state \in {stopped.state, "EMPTY"}
      BY <2>3, <2>4 DEF Typed, Service, DropOwner, ClearJob
    <2>6. t.state \notin Live /\ s.state \notin Executing
      BY <1>2, <2>3, <2>5 DEF Live, Executing
    <2> QED
      BY <2>3, <2>5, <2>6 DEF Fate, Fresh, t
  <1>3. CASE ~(s.state = "LOADED" /\ t # s)
    <2>1. t = s \/ t = marked \/ t = DropOwner(s)
      BY <1>3 DEF ExpireResources
    <2> HIDE DEF marked, t
    <2>2. t.terminals = s.terminals /\ t.job = s.job /\ t.state = s.state
      BY <1>1, <2>1
    <2> QED
      BY <2>2, FrameFate DEF t
  <1> QED
    BY <1>2, <1>3

\* The prologue of every request and of poll().
LEMMA RefreshFirst ==
    ASSUME NEW s, Sound(s), Records(s), NEW x \in Contexts
    PROVE  First(s, Refresh(s, x), x.now)
  <1> DEFINE a == ExpireResources(s, x)
             b == PruneReplay(a, x)
             c == PruneTerminals(b, x)
             d == PruneSessions(c, x)
  <1>1. Refresh(s, x) = d
    BY DEF Refresh
  <1>2. Sound(a)
    BY ExpireResourcesKeeps DEF Keeps
  <1>3. \/ Idles(s, a, x.now) /\ a.state = s.state
        \/ /\ Fate(s, a, x.now) /\ Fresh(s, a, x.now)
           /\ s.state \notin Executing /\ a.state \notin Live
    BY ExpireResourcesFate
  <1> HIDE DEF a
  <1>4. Sound(b) /\ Alike(b, a)
    <2>1. Sound(b)
      BY <1>2, PruneReplayKeeps DEF Keeps
    <2> QED
      BY <1>2, <2>1 DEF PruneReplay, Sound, Typed, Service, Alike
  <1> HIDE DEF b
  <1>5. Sound(c) /\ Idles(b, c, x.now) /\ (c.state \in Live => b.state \in Live)
    BY <1>4, PruneTerminalsKeeps, PruneTerminalsIdles DEF Keeps
  <1> HIDE DEF c
  <1>6. Alike(c, d)
    BY <1>5 DEF PruneSessions, Sound, Typed, Service, Alike
  <1>7. IsFiniteSet(d.terminals) /\ IsFiniteSet(s.terminals) /\ x.now \in Nat
    BY <1>5, <1>6 DEF Alike, Sound, Typed, Contexts
  <1> HIDE DEF d
  <1>8. Idles(a, d, x.now) /\ (d.state \in Live => a.state \in Live)
    <2>1. Idles(a, d, x.now)
      BY <1>4, <1>5, <1>6, AlikeFate
    <2> QED
      BY <1>4, <1>5, <1>6, <2>1 DEF Alike
  <1>9. First(s, d, x.now)
    <2>1. CASE Idles(s, a, x.now)
      BY <1>8, <2>1, IdlesTwice, IdlesFirst
    <2>2. CASE /\ Fate(s, a, x.now) /\ Fresh(s, a, x.now)
               /\ s.state \notin Executing /\ a.state \notin Live
      BY <1>7, <1>8, <2>2, IdlesAfterEnd
    <2> QED
      BY <1>3, <2>1, <2>2
  <1> QED
    BY <1>1, <1>9

\* The report of the engine about a running job.
LEMMA SettleFate ==
    ASSUME NEW s0, Sound(s0), s0.state = "RUNNING", Records(s0), NEW x \in Contexts
    PROVE  LET t == Settle(s0, x) IN First(s0, t, x.now) /\ Later(s0, t, x.now)
  <1> DEFINE t == Settle(s0, x)
  <1>1. PICK arm \in Arms : /\ Sound([s0 EXCEPT !.arm = arm])
                            /\ t \in Reported([s0 EXCEPT !.arm = arm], x)
    BY SettleCases
  <1> DEFINE s == [s0 EXCEPT !.arm = arm]
  <1>2. Alike(s, s0) /\ s.retained = s0.retained
    BY DEF Sound, Typed, Service, Alike
  <1>3. Sound(s) /\ t \in Reported(s, x)
    BY <1>1
  <1> HIDE DEF s, t
  <1>4. Records(s) /\ s.state \in Live
    BY <1>2, FrameRecords DEF Alike, Live
  <1>5. Typed(s) /\ s.job \in Jobs
    BY <1>3, <1>4 DEF Sound, Typed, Service
  <1>6. First(s, t, x.now) /\ Later(s, t, x.now)
    <2>1. CASE t = s
      BY <2>1, FrameFate
    <2>2. CASE t # s
      <3>1. \E st \in TerminalStates, err \in ErrorCodes : t = StopAs(s, st, err, x)
        BY <1>3, <2>2, EndCodes DEF Reported
      <3> QED
        BY <1>4, <1>5, <3>1, StopAsFate
    <2> QED
      BY <2>1, <2>2
  <1>7. Alike(t, t)
    BY DEF Alike
  <1> QED
    BY <1>2, <1>6, <1>7, AlikeFate DEF t

\* poll() after its prologue.
LEMMA PollRefreshedFate ==
    ASSUME NEW s, Sound(s), Records(s), NEW x \in Contexts
    PROVE  LET t == PollRefreshed(s, x) IN
           First(s, t, x.now) /\ Later(s, t, x.now) /\ (t.state \in Live => s.state \in Live)
  <1> DEFINE run == [s EXCEPT !.state = "RUNNING"]
             t == PollRefreshed(s, x)
  <1>1. \/ t = s
        \/ t = Settle(s, x) /\ s.state = "RUNNING"
        \/ t = LaunchByService(s, x) /\ s.state = "ARMED"
        \/ t = Settle(run, x) /\ s.state = "ARMED"
    BY DEF PollRefreshed
  <1> HIDE DEF t
  <1>2. CASE t = s
    BY <1>2, FrameFate DEF t
  <1>3. CASE t = Settle(s, x) /\ s.state = "RUNNING"
    BY <1>3, SettleFate DEF Live, t
  <1>4. CASE t = Settle(run, x) /\ s.state = "ARMED"
    <2>1. /\ Sound(run) /\ run.state = "RUNNING" /\ run.job = s.job
          /\ run.terminals = s.terminals /\ run.retained = s.retained
      BY <1>4 DEF Sound, Typed, Service, States, Live
    <2> HIDE DEF run
    <2>2. Records(run)
      BY <1>4, <2>1, FrameRecords DEF Live
    <2>3. First(run, t, x.now) /\ Later(run, t, x.now)
      BY <1>4, <2>1, <2>2, SettleFate
    <2>4. First(s, t, x.now) /\ Later(s, t, x.now)
      BY <1>4, <2>1, <2>3 DEF First, Later, Fate, Idles, Noted, Executing, Live
    <2> QED
      BY <1>4, <2>4 DEF Live, t
  <1>5. CASE t = LaunchByService(s, x) /\ s.state = "ARMED"
    <2> DEFINE begun == Begin(s.eng, s.job, x.now, NoCond, x.start)
               tried == [s EXCEPT !.eng = begun.eng]
               go    == [s EXCEPT !.eng = begun.eng, !.arm.launch = x.now, !.state = "RUNNING"]
    <2>1. /\ Typed(tried) /\ tried.state = "ARMED" /\ tried.job = s.job
          /\ Sound(go) /\ go.state = "RUNNING" /\ go.job = s.job
          /\ \/ t = s
             \/ t = StopAs(s, "MISSED", "MISSED_START", x)
             \/ t = StopAs(tried, "FAILED", "DEVICE_FAULT", x)
             \/ t = Settle(go, x)
      BY <1>5, LaunchCases
    <2>2. /\ tried.terminals = s.terminals /\ tried.retained = s.retained
          /\ go.terminals = s.terminals /\ go.retained = s.retained
      BY DEF Sound, Typed, Service
    <2>3. Typed(s) /\ s.job \in Jobs
      BY <1>5 DEF Sound, Typed, Service, Live
    <2> HIDE DEF begun, tried, go
    <2>4. Records(tried) /\ Records(go)
      BY <1>5, <2>1, <2>2, FrameRecords DEF Live
    <2>5. CASE t = s
      BY <2>5, FrameFate DEF t
    <2>6. CASE t = StopAs(s, "MISSED", "MISSED_START", x)
      BY <1>5, <2>3, <2>6, EndCodes, StopAsFate DEF Live, t
    <2>7. CASE t = StopAs(tried, "FAILED", "DEVICE_FAULT", x)
      <3>1. First(tried, t, x.now) /\ Later(tried, t, x.now) /\ t.state \notin Live
        BY <2>1, <2>3, <2>4, <2>7, EndCodes, StopAsFate DEF Live
      <3>2. Alike(tried, s) /\ Alike(t, t)
        BY <1>5, <2>1, <2>2 DEF Alike
      <3> QED
        BY <3>1, <3>2, AlikeFate DEF t
    <2>8. CASE t = Settle(go, x)
      <3>1. First(go, t, x.now) /\ Later(go, t, x.now)
        BY <2>1, <2>4, <2>8, SettleFate
      <3>2. First(s, t, x.now) /\ Later(s, t, x.now)
        BY <1>5, <2>1, <2>2, <3>1 DEF First, Later, Fate, Idles, Noted, Executing, Live
      <3> QED
        BY <1>5, <3>2 DEF Live, t
    <2> QED
      BY <2>1, <2>5, <2>6, <2>7, <2>8
  <1> QED
    BY <1>1, <1>2, <1>3, <1>4, <1>5

\* poll() may come first in a call.
LEMMA PollServiceFirst ==
    ASSUME NEW s, Sound(s), Records(s), NEW x \in Contexts
    PROVE  First(s, PollService(s, x), x.now)
  <1> DEFINE m == Refresh(s, x)
             t == PollRefreshed(m, x)
  <1>1. Sound(m) /\ Records(m) /\ First(s, m, x.now)
    BY RefreshKeeps, RefreshRecords, RefreshFirst DEF Keeps
  <1>2. t = PollService(s, x)
    BY DEF PollService
  <1>3. IsFiniteSet(s.terminals) /\ IsFiniteSet(t.terminals)
    BY <1>2, PollServiceKeeps DEF Keeps, Sound, Typed
  <1> HIDE DEF m
  <1>4. First(m, t, x.now) /\ Later(m, t, x.now) /\ (t.state \in Live => m.state \in Live)
    BY <1>1, PollRefreshedFate
  <1> HIDE DEF t
  <1> QED
    BY <1>1, <1>2, <1>3, <1>4, FirstTwice

\* A refusal or a success answers with the service it is given.
LEMMA AnswerFate ==
    ASSUME NEW s, NEW t, NEW time, Later(s, t, time), NEW r
    PROVE  Later(s, Success(t, r).s, time) /\ \A err : Later(s, Reject(t, r, err).s, time)
  BY DEF Success, Reject

\* Doing nothing is a later part.
LEMMA NothingLater ==
    ASSUME NEW s, NEW time
    PROVE  Later(s, s, time)
  BY FrameFate

\* A repeated LOAD or ARM is answered from the record and drops none.
LEMMA TouchTerminalLater ==
    ASSUME NEW s, Sound(s), NEW id, NEW time
    PROVE  Later(s, TouchTerminal(s, id), time)
  <1> DEFINE t == TouchTerminal(s, id)
  <1>1. t.state = s.state /\ t.job = s.job
    BY TouchTerminalFrame
  <1>2. \A r \in s.terminals : Kept(r, t.terminals)
    <2>1. s.terminals \in SUBSET TerminalRecords /\ IsFiniteSet(s.terminals)
      BY DEF Sound, Typed, Service
    <2>2. CASE \E r \in s.terminals : r.job = id
      <3> DEFINE q == CHOOSE r \in s.terminals : r.job = id
                 U == ToFront(s.terminals, q)
      <3>1. q \in s.terminals
        BY <2>2
      <3>2. t = [s EXCEPT !.terminals = U]
        BY <2>2 DEF TouchTerminal
      <3> HIDE DEF q
      <3>3. \A r \in s.terminals : Kept(r, U)
        BY <2>1, <3>1, MovesKeep
      <3> HIDE DEF U, t
      <3>4. t.terminals = U
        BY <3>2 DEF Sound, Typed, Service
      <3> QED
        BY <3>3, <3>4
    <2>3. CASE ~\E r \in s.terminals : r.job = id
      <3>1. t.terminals = s.terminals
        BY <2>3 DEF TouchTerminal, Sound, Typed, Service
      <3> QED
        BY <3>1 DEF Kept
    <2> QED
      BY <2>2, <2>3
  <1> HIDE DEF t
  <1> QED
    BY <1>1, <1>2 DEF Later, Fate, t

\* CLAIM, RENEW and RELEASE leave the records alone.
LEMMA OwnershipLater ==
    ASSUME NEW s, Sound(s), NEW r, NEW x, NEW time
    PROVE  /\ Later(s, DoClaim(s, r, x).s, time) /\ Later(s, DoRenew(s, r, x).s, time)
           /\ Later(s, DoRelease(s, r).s, time)
  <1> DEFINE o == [id |-> r.body.owner, session |-> r.session, principal |-> r.principal,
                   expires |-> x.now + r.body.lease, release |-> FALSE]
             t == [s EXCEPT !.eng = CalibrationBoundary(@), !.owner = o]
             u == [s EXCEPT !.owner.expires = x.now + r.body.lease]
             v == DropOwner(ClearJob(s))
  <1>1. DoClaim(s, r, x).s = s \/ DoClaim(s, r, x).s = t
    BY DEF DoClaim, Reject, Success
  <1>2. DoRenew(s, r, x).s = s \/ DoRenew(s, r, x).s = u
    BY DEF DoRenew, Reject, Success
  <1>3. DoRelease(s, r).s = s \/ (DoRelease(s, r).s = v /\ s.state \notin Executing)
    BY DEF DoRelease, Reject, Success, Executing
  <1>4. /\ t.terminals = s.terminals /\ t.state = s.state /\ t.job = s.job
        /\ u.terminals = s.terminals /\ u.state = s.state /\ u.job = s.job
        /\ v.terminals = s.terminals
    BY DEF Sound, Typed, Service, DropOwner, ClearJob
  <1> HIDE DEF t, u, v
  <1> QED
    BY <1>1, <1>2, <1>3, <1>4, FrameFate

\* LOAD leaves the records alone, or moves one.
LEMMA DoLoadLater ==
    ASSUME NEW s, Sound(s), NEW r, WellFormed(r), r.op = "LOAD", NEW x \in Contexts, NEW time
    PROVE  Later(s, DoLoad(s, r, x).s, time)
  <1> DEFINE d == DoLoad(s, r, x)
  <1>1. Loaded(s, r, d)
    BY LoadCases
  <1> HIDE DEF d
  <1>2. ASSUME NEW e, Admitted(s, r, e, d) PROVE Later(s, d.s, time)
    <2>1. d.s = [s EXCEPT !.eng = e] \/ d.s = [s EXCEPT !.eng = e, !.job = r.body.job,
                                                        !.arm = NoArm, !.state = "LOADED"]
      BY <1>2 DEF Admitted, Reject, Success
    <2>2. d.s.terminals = s.terminals
      BY <2>1 DEF Sound, Typed, Service
    <2>3. s.state \notin Executing
      BY <1>2 DEF Admitted
    <2> QED
      BY <2>2, <2>3, FrameFate
  <1> QED
    BY <1>1, <1>2, AnswerFate, NothingLater, TouchTerminalLater DEF Loaded, d

\* ARM moves a record, arms the loaded job or records its failure.
LEMMA DoArmLater ==
    ASSUME NEW s, Sound(s), Records(s), NEW r, WellFormed(r), r.op = "ARM", NEW x \in Contexts
    PROVE  Later(s, DoArm(s, r, x).s, x.now)
  <1>1. \/ \E err : DoArm(s, r, x) = Reject(s, r, err)
        \/ DoArm(s, r, x) = Success(TouchTerminal(s, r.body.job), r)
        \/ DoArm(s, r, x) = Success(s, r)
        \/ DoArm(s, r, x) = ScheduleJob(s, r, x) /\ s.state = "LOADED"
    BY DEF DoArm
  <1>2. ASSUME s.state = "LOADED" PROVE Later(s, ScheduleJob(s, r, x).s, x.now)
    <2> DEFINE refused == RefusedBy(s, r, x)
               failed == StopAs(refused, "FAILED", "DEVICE_FAULT", x)
               d == ScheduleJob(s, r, x)
    <2>1. d.s = ArmedBy(s, r, x) \/ d.s = ArmedIn(s, r, x) \/ d.s = failed
      BY ScheduleCases DEF Success, Reject
    <2>2. /\ ArmedBy(s, r, x).terminals = s.terminals /\ ArmedIn(s, r, x).terminals = s.terminals
          /\ refused.terminals = s.terminals /\ refused.retained = s.retained
          /\ refused.job = s.job /\ refused.state = "ARMED"
      BY DEF ArmedBy, ArmedIn, RefusedBy, Sound, Typed, Service
    <2>3. Typed(refused) /\ s.job \in Jobs
      BY <1>2, ArmTypes DEF Sound, Typed, Service, Live
    <2> HIDE DEF refused, d
    <2>4. Records(refused)
      BY <1>2, <2>2, FrameRecords DEF Live
    <2>5. Later(refused, failed, x.now)
      BY <2>2, <2>3, <2>4, EndCodes, StopAsFate DEF Live
    <2> HIDE DEF failed
    <2>6. Later(s, failed, x.now)
      BY <1>2, <2>2, <2>5 DEF Later, Fate, Executing, Live
    <2> QED
      BY <1>2, <2>1, <2>2, <2>6, FrameFate DEF Executing, d
  <1> QED
    BY <1>1, <1>2, AnswerFate, NothingLater, TouchTerminalLater

\* ABORT records the end of a live job.
LEMMA AbortJobLater ==
    ASSUME NEW s, Sound(s), Records(s), NEW r, NEW id, NEW x \in Contexts
    PROVE  Later(s, AbortJob(s, r, id, x).s, x.now)
  <1> DEFINE stopped == StopAs(s, "ABORTED", "NONE", x)
  <1>1. \/ \E err : AbortJob(s, r, id, x) = Reject(s, r, err)
        \/ AbortJob(s, r, id, x) = Success(s, r)
        \/ /\ s.job # NoJob /\ s.state \notin TerminalStates
           /\ \/ AbortJob(s, r, id, x) = Success(stopped, r)
              \/ \E err : AbortJob(s, r, id, x) = Reject(stopped, r, err)
    BY DEF AbortJob, TerminalStates
  <1>2. ASSUME s.job # NoJob, s.state \notin TerminalStates PROVE Later(s, stopped, x.now)
    <2>1. Typed(s) /\ s.job \in Jobs /\ s.state \in Live
      BY <1>2 DEF Sound, Typed, Service, States, Live, TerminalStates
    <2> QED
      BY <2>1, EndCodes, StopAsFate
  <1> HIDE DEF stopped
  <1> QED
    BY <1>1, <1>2, AnswerFate, NothingLater

\* So does every request that is served, replayed or refused.
LEMMA ServeLater ==
    ASSUME NEW s, Sound(s), Records(s), NEW r, WellFormed(r), NEW x \in Contexts
    PROVE  Later(s, Serve(s, r, x).s, x.now)
  <1> DEFINE done == Dispatch(s, r, x)
             d    == Serve(s, r, x)
  <1>1. Sound(done.s)
    BY DispatchObeys DEF Obeys
  <1>2. Later(s, done.s, x.now)
    <2>1. \/ done = Success(s, r) \/ \E err : done = Reject(s, r, err)
          \/ done = DoClaim(s, r, x) \/ done = DoRenew(s, r, x) \/ done = DoRelease(s, r)
          \/ done = DoLoad(s, r, x) /\ r.op = "LOAD"
          \/ done = DoArm(s, r, x) /\ r.op = "ARM"
          \/ done = AbortJob(s, r, r.body.job, x)
      BY DispatchCases
    <2> HIDE DEF done
    <2> QED
      BY <2>1, AnswerFate, NothingLater, OwnershipLater, DoLoadLater, DoArmLater, AbortJobLater
  <1>3. \E T : d.s \in {s, done.s, [s EXCEPT !.replay = T], [done.s EXCEPT !.replay = T]}
    <2>1. \/ d = done
          \/ d = Reject(s, r, "REQUEST_ID_REUSE")
          \/ \E hit \in Cached(s, r) :
               d = [s |-> [s EXCEPT !.replay = ToFront(@, hit)], reply |-> hit.reply]
          \/ d = [s |-> Remember(done.s, r, done.reply, x), reply |-> done.reply]
      BY ServeCases
    <2> HIDE DEF d, done
    <2>2. \A reply : \E T : Remember(done.s, r, reply, x) = [done.s EXCEPT !.replay = T]
      BY DEF Remember
    <2>3. CASE \E hit \in Cached(s, r) :
                 d = [s |-> [s EXCEPT !.replay = ToFront(@, hit)], reply |-> hit.reply]
      <3>1. PICK hit : d = [s |-> [s EXCEPT !.replay = ToFront(s.replay, hit)], reply |-> hit.reply]
        BY <2>3
      <3> DEFINE T == ToFront(s.replay, hit)
      <3>2. d.s = [s EXCEPT !.replay = T]
        BY <3>1
      <3> HIDE DEF T
      <3> QED
        BY <3>2
    <2>4. CASE d = [s |-> Remember(done.s, r, done.reply, x), reply |-> done.reply]
      <3>1. d.s = Remember(done.s, r, done.reply, x)
        BY <2>4
      <3>2. PICK T : Remember(done.s, r, done.reply, x) = [done.s EXCEPT !.replay = T]
        BY <2>2
      <3> QED
        BY <3>1, <3>2
    <2>5. CASE d = done \/ d = Reject(s, r, "REQUEST_ID_REUSE")
      BY <2>5 DEF Reject
    <2> QED
      BY <2>1, <2>3, <2>4, <2>5
  <1> HIDE DEF done, d
  <1>4. \A T : Alike(s, [s EXCEPT !.replay = T]) /\ Alike(done.s, [done.s EXCEPT !.replay = T])
    BY <1>1 DEF Sound, Typed, Service, Alike
  <1>5. Alike(s, s)
    BY DEF Alike
  <1>6. PICK T : d.s \in {s, done.s, [s EXCEPT !.replay = T], [done.s EXCEPT !.replay = T]}
    BY <1>3
  <1>7. Later(s, s, x.now)
    BY NothingLater
  <1>8. Alike(s, [s EXCEPT !.replay = T]) /\ Alike(done.s, [done.s EXCEPT !.replay = T])
    BY <1>4
  <1>9. Later(s, [s EXCEPT !.replay = T], x.now)
    BY <1>5, <1>7, <1>8, AlikeFate
  <1>10. Later(s, [done.s EXCEPT !.replay = T], x.now)
    BY <1>2, <1>5, <1>8, AlikeFate
  <1>11. Later(s, d.s, x.now)
    BY <1>2, <1>6, <1>7, <1>9, <1>10
  <1> QED
    BY <1>11 DEF d

\* A request, from its prologue to its reply.
LEMMA HandleOwnedFate ==
    ASSUME NEW s0, Sound(s0), Records(s0), NEW r, WellFormed(r), NEW x \in Contexts
    PROVE  Fate(s0, HandleOwned(s0, r, x).s, x.now)
  <1> DEFINE s == Refresh(s0, x)
             seen == SeeSession(s, r, x)
             d == HandleOwned(s0, r, x)
  <1>1. /\ Sound(s) /\ Sound(seen)
        /\ (\E err : d = Reject(s, r, err)) \/ d = Serve(seen, r, x)
    BY HandleCases
  <1>2. Records(s) /\ First(s0, s, x.now)
    BY RefreshRecords, RefreshFirst
  <1>3. IsFiniteSet(s0.terminals) /\ IsFiniteSet(d.s.terminals)
    BY HandleOwnedRecords DEF Records, Ranked
  <1> HIDE DEF s, d
  <1>4. Alike(seen, s) /\ seen.retained = s.retained
    BY <1>1 DEF SeeSession, Sound, Typed, Service, Alike
  <1> HIDE DEF seen
  <1>5. Records(seen)
    BY <1>2, <1>4, FrameRecords DEF Alike
  <1>6. Later(s, d.s, x.now)
    <2>1. CASE d = Serve(seen, r, x)
      <3>1. Later(seen, d.s, x.now)
        BY <1>1, <1>5, <2>1, ServeLater
      <3>2. Alike(d.s, d.s)
        BY DEF Alike
      <3> QED
        BY <1>4, <3>1, <3>2, AlikeFate
    <2>2. CASE \E err : d = Reject(s, r, err)
      BY <2>2, AnswerFate, NothingLater
    <2> QED
      BY <1>1, <2>1, <2>2
  <1> QED
    BY <1>2, <1>3, <1>6, FirstThenLater DEF d

\* A local abort after its poll.
LEMMA AbortPolledLater ==
    ASSUME NEW s, Sound(s), Records(s), NEW r, NEW x \in Contexts
    PROVE  Later(s, AbortPolled(s, r, x).s, x.now)
  <1> DEFINE a == AbortJob(s, r, s.job.id, x)
             d == AbortPolled(s, r, x)
  <1>1. Later(s, a.s, x.now)
    BY AbortJobLater
  <1>2. \/ d.s = s \/ d.s = a.s
        \/ d.s = DropOwner(a.s) /\ Sound(a.s)
        \/ d.s = DropOwner(s)
    BY AbortPolledCases
  <1> HIDE DEF a, d
  <1>3. Alike(s, DropOwner(s)) /\ (Sound(a.s) => Alike(a.s, DropOwner(a.s))) /\ Alike(s, s)
    BY DEF DropOwner, Sound, Typed, Service, Alike
  <1> QED
    BY <1>1, <1>2, <1>3, AlikeFate, NothingLater DEF d

\* The local abort.
LEMMA LocalAbortFate ==
    ASSUME NEW s, Sound(s), Records(s), NEW r, NEW x \in Contexts
    PROVE  Fate(s, AbortPolled(PollService(s, x), r, x).s, x.now)
  <1> DEFINE p == PollService(s, x)
             t == AbortPolled(p, r, x).s
  <1>1. Sound(p) /\ Records(p) /\ First(s, p, x.now)
    BY PollServiceKeeps, PollServiceRecords, PollServiceFirst DEF Keeps
  <1> HIDE DEF p
  <1>2. Records(t) /\ Later(p, t, x.now)
    BY <1>1, AbortPolledRecords, AbortPolledLater
  <1> HIDE DEF t
  <1>3. IsFiniteSet(s.terminals) /\ IsFiniteSet(t.terminals)
    BY <1>2 DEF Records, Ranked
  <1> QED
    BY <1>1, <1>2, <1>3, FirstThenLater DEF p, t

\* The interlock.
LEMMA LocalInhibitFate ==
    ASSUME NEW s, Sound(s), Records(s), NEW r, NEW x \in Contexts, NEW off2 \in BOOLEAN
    PROVE  Fate(s, LocalInhibitOf(s, r, x, off2).s, x.now)
  <1> DEFINE l == Latched(s)
             a == AbortPolled(PollService(l, x), r, x).s
             t == LocalInhibitOf(s, r, x, off2).s
  <1>1. Sound(a) /\ t = [a EXCEPT !.eng = Disable(@, off2)]
    BY LocalInhibitCases
  <1>2. Sound(l) /\ Records(l) /\ Alike(l, s)
    BY LatchedSound, FrameRecords DEF Alike
  <1> HIDE DEF l
  <1>3. Fate(l, a, x.now)
    BY <1>2, LocalAbortFate
  <1> HIDE DEF a
  <1>4. Alike(a, t)
    BY <1>1 DEF Sound, Typed, Service, Alike
  <1> QED
    BY <1>2, <1>3, <1>4, AlikeFate

\* Every step but a reset: one case for each action.
LEMMA NextFate ==
    ASSUME IInv, Recorded, Next
    PROVE  /\ now' \in {now, now + 1}
           /\ svc'.boot # svc.boot \/ Fate(svc, svc', now)
  <1>0. Sound(svc) /\ Records(svc)
    BY DEF IInv, Recorded
  <1>1. CASE Requests
    <2>1. PICK r : \E from \in Senders, x \in Contexts : Serves(from, r, x)
      BY <1>1, RequestsCases DEF IInv
    <2> QED
      BY <1>0, <2>1, HandleOwnedFate DEF Serves
  <1>2. CASE Poll
    <2>1. PICK x \in PollContexts : svc' = PollService(svc, x)
      BY <1>2 DEF Poll
    <2>2. First(svc, svc', now)
      BY <1>0, <2>1, PollContextType, PollServiceFirst
    <2> QED
      BY <1>2, <2>2 DEF Poll, First
  <1>3. CASE LocalAbort
    <2>1. PICK x \in PollContexts : svc' = LocalAbortOf(svc, [op |-> "LOCAL_ABORT"], x).s
      BY <1>3 DEF LocalAbort
    <2>2. svc' = AbortPolled(PollService(svc, x), [op |-> "LOCAL_ABORT"], x).s
      BY <2>1 DEF LocalAbortOf
    <2>3. x \in Contexts /\ x.now = now
      BY PollContextType
    <2>4. Fate(svc, svc', now)
      BY <1>0, <2>2, <2>3, LocalAbortFate
    <2> QED
      BY <1>3, <2>4 DEF LocalAbort
  <1>4. CASE LocalInhibit
    <2>1. PICK x \in PollContexts, off2 \in BOOLEAN :
            svc' = LocalInhibitOf(svc, [op |-> "INHIBIT"], x, off2).s
      BY <1>4 DEF LocalInhibit
    <2>2. x \in Contexts /\ x.now = now
      BY PollContextType
    <2>3. Fate(svc, svc', now)
      BY <1>0, <2>1, <2>2, LocalInhibitFate
    <2> QED
      BY <1>4, <2>3 DEF LocalInhibit
  <1>5. CASE Upkeep \/ FreezePair \/ Engine1
    BY <1>5, UpkeepCases, FrameFate
  <1>6. CASE Reset
    <2>1. PICK off \in BOOLEAN, fresh \in BOOLEAN : svc' = ResetOf(svc, off, fresh)
      BY <1>6 DEF Reset
    <2>2. svc'.boot = svc.boot + 1
      BY <1>0, <2>1, ResetEngine
    <2>3. svc.boot \in Nat
      BY <1>0 DEF Sound, Typed, Service
    <2> QED
      BY <1>6, <2>2, <2>3 DEF Reset
  <1>7. CASE SaveCorrection \/ Tick
    BY <1>7, FrameFate DEF SaveCorrection, Tick
  <1> QED
    BY <1>1, <1>2, <1>3, <1>4, <1>5, <1>6, <1>7 DEF Next

\* What has to be remembered is on record.
Followed == \A e \in ends : Kept(e, svc.terminals)

\* Every step keeps what has to be remembered.
LEMMA NextFollowed == IInv /\ Recorded /\ Followed /\ [HNext]_history => Followed'
  <1> SUFFICES ASSUME IInv, Recorded, Followed, [HNext]_history PROVE Followed'
    OBVIOUS
  <1>1. CASE HNext /\ svc'.boot # svc.boot
    BY <1>1 DEF HNext, Follow, Followed
  <1>2. CASE HNext /\ svc'.boot = svc.boot
    <2>1. now' \in {now, now + 1} /\ Fate(svc, svc', now) /\ now \in Nat
      BY <1>2, NextFate DEF HNext, IInv
    <2>2. ends' = {e \in ends : now' - e.at < TerminalTtl /\ ~Crowded(e.job)} \cup Finished
      BY <1>2 DEF HNext, Follow
    <2>3. ASSUME NEW e \in Finished PROVE Kept(e, svc'.terminals)
      BY <2>1, <2>3 DEF Finished, Fate, Noted, Kept
    <2>4. ASSUME NEW e \in ends, now' - e.at < TerminalTtl, ~Crowded(e.job)
          PROVE  Kept(e, svc'.terminals)
      <3>1. PICK r \in svc.terminals : r.job = e.job /\ r.at = e.at
        BY DEF Followed, Kept
      <3>2. r.at \in Nat /\ TerminalTtl \in Nat
        BY <3>1, JobServiceAssumption DEF IInv, Sound, Typed, Service, TerminalRecords
      <3>3. ~Aged(r, now)
        BY <2>1, <2>4, <3>1, <3>2 DEF Aged
      <3>4. ~Crowd(svc.terminals, svc'.terminals, r.job)
        BY <2>4, <3>1 DEF Crowd, Crowded
      <3>5. Kept(r, svc'.terminals)
        BY <2>1, <3>3, <3>4 DEF Fate
      <3> QED
        BY <3>1, <3>5 DEF Kept
    <2> QED
      BY <2>2, <2>3, <2>4 DEF Followed
  <1>3. CASE UNCHANGED history
    BY <1>3 DEF history, vars, Followed, Kept
  <1> QED
    BY <1>1, <1>2, <1>3

\* A job that has executed is on record, and neither a repeated LOAD and ARM
\* nor anybody else can send it again, until terminal_record_ttl has passed
\* since its end, the records of other jobs have filled the list, or the
\* device restarts (record_terminal and prune_terminals,
\* job_service.cpp:1012, 1104; LOAD and ARM of dispatch, 346, 476).
THEOREM SentOnce == HSpec => []MessageOnce
  <1>1. HInit => Followed
    BY DEF HInit, Followed
  <1>2. Recorded /\ Followed => MessageOnce
    <2> SUFFICES ASSUME Recorded, Followed PROVE MessageOnce
      OBVIOUS
    <2>1. SingleExecution /\ RecordsCoherent
      BY DEF Recorded, Records, SingleExecution, RecordsCoherent, Once, JobsOf, JobsHeld, Ended
    <2>2. \A e \in ends : \E r \in svc.terminals : r.job = e.job /\ r.at = e.at
      BY DEF Followed, Kept
    <2>3. NotAgain
      BY <2>1, <2>2 DEF NotAgain, SingleExecution
    <2> QED
      BY <2>1, <2>2, <2>3 DEF MessageOnce
  <1>3. IInv /\ Recorded /\ Followed /\ [HNext]_history => Followed'
    BY NextFollowed
  <1>4. HSpec => Spec
    <2>1. HInit => Init
      BY DEF HInit
    <2>2. [HNext]_history => [Next]_vars
      BY DEF HNext, history, vars
    <2> QED
      BY <2>1, <2>2, PTL DEF HSpec, Spec
  <1> QED
    BY <1>1, <1>2, <1>3, <1>4, RecordsKept, Soundness, PTL DEF HSpec

=============================================================================
