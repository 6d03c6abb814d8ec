------------------------ MODULE ProviderRegistryProofs ------------------------
(***************************************************************************)
(* For any number of providers, versions and tasks: the registry keeps its *)
(* type, loads one manifest at a time and never one it has cached, and     *)
(* implements the reads of FreshReads, which never go back.                *)
(***************************************************************************)
EXTENDS ProviderRegistry, TLAPS

Loading(t) == pc[t] \in {"loading", "loaded"}

\* The lock is what a load works under: the task that loads has it, and no entry
\* for its key came in behind its back.
LoadsUnderLock == \A t \in Tasks : Loading(t) => HoldsLock(t) /\ cached[key[t]] = 0

\* An entry is the newest revision that a reader may have seen ...
EntriesFresh == \A k \in Keys : /\ floor[k] <= stored[k]
                                /\ cached[k] # 0 => cached[k] = floor[k]

\* ... and so is what a load has read, or it is newer; nothing that the call of t has
\* read is left when it is an invalidation.
LoadsFresh == \A t \in Tasks :
    /\ pc[t] = "loaded" => /\ got[t] # 0
                           /\ floor[key[t]] <= got[t]
                           /\ got[t] <= stored[key[t]]
    /\ pc[t] = "invalidating" => got[t] = 0

RegistryInv == /\ RegistryTypeOK
               /\ LoadsUnderLock
               /\ EntriesFresh
               /\ LoadsFresh

LEMMA RegistryInitInv == RegistryInit => RegistryInv
  BY RegistryAssumption
  DEF RegistryInit, RegistryInv, RegistryTypeOK, LoadsUnderLock, EntriesFresh, LoadsFresh,
      Loading, Revisions

\* Two tasks do not hold the lock.
LEMMA OneHolder ==
  ASSUME NEW t, NEW u, HoldsLock(t), HoldsLock(u)
  PROVE  t = u
  BY DEF HoldsLock

\* A new waiter does not take the lock from its holder.
LEMMA EnqueueKeepsHolder ==
  ASSUME queue \in Seq(Tasks), NEW t \in Tasks, NEW u, HoldsLock(u),
         queue' = Append(queue, t)
  PROVE  HoldsLock(u)'
  BY DEF HoldsLock

\* While t holds the lock and does not load, no task loads.
LEMMA NobodyElseLoads ==
  ASSUME RegistryInv, NEW t \in Tasks, HoldsLock(t)
  PROVE  \A u \in Tasks \ {t} : ~Loading(u)
  BY OneHolder DEF RegistryInv, LoadsUnderLock

LEMMA LeaveTyped ==
  ASSUME RegistryTypeOK, NEW t \in Tasks, HoldsLock(t), Leave(t)
  PROVE  /\ pc' = [pc EXCEPT ![t] = "idle"]
         /\ key' = key
         /\ queue' \in Seq(Tasks)
  BY DEF Leave, HoldsLock, RegistryTypeOK

LEMMA UpsertInv ==
  ASSUME RegistryInv, NEW k \in Keys, UpsertManifest(k)
  PROVE  RegistryInv'
<1> USE RegistryAssumption
        DEF RegistryInv, RegistryTypeOK, UpsertManifest, Revisions
<1>1. RegistryTypeOK'
  OBVIOUS
<1>2. LoadsUnderLock'
  BY DEF LoadsUnderLock, Loading, HoldsLock
<1>3. EntriesFresh'
  BY DEF EntriesFresh
<1>4. LoadsFresh'
  BY DEF LoadsFresh
<1> QED
  BY <1>1, <1>2, <1>3, <1>4

LEMMA EnqueueInv ==
  ASSUME RegistryInv, NEW t \in Tasks, NEW k \in Keys,
         Enqueue(t, k, "missed") \/ Enqueue(t, k, "invalidating"),
         got' = [got EXCEPT ![t] = 0],
         UNCHANGED <<stored, cached, active, floor>>
  PROVE  RegistryInv'
<1> USE RegistryAssumption DEF RegistryInv, RegistryTypeOK, Enqueue, Revisions
<1>1. RegistryTypeOK'
  <2>1. got' \in [Tasks -> Revisions]
    OBVIOUS
  <2>2. queue' \in Seq(Tasks)
    <3>1. queue \in Seq(Tasks) /\ queue' = Append(queue, t)
      OBVIOUS
    <3> HIDE DEF RegistryInv, RegistryTypeOK, Enqueue, Revisions
    <3> QED
      BY <3>1
  <2>3. /\ pc' \in [Tasks -> {"idle", "missed", "loading", "loaded", "invalidating"}]
        /\ key' \in [Tasks -> Keys \cup {None}]
        /\ \A u \in Tasks : pc'[u] # "idle" \/ got'[u] # 0 => key'[u] \in Keys
    OBVIOUS
  <2> QED
    BY <2>1, <2>2, <2>3
<1>2. LoadsUnderLock'
  BY EnqueueKeepsHolder DEF LoadsUnderLock, Loading
<1>3. EntriesFresh'
  BY DEF EntriesFresh
<1>4. LoadsFresh'
  BY DEF LoadsFresh
<1> QED
  BY <1>1, <1>2, <1>3, <1>4

LEMMA GetInv ==
  ASSUME RegistryInv, NEW t \in Tasks, NEW k \in Keys, Get(t, k)
  PROVE  RegistryInv'
<1>1. CASE GetHit(t, k)
  <2> USE <1>1, RegistryAssumption DEF RegistryInv, RegistryTypeOK, GetHit, Revisions
  <2>1. RegistryTypeOK'
    OBVIOUS
  <2>2. LoadsUnderLock' /\ EntriesFresh'
    BY DEF LoadsUnderLock, EntriesFresh, Loading, HoldsLock
  <2>3. LoadsFresh'
    BY DEF LoadsFresh
  <2> QED
    BY <2>1, <2>2, <2>3
<1>2. CASE GetMiss(t, k)
  BY <1>2, EnqueueInv DEF GetMiss
<1> QED
  BY <1>1, <1>2 DEF Get

LEMMA GetActiveInv ==
  ASSUME RegistryInv, NEW t \in Tasks, NEW c \in Codes, GetActive(t, c)
  PROVE  RegistryInv'
<1>1. CASE active[c] # None /\ Get(t, <<c, active[c]>>)
  <2>1. <<c, active[c]>> \in Keys
    BY <1>1 DEF RegistryInv, RegistryTypeOK, Keys
  <2> QED
    BY <1>1, <2>1, GetInv
<1>2. CASE ~(active[c] # None /\ Get(t, <<c, active[c]>>))
  <2>1. /\ pc[t] = "idle"
        /\ got' = [got EXCEPT ![t] = 0]
        /\ UNCHANGED <<stored, cached, active, queue, pc, key, floor>>
    BY <1>2 DEF GetActive
  <2> USE <2>1, RegistryAssumption DEF RegistryInv, RegistryTypeOK, Revisions
  <2>2. RegistryTypeOK'
    OBVIOUS
  <2>3. LoadsUnderLock' /\ EntriesFresh'
    BY DEF LoadsUnderLock, EntriesFresh, Loading, HoldsLock
  <2>4. LoadsFresh'
    BY DEF LoadsFresh
  <2> QED
    BY <2>2, <2>3, <2>4
<1> QED
  BY <1>1, <1>2

\* A call that ends while it holds the lock and leaves the tables alone.
LEMMA ReturnInv ==
  ASSUME RegistryInv, NEW t \in Tasks, HoldsLock(t), Leave(t),
         NEW r \in Revisions, r # 0 => key[t] \in Keys,
         got' = [got EXCEPT ![t] = r],
         UNCHANGED <<stored, cached, active, floor>>
  PROVE  RegistryInv'
<1> USE DEF RegistryInv
<1>0. /\ pc' = [pc EXCEPT ![t] = "idle"]
      /\ key' = key
      /\ queue' \in Seq(Tasks)
  BY LeaveTyped
<1>1. RegistryTypeOK'
  BY <1>0 DEF RegistryTypeOK
<1>2. LoadsUnderLock'
  BY <1>0, NobodyElseLoads DEF LoadsUnderLock, Loading, RegistryTypeOK
<1>3. EntriesFresh'
  BY DEF EntriesFresh
<1>4. LoadsFresh'
  BY <1>0 DEF LoadsFresh, RegistryTypeOK
<1> QED
  BY <1>1, <1>2, <1>3, <1>4

LEMMA FoundInv ==
  ASSUME RegistryInv, NEW t \in Tasks, FoundUnderLock(t)
  PROVE  RegistryInv'
<1> DEFINE r == cached[key[t]]
<1>1. key[t] \in Keys /\ r \in Revisions
  BY DEF FoundUnderLock, RegistryInv, RegistryTypeOK
<1> QED
  BY <1>1, ReturnInv DEF FoundUnderLock

LEMMA StartLoadInv ==
  ASSUME RegistryInv, NEW t \in Tasks, StartLoad(t)
  PROVE  RegistryInv'
  BY DEF StartLoad, RegistryInv, RegistryTypeOK, LoadsUnderLock, EntriesFresh, LoadsFresh,
         Loading, HoldsLock

LEMMA LoaderReadsInv ==
  ASSUME RegistryInv, NEW t \in Tasks, LoaderReads(t)
  PROVE  RegistryInv'
<1> USE DEF RegistryInv, RegistryTypeOK, LoaderReads
<1>1. key[t] \in Keys
  OBVIOUS
<1>2. RegistryTypeOK'
  BY <1>1
<1>3. LoadsUnderLock' /\ EntriesFresh'
  BY DEF LoadsUnderLock, EntriesFresh, Loading, HoldsLock
<1>4. LoadsFresh'
  BY <1>1, RegistryAssumption DEF LoadsFresh, EntriesFresh, Revisions
<1> QED
  BY <1>2, <1>3, <1>4

LEMMA LoadEndsInv ==
  ASSUME RegistryInv, NEW t \in Tasks, LoadEnds(t)
  PROVE  RegistryInv'
<1> USE DEF RegistryInv, LoadEnds
<1> DEFINE k == key[t]
<1>1. k \in Keys /\ k[1] \in Codes /\ k[2] \in Versions /\ got[t] \in Revisions
  BY DEF RegistryTypeOK, Keys
<1>2. HoldsLock(t) /\ got[t] <= stored[k]
  BY DEF LoadsUnderLock, LoadsFresh, Loading
<1>3. /\ pc' = [pc EXCEPT ![t] = "idle"]
      /\ key' = key
      /\ queue' \in Seq(Tasks)
  BY <1>2, LeaveTyped
<1>4. RegistryTypeOK'
  BY <1>1, <1>3 DEF RegistryTypeOK, SetDefaultActive
<1>5. \A u \in Tasks : ~Loading(u)'
  BY <1>2, <1>3, NobodyElseLoads DEF Loading, RegistryTypeOK
<1>6. EntriesFresh'
  BY <1>1, <1>2 DEF EntriesFresh, RegistryTypeOK
<1>7. LoadsUnderLock' /\ LoadsFresh'
  BY <1>3, <1>5 DEF LoadsUnderLock, LoadsFresh, Loading, RegistryTypeOK
<1> QED
  BY <1>4, <1>6, <1>7

LEMMA RaisesInv ==
  ASSUME RegistryInv, NEW t \in Tasks, Raises(t)
  PROVE  RegistryInv'
<1>1. 0 \in Revisions
  BY RegistryAssumption DEF Revisions
<1> QED
  BY <1>1, ReturnInv DEF Raises

LEMMA DropEntryInv ==
  ASSUME RegistryInv, NEW t \in Tasks, DropEntry(t)
  PROVE  RegistryInv'
<1> USE DEF RegistryInv, DropEntry
<1>1. key[t] \in Keys
  BY DEF RegistryTypeOK
<1>2. /\ pc' = [pc EXCEPT ![t] = "idle"]
      /\ key' = key
      /\ queue' \in Seq(Tasks)
  BY LeaveTyped
<1>3. \A u \in Tasks : ~Loading(u)'
  BY <1>2, NobodyElseLoads DEF Loading, RegistryTypeOK
<1>4. RegistryTypeOK'
  BY <1>1, <1>2, RegistryAssumption DEF RegistryTypeOK, Revisions
<1>5. EntriesFresh'
  BY <1>1, RegistryAssumption DEF EntriesFresh, RegistryTypeOK, Revisions
<1>6. LoadsUnderLock' /\ LoadsFresh'
  BY <1>2, <1>3 DEF LoadsUnderLock, LoadsFresh, Loading, RegistryTypeOK
<1> QED
  BY <1>4, <1>5, <1>6

\* Every step keeps the invariant.
LEMMA RegistryNextInv == RegistryInv /\ [RegistryNext]_registryVars => RegistryInv'
<1> SUFFICES ASSUME RegistryInv, [RegistryNext]_registryVars
             PROVE  RegistryInv'
  OBVIOUS
<1>1. ASSUME NEW t \in Tasks, NEW k \in Keys, Invalidate(t, k)
      PROVE  RegistryInv'
  BY <1>1, EnqueueInv DEF Invalidate
<1>2. ASSUME NEW t \in Tasks, LockStep(t)
      PROVE  RegistryInv'
  BY <1>2, FoundInv, StartLoadInv, LoaderReadsInv, LoadEndsInv, RaisesInv, DropEntryInv
  DEF LockStep
<1>3. ASSUME NEW c \in Codes, NEW v \in Versions, SetActive(c, v)
      PROVE  RegistryInv'
  BY <1>3 DEF SetActive, RegistryInv, RegistryTypeOK, LoadsUnderLock, EntriesFresh,
              LoadsFresh, Loading, HoldsLock
<1>4. CASE UNCHANGED registryVars
  BY <1>4 DEF registryVars, RegistryInv, RegistryTypeOK, LoadsUnderLock, EntriesFresh,
              LoadsFresh, Loading, HoldsLock
<1> QED
  BY <1>1, <1>2, <1>3, <1>4, UpsertInv, GetInv, GetActiveInv DEF RegistryNext

\* The invariant of the proof holds always: the lock is what makes the cache fresh.
THEOREM RegistryInvariant == RegistrySpec => []RegistryInv
<1>1. RegistryInit => RegistryInv
  BY RegistryInitInv
<1>2. RegistryInv /\ [RegistryNext]_registryVars => RegistryInv'
  BY RegistryNextInv
<1> QED
  BY <1>1, <1>2, PTL DEF RegistrySpec

\* The cache, the lock and the calls keep their shape.
THEOREM RegistryTyped == RegistrySpec => []RegistryTypeOK
<1>1. RegistryInv => RegistryTypeOK
  BY DEF RegistryInv
<1> QED
  BY <1>1, RegistryInvariant, PTL

\* One load at a time, and none of a cached manifest.
THEOREM LoadsAreSingleFlight == RegistrySpec => []SingleFlight
<1>1. RegistryInv => SingleFlight
  BY OneHolder DEF RegistryInv, LoadsUnderLock, SingleFlight, Loading
<1> QED
  BY <1>1, RegistryInvariant, PTL

-----------------------------------------------------------------------------
(* The registry implements FreshReads.                                       *)

\* What the result of a call is made of.
ResultOf(p, k, r) == IF p = "idle" /\ r # 0 THEN [key |-> k, revision |-> r] ELSE None

\* A step of one task's call changes no other task's result.
LEMMA OneResultMoves ==
  ASSUME RegistryTypeOK, NEW t \in Tasks,
         \A u \in Tasks \ {t} : pc'[u] = pc[u] /\ key'[u] = key[u] /\ got'[u] = got[u]
  PROVE  result' = [result EXCEPT ![t] = ResultOf(pc'[t], key'[t], got'[t])]
  BY DEF result, ResultOf

\* A call begins or ends with nothing.
LEMMA NoResultStep ==
  ASSUME RegistryInv, NEW t \in Tasks,
         \A u \in Tasks \ {t} : pc'[u] = pc[u] /\ key'[u] = key[u] /\ got'[u] = got[u],
         pc'[t] # "idle" \/ got'[t] = 0,
         UNCHANGED <<stored, floor>>
  PROVE  Fresh!FreshNext
<1>1. result' = [result EXCEPT ![t] = None]
  BY OneResultMoves DEF RegistryInv, ResultOf
<1> QED
  BY <1>1 DEF Fresh!FreshNext, Fresh!NoResult

\* A call returns revision r, which is now the oldest that may be returned.
LEMMA ReadStep ==
  ASSUME RegistryInv, NEW t \in Tasks, NEW k \in Keys, NEW r \in Revisions,
         r # 0, floor[k] <= r, r <= stored[k],
         \A u \in Tasks \ {t} : pc'[u] = pc[u] /\ key'[u] = key[u] /\ got'[u] = got[u],
         pc'[t] = "idle", key'[t] = k, got'[t] = r,
         stored' = stored, floor' = [floor EXCEPT ![k] = r]
  PROVE  Fresh!FreshNext
<1>1. result' = [result EXCEPT ![t] = [key |-> k, revision |-> r]]
  BY OneResultMoves DEF RegistryInv, ResultOf
<1>2. r \in floor[k] .. stored[k]
  BY RegistryAssumption DEF RegistryInv, RegistryTypeOK, Revisions
<1>3. Fresh!Read(t, k)
  BY <1>1, <1>2 DEF Fresh!Read
<1> QED
  BY <1>3 DEF Fresh!FreshNext

\* A call that returns an entry of the cache.
LEMMA EntryStep ==
  ASSUME RegistryInv, NEW t \in Tasks, NEW k \in Keys, cached[k] # 0,
         \A u \in Tasks \ {t} : pc'[u] = pc[u] /\ key'[u] = key[u] /\ got'[u] = got[u],
         pc'[t] = "idle", key'[t] = k, got'[t] = cached[k],
         stored' = stored, floor' = floor
  PROVE  Fresh!FreshNext
<1>1. cached[k] = floor[k] /\ floor[k] <= stored[k]
  BY DEF RegistryInv, EntriesFresh
<1>2. /\ cached[k] \in Revisions
      /\ floor[k] <= cached[k]
      /\ floor' = [floor EXCEPT ![k] = cached[k]]
  BY <1>1, RegistryAssumption DEF RegistryInv, RegistryTypeOK, Revisions
<1> QED
  BY <1>1, <1>2, ReadStep

LEMMA GetRefines ==
  ASSUME RegistryInv, NEW t \in Tasks, NEW k \in Keys, Get(t, k)
  PROVE  Fresh!FreshNext
<1>1. CASE GetHit(t, k)
  BY <1>1, EntryStep DEF GetHit, RegistryInv, RegistryTypeOK
<1>2. CASE GetMiss(t, k)
  BY <1>2, NoResultStep DEF GetMiss, Enqueue, RegistryInv, RegistryTypeOK
<1> QED
  BY <1>1, <1>2 DEF Get

LEMMA GetActiveRefines ==
  ASSUME RegistryInv, NEW t \in Tasks, NEW c \in Codes, GetActive(t, c)
  PROVE  Fresh!FreshNext
<1>1. CASE active[c] # None /\ Get(t, <<c, active[c]>>)
  <2>1. <<c, active[c]>> \in Keys
    BY <1>1 DEF RegistryInv, RegistryTypeOK, Keys
  <2> QED
    BY <1>1, <2>1, GetRefines
<1>2. CASE active[c] = None
  BY <1>2, NoResultStep DEF GetActive, RegistryInv, RegistryTypeOK
<1> QED
  BY <1>1, <1>2 DEF GetActive

\* The turn of the task at the head of the queue.
LEMMA LockStepRefines ==
  ASSUME RegistryInv, NEW t \in Tasks, LockStep(t)
  PROVE  Fresh!FreshNext \/ UNCHANGED Fresh!freshVars
<1> USE DEF RegistryInv, RegistryTypeOK
<1>1. CASE FoundUnderLock(t)
  BY <1>1, EntryStep DEF FoundUnderLock, Leave
<1>2. CASE StartLoad(t)
  BY <1>2, NoResultStep DEF StartLoad
<1>3. CASE LoaderReads(t)
  BY <1>3, NoResultStep DEF LoaderReads
<1>4. CASE LoadEnds(t)
  <2>1. /\ key[t] \in Keys
        /\ got[t] \in Revisions
        /\ got[t] # 0
        /\ floor[key[t]] <= got[t]
        /\ got[t] <= stored[key[t]]
    BY <1>4 DEF LoadEnds, LoadsFresh
  <2> QED
    BY <1>4, <2>1, ReadStep DEF LoadEnds, Leave
<1>5. CASE Raises(t)
  BY <1>5, NoResultStep DEF Raises, Leave
<1>6. CASE DropEntry(t)
  <2>1. key[t] \in Keys /\ got[t] = 0
    BY <1>6 DEF DropEntry, LoadsFresh
  <2>2. result' = result
    BY <1>6, <2>1 DEF DropEntry, Leave, result
  <2>3. Fresh!Demand(key[t])
    BY <1>6, <2>2 DEF DropEntry, Fresh!Demand
  <2> QED
    BY <2>1, <2>3 DEF Fresh!FreshNext
<1> QED
  BY <1>1, <1>2, <1>3, <1>4, <1>5, <1>6 DEF LockStep

\* Every step of the registry is a step of the promise, or none.
LEMMA RegistryStepRefines ==
  RegistryInv /\ [RegistryNext]_registryVars => [Fresh!FreshNext]_Fresh!freshVars
<1> SUFFICES ASSUME RegistryInv, [RegistryNext]_registryVars
             PROVE  Fresh!FreshNext \/ UNCHANGED Fresh!freshVars
  OBVIOUS
<1>1. ASSUME NEW k \in Keys, UpsertManifest(k)
      PROVE  Fresh!FreshNext
  BY <1>1 DEF UpsertManifest, Fresh!FreshNext, Fresh!Upsert, result
<1>2. ASSUME NEW t \in Tasks, NEW k \in Keys, Invalidate(t, k)
      PROVE  Fresh!FreshNext
  BY <1>2, NoResultStep DEF Invalidate, Enqueue, RegistryInv, RegistryTypeOK
<1>3. ASSUME NEW c \in Codes, NEW v \in Versions, SetActive(c, v)
      PROVE  UNCHANGED Fresh!freshVars
  BY <1>3 DEF SetActive, Fresh!freshVars, result
<1>4. CASE UNCHANGED registryVars
  BY <1>4 DEF registryVars, Fresh!freshVars, result
<1> QED
  BY <1>1, <1>2, <1>3, <1>4, GetRefines, GetActiveRefines, LockStepRefines DEF RegistryNext

\* Reads through the cache, concurrent with loads, upserts and invalidations, are the
\* one-step reads of FreshReads: of the key asked for, of a revision that was stored,
\* and never behind an earlier read or an ended invalidation.
THEOREM GetsAreFreshReads == RegistrySpec => ImplementsFreshReads
<1>1. RegistryInit => Fresh!FreshInit
  BY DEF RegistryInit, Fresh!FreshInit, result
<1>2. RegistryInv /\ [RegistryNext]_registryVars => [Fresh!FreshNext]_Fresh!freshVars
  BY RegistryStepRefines
<1> QED
  BY <1>1, <1>2, RegistryInvariant, PTL
  DEF RegistrySpec, ImplementsFreshReads, Fresh!FreshSpec
=============================================================================
