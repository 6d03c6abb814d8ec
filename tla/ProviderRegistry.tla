--------------------------- MODULE ProviderRegistry ---------------------------
(***************************************************************************)
(* ProviderRegistry (providers/engine/registry.py): manifests by code and  *)
(* version, read through a cache.  Misses and invalidations take one       *)
(* asyncio.Lock, which serves its waiters in order; a get that finds an    *)
(* entry does not.  A manifest is its revision, counted by the upserts of  *)
(* its row (register_provider.py), so that "the same code and version" can *)
(* be told apart from "the same manifest".                                 *)
(***************************************************************************)
EXTENDS Naturals, Sequences

CONSTANTS Codes, Versions,
          Tasks,        \* the tasks that call the registry
          MaxRevision,  \* BOUND: the upserts of one manifest
          None          \* no active version, no call

ASSUME RegistryAssumption == /\ MaxRevision \in Nat
                             /\ None \notin Versions

Keys == Codes \X Versions
Revisions == 0 .. MaxRevision   \* 0: no row, no entry, no result

VARIABLES stored,  \* stored[k]: the revision in the providers table
          cached,  \* cached[k]: the revision in _cache
          active,  \* _active_version
          queue,   \* _lock: its holder, then its waiters
          pc,      \* pc[t]: where the call of task t stands
          key,     \* key[t]: the manifest that call, or the last one of t, is about
          got,     \* got[t]: the revision the last get of t has read or returned
          floor    \* floor[k]: the newest revision of k loaded, or stored when an
                   \* invalidation of k has ended

registryVars == <<stored, cached, active, queue, pc, key, got, floor>>

RegistryInit == /\ stored = [k \in Keys |-> 0]
                /\ cached = [k \in Keys |-> 0]
                /\ active = [c \in Codes |-> None]
                /\ queue = <<>>
                /\ pc = [t \in Tasks |-> "idle"]
                /\ key = [t \in Tasks |-> None]
                /\ got = [t \in Tasks |-> 0]
                /\ floor = [k \in Keys |-> 0]

\* RegisterProviderUseCase commits an upsert_manifest; another process may.
UpsertManifest(k) == /\ stored[k] < MaxRevision
                     /\ stored' = [stored EXCEPT ![k] = @ + 1]
                     /\ UNCHANGED <<cached, active, queue, pc, key, got, floor>>

\* async with self._lock: t joins the queue.  If the lock is free its next step
\* follows without a suspension, which is the run where the two are adjacent.
Enqueue(t, k, stage) == /\ pc[t] = "idle"
                        /\ pc' = [pc EXCEPT ![t] = stage]
                        /\ key' = [key EXCEPT ![t] = k]
                        /\ queue' = Append(queue, t)

\* get returns the entry it finds before it asks for the lock ...
GetHit(t, k) == /\ pc[t] = "idle"
                /\ cached[k] # 0
                /\ key' = [key EXCEPT ![t] = k]
                /\ got' = [got EXCEPT ![t] = cached[k]]
                /\ UNCHANGED <<stored, cached, active, queue, pc, floor>>

\* ... or queues.
GetMiss(t, k) == /\ cached[k] = 0
                 /\ Enqueue(t, k, "missed")
                 /\ got' = [got EXCEPT ![t] = 0]
                 /\ UNCHANGED <<stored, cached, active, floor>>

Get(t, k) == GetHit(t, k) \/ GetMiss(t, k)

\* get_active; without an active version it raises KeyError.
GetActive(t, c) ==
    \/ active[c] # None /\ Get(t, <<c, active[c]>>)
    \/ /\ active[c] = None
       /\ pc[t] = "idle"
       /\ got' = [got EXCEPT ![t] = 0]
       /\ UNCHANGED <<stored, cached, active, queue, pc, key, floor>>

HoldsLock(t) == queue # <<>> /\ Head(queue) = t

\* A mutant of Leave: the lock is not released.
LeaveHolding(t) == /\ pc' = [pc EXCEPT ![t] = "idle"]
                   /\ UNCHANGED <<queue, key>>

\* The call of t ends and with it its turn.
Leave(t) == /\ pc' = [pc EXCEPT ![t] = "idle"]
            /\ queue' = Tail(queue)
            /\ UNCHANGED key

\* The second look, under the lock: another task has loaded the manifest.
FoundUnderLock(t) == /\ HoldsLock(t)
                     /\ pc[t] = "missed"
                     /\ cached[key[t]] # 0
                     /\ got' = [got EXCEPT ![t] = cached[key[t]]]
                     /\ Leave(t)
                     /\ UNCHANGED <<stored, cached, active, floor>>

\* A mutant of StartLoad: no second look.
StartLoadBlindly(t) == /\ HoldsLock(t)
                       /\ pc[t] = "missed"
                       /\ pc' = [pc EXCEPT ![t] = "loading"]
                       /\ UNCHANGED <<stored, cached, active, queue, key, got, floor>>

\* The loader is called, with the lock held.
StartLoad(t) == /\ HoldsLock(t)
                /\ pc[t] = "missed"
                /\ cached[key[t]] = 0
                /\ pc' = [pc EXCEPT ![t] = "loading"]
                /\ UNCHANGED <<stored, cached, active, queue, key, got, floor>>

\* The loader's SELECT sees what is committed at that moment.
LoaderReads(t) == /\ pc[t] = "loading"
                  /\ stored[key[t]] # 0
                  /\ pc' = [pc EXCEPT ![t] = "loaded"]
                  /\ got' = [got EXCEPT ![t] = stored[key[t]]]
                  /\ UNCHANGED <<stored, cached, active, queue, key, floor>>

\* self._active_version.setdefault(code, version)
SetDefaultActive(c, v) == active' = [active EXCEPT ![c] = IF @ = None THEN v ELSE @]

\* The manifest arrives: an entry, a default active version, the result.
LoadEnds(t) == /\ pc[t] = "loaded"
               /\ cached' = [cached EXCEPT ![key[t]] = got[t]]
               /\ SetDefaultActive(key[t][1], key[t][2])
               /\ Leave(t)
               /\ floor' = [floor EXCEPT ![key[t]] = got[t]]
               /\ UNCHANGED <<stored, got>>

\* The loader raises (no row, a lost connection), or a task is cancelled at the head
\* of the queue; one cancelled further back is passed over when it gets there.
Raises(t) == /\ HoldsLock(t)
             /\ got' = [got EXCEPT ![t] = 0]
             /\ Leave(t)
             /\ UNCHANGED <<stored, cached, active, floor>>

\* _on_invalidate is called and queues.
Invalidate(t, k) == /\ Enqueue(t, k, "invalidating")
                    /\ got' = [got EXCEPT ![t] = 0]
                    /\ UNCHANGED <<stored, cached, active, floor>>

\* A mutant of DropEntry: the entry is popped without waiting for the lock.
DropEntryAtOnce(t) == /\ pc[t] = "invalidating"
                      /\ cached' = [cached EXCEPT ![key[t]] = 0]
                      /\ floor' = [floor EXCEPT ![key[t]] = stored[key[t]]]
                      /\ pc' = [pc EXCEPT ![t] = "idle"]
                      /\ queue' = SelectSeq(queue, LAMBDA u : u # t)
                      /\ UNCHANGED <<stored, active, key, got>>

\* self._cache.pop((code, version), None), under the lock.
DropEntry(t) == /\ HoldsLock(t)
                /\ pc[t] = "invalidating"
                /\ cached' = [cached EXCEPT ![key[t]] = 0]
                /\ floor' = [floor EXCEPT ![key[t]] = stored[key[t]]]
                /\ Leave(t)
                /\ UNCHANGED <<stored, active, got>>

\* set_active: at once, without the lock, whether or not the version exists.
SetActive(c, v) == /\ active' = [active EXCEPT ![c] = v]
                   /\ UNCHANGED <<stored, cached, queue, pc, key, got, floor>>

\* What the task at the head of the queue does.
LockStep(t) == \/ FoundUnderLock(t) \/ StartLoad(t) \/ LoaderReads(t)
               \/ LoadEnds(t) \/ Raises(t) \/ DropEntry(t)

RegistryNext ==
    \/ \E k \in Keys : UpsertManifest(k)
    \/ \E t \in Tasks, k \in Keys : Get(t, k) \/ Invalidate(t, k)
    \/ \E t \in Tasks, c \in Codes : GetActive(t, c)
    \/ \E t \in Tasks : LockStep(t)
    \/ \E c \in Codes, v \in Versions : SetActive(c, v)

\* The event loop runs a task that may go on, and a loader answers or raises.
RegistryFairness == \A t \in Tasks : WF_registryVars(LockStep(t))

RegistrySpec == RegistryInit /\ [][RegistryNext]_registryVars /\ RegistryFairness

-----------------------------------------------------------------------------
\* The shape of the cache, of the lock and of the calls.
RegistryTypeOK == /\ stored \in [Keys -> Revisions]
                  /\ cached \in [Keys -> Revisions]
                  /\ active \in [Codes -> Versions \cup {None}]
                  /\ queue \in Seq(Tasks)
                  /\ pc \in [Tasks -> {"idle", "missed", "loading", "loaded", "invalidating"}]
                  /\ key \in [Tasks -> Keys \cup {None}]
                  /\ \A t \in Tasks : pc[t] # "idle" \/ got[t] # 0 => key[t] \in Keys
                  /\ got \in [Tasks -> Revisions]
                  /\ floor \in [Keys -> Revisions]

\* A stampede of gets loads a manifest once: two loads never overlap, and the loader
\* is not asked for what is cached (the second look under the lock).
SingleFlight ==
    \A t \in Tasks : pc[t] \in {"loading", "loaded"} =>
        /\ cached[key[t]] = 0
        /\ \A u \in Tasks \ {t} : pc[u] \notin {"loading", "loaded"}

\* What a reader sees of the registry: what the calls that have ended returned.
result == [t \in Tasks |-> IF pc[t] = "idle" /\ got[t] # 0
                           THEN [key |-> key[t], revision |-> got[t]] ELSE None]

Fresh == INSTANCE FreshReads

\* The registry reads as if there were no cache between two invalidations: a get
\* returns a revision of the key it was asked for, one that was stored, and never an
\* older one than any task was given before or than was stored when an invalidation
\* ended, however the invalidation met a load of the same key (_on_invalidate pops
\* under the lock that the load holds).
ImplementsFreshReads == Fresh!FreshSpec

\* A call that waits for the lock, or holds it, ends: whatever the calls before it
\* did, their turn is over (async with releases on an exception).
CallsEnd == \A t \in Tasks : pc[t] # "idle" ~> pc[t] = "idle"
=============================================================================
