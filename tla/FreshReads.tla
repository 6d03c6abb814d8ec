------------------------------ MODULE FreshReads ------------------------------
(***************************************************************************)
(* What the readers of the registry are promised, with no cache, no lock   *)
(* and no load in sight: a read is one step, it returns a revision that    *)
(* has been stored, and never one older than what any earlier read has     *)
(* returned or an earlier invalidation has made the oldest acceptable.     *)
(***************************************************************************)
EXTENDS Naturals

CONSTANTS Keys, Tasks,
          None  \* no result

VARIABLES stored,  \* stored[k]: the revision in the table, 0 when there is no row
          floor,   \* floor[k]: the oldest revision a read may still return
          result   \* result[t]: what the last call of t has returned

freshVars == <<stored, floor, result>>

FreshInit == /\ stored = [k \in Keys |-> 0]
             /\ floor = [k \in Keys |-> 0]
             /\ result = [t \in Tasks |-> None]

\* The table may move on without a reader's notice ...
Upsert(k) == /\ stored' = [stored EXCEPT ![k] = @ + 1]
             /\ UNCHANGED <<floor, result>>

\* ... until what it holds becomes the oldest that may be read.
Demand(k) == /\ floor' = [floor EXCEPT ![k] = stored[k]]
             /\ UNCHANGED <<stored, result>>

\* A read: later reads, of this task or another, do not go back behind it.
Read(t, k) == \E r \in floor[k] .. stored[k] :
                  /\ r # 0
                  /\ result' = [result EXCEPT ![t] = [key |-> k, revision |-> r]]
                  /\ floor' = [floor EXCEPT ![k] = r]
                  /\ UNCHANGED stored

\* A call begins, or ends with no manifest.
NoResult(t) == /\ result' = [result EXCEPT ![t] = None]
               /\ UNCHANGED <<stored, floor>>

FreshNext == \/ \E k \in Keys : Upsert(k) \/ Demand(k)
             \/ \E t \in Tasks : NoResult(t) \/ \E k \in Keys : Read(t, k)

FreshSpec == FreshInit /\ [][FreshNext]_freshVars
=============================================================================
