------------------------ MODULE UpstreamModelCatalog ------------------------
(***************************************************************************)
(* The Upstream Model Catalog (application/upstream_model_catalog.py, its  *)
(* refresh in infrastructure/jobs/upstream_model_catalog_job.py): a round  *)
(* fetches every kind of every enabled provider at once, retries what may  *)
(* pass, and publishes what it has when the last fetch has ended.  The     *)
(* round at start is awaited before the loop begins, so rounds follow each *)
(* other.                                                                  *)
(*                                                                         *)
(* Timers are taken to fire when they are due.                             *)
(***************************************************************************)
EXTENDS Integers, Sequences

CONSTANTS
    Kinds,        \* the (provider, kind) pairs of _provider_groups
    FetchTimeout, Budget, Delays,
    MaxRounds     \* bounds the model

ASSUME CatalogAssumption ==
    /\ FetchTimeout \in Nat \ {0} /\ Budget \in Nat \ {0} /\ MaxRounds \in Nat
    /\ Delays \in Seq(Nat \ {0})

VARIABLES
    snapshots,  \* of a kind: the round that answered, 0 for none
    round, filling,
    elapsed,    \* since the round began
    fetch,      \* of a kind: what it does, until when, its delays left
    stopping

catalogVars == <<snapshots, round, filling, elapsed, fetch, stopping>>

NotFetching == [at |-> "none", until |-> 0, delays |-> Delays]

LesserOf(a, b) == IF a < b THEN a ELSE b

Asks(f) == [at |-> "asking", until |-> elapsed + LesserOf(FetchTimeout, Budget - elapsed), delays |-> f.delays]

FetchEnds(f, how) == [f EXCEPT !.at = how]

\* A transient failure is tried again after the next delay, within the budget.
Retries(f) ==
    IF f.delays # <<>> /\ elapsed + Head(f.delays) < Budget
    THEN [at |-> "sleeping", until |-> elapsed + Head(f.delays), delays |-> Tail(f.delays)]
    ELSE FetchEnds(f, "failed")

\* One round, of the start or of the loop
Fill ==
    /\ ~filling /\ ~stopping /\ round < MaxRounds
    /\ round' = round + 1 /\ filling' = TRUE /\ elapsed' = 0
    /\ fetch' = [k \in Kinds |-> [at |-> "asking", until |-> LesserOf(FetchTimeout, Budget), delays |-> Delays]]
    /\ UNCHANGED <<snapshots, stopping>>

\* The provider lists its models, or answers what cannot be used.
FetchAnswers(k) ==
    /\ filling /\ fetch[k].at = "asking"
    /\ \E how \in {"answered", "failed"} : fetch' = [fetch EXCEPT ![k] = FetchEnds(@, how)]
    /\ UNCHANGED <<snapshots, round, filling, elapsed, stopping>>

\* A transport error, 429 or 5xx at any time, or no answer in time
FetchFails(k) ==
    /\ filling /\ fetch[k].at = "asking"
    /\ fetch' = [fetch EXCEPT ![k] = Retries(@)]
    /\ UNCHANGED <<snapshots, round, filling, elapsed, stopping>>

WakesUp(k) ==
    /\ filling /\ fetch[k].at = "sleeping" /\ elapsed = fetch[k].until
    /\ fetch' = [fetch EXCEPT ![k] = Asks(@)]
    /\ UNCHANGED <<snapshots, round, filling, elapsed, stopping>>

Publishes == [k \in Kinds |-> IF fetch[k].at = "answered" THEN round ELSE snapshots[k]]

\* Mutant: the first fetch that has ended publishes.
PublishFirst ==
    /\ filling /\ \E k \in Kinds : fetch[k].at \in {"answered", "failed"}
    /\ snapshots' = Publishes /\ filling' = FALSE
    /\ fetch' = [k \in Kinds |-> NotFetching]
    /\ UNCHANGED <<round, elapsed, stopping>>

\* gather returns: the new dictionary replaces the old one at once.
Publish ==
    /\ filling /\ \A k \in Kinds : fetch[k].at \in {"answered", "failed"}
    /\ snapshots' = Publishes /\ filling' = FALSE
    /\ fetch' = [k \in Kinds |-> NotFetching]
    /\ UNCHANGED <<round, elapsed, stopping>>

\* Shutdown cancels the round.
StopCatalog ==
    /\ ~stopping /\ stopping' = TRUE /\ filling' = FALSE
    /\ fetch' = [k \in Kinds |-> NotFetching]
    /\ UNCHANGED <<snapshots, round, elapsed>>

CatalogTick ==
    /\ filling /\ \E k \in Kinds : fetch[k].at \in {"asking", "sleeping"}
    /\ \A k \in Kinds : fetch[k].at \in {"asking", "sleeping"} => elapsed < fetch[k].until
    /\ elapsed' = elapsed + 1
    /\ UNCHANGED <<snapshots, round, filling, fetch, stopping>>

CatalogInit ==
    /\ snapshots = [k \in Kinds |-> 0] /\ round = 0 /\ filling = FALSE /\ elapsed = 0
    /\ fetch = [k \in Kinds |-> NotFetching] /\ stopping = FALSE

CatalogNext ==
    \/ Fill \/ Publish \/ StopCatalog \/ CatalogTick
    \/ \E k \in Kinds : FetchAnswers(k) \/ FetchFails(k) \/ WakesUp(k)

CatalogSpec == CatalogInit /\ [][CatalogNext]_catalogVars

-----------------------------------------------------------------------------

CatalogTypeOK ==
    /\ snapshots \in [Kinds -> 0..MaxRounds] /\ round \in 0..MaxRounds
    /\ filling \in BOOLEAN /\ stopping \in BOOLEAN /\ elapsed \in Nat
    /\ \A k \in Kinds : /\ fetch[k].at \in {"none", "asking", "sleeping", "answered", "failed"}
                        /\ fetch[k].until \in Nat /\ fetch[k].delays \in Seq(Nat)

\* A round ends within the budget however its fetches are retried, changes what
\* is read only when its last fetch has ended, and a fetch that failed leaves
\* the kind's last answer in place: a kind that was ever listed stays listed.
CatalogHolds ==
    [][/\ elapsed' <= Budget
       /\ \A k \in Kinds :
            /\ snapshots[k] # 0 => snapshots'[k] # 0
            /\ snapshots'[k] # snapshots[k] => \A j \in Kinds : fetch[j].at \notin {"asking", "sleeping"}]_catalogVars

=============================================================================
