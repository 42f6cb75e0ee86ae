------------------------------ MODULE LlmCalls ------------------------------
(***************************************************************************)
(* call_llm (providers/llm.py) as the pipelines of one process use it: the  *)
(* shared response cache (providers/llm_cache.py), the shared rate limiter  *)
(* with its retries (infra/rate_limiter.py), and the cost accumulators      *)
(* (infra/cost_tracker.py) that a pipeline opens, reports and clears        *)
(* (api/_evaluation/pipeline.py).                                           *)
(*                                                                         *)
(* Everything between two awaits is one step.  A prompt stands for the     *)
(* whole cache key; a provider's answer is told apart by the call that      *)
(* received it, since the same prompt may be answered differently.  Time    *)
(* counts in ticks; the age of a time stamp saturates at the window.        *)
(***************************************************************************)
EXTENDS Naturals, Sequences, SequencesExt, FiniteSets

CONSTANTS
  Calls,
  Pipelines,
  Owner,        \* [Calls -> Pipelines]: the pipeline that makes the call
  RunOf,        \* [Pipelines -> runs]: several pipelines may evaluate one run
  Prompt,       \* [Calls -> prompts]
  Caching,      \* the calls with the cache switched on
  Rpm,          \* requests_per_minute
  Window,       \* its length in ticks
  MaxAttempts,
  None

Runs    == Range(RunOf)
Prompts == Range(Prompt)

ASSUME LlmAssumption == /\ Owner \in [Calls -> Pipelines] /\ Caching \subseteq Calls
                        /\ DOMAIN RunOf = Pipelines /\ \A s \in SUBSET Calls : s # None
                        /\ Rpm \in Nat \ {0} /\ Window \in Nat \ {0}
                        /\ MaxAttempts \in Nat \ {0}

VARIABLES
  phase,      \* of a call: "new", "queued", "asleep", "calling", "done", "failed"
  attempt,    \* requests sent by a call
  wait,       \* ticks a sleeping call has left
  stamps,     \* the limiter's time stamps, by age, oldest first
  granted,    \* ages of all slots granted within the window (history)
  cache,      \* llm_response_cache
  answer,     \* what call_llm returned
  paid,       \* calls the provider has answered and counted (history)
  pipe,       \* of a pipeline: "new", "open", "closed"
  alone,      \* no other pipeline of the run was open meanwhile (history)
  acc,        \* _accumulators: the recorded calls of a run, or None
  row         \* evaluation_runs.llm_cost_usd, as the calls it sums up

limiterVars == <<stamps, granted, wait>>
costVars    == <<pipe, alone, acc, row>>
llmVars     == <<phase, attempt, cache, answer, paid, limiterVars, costVars>>

LlmInit == /\ phase = [c \in Calls |-> "new"] /\ attempt = [c \in Calls |-> 0]
           /\ wait = [c \in Calls |-> 0] /\ stamps = <<>> /\ granted = <<>>
           /\ cache = [p \in Prompts |-> None] /\ answer = [c \in Calls |-> None]
           /\ paid = {}
           /\ pipe = [p \in Pipelines |-> "new"] /\ alone = Pipelines
           /\ acc = [r \in Runs |-> None] /\ row = [r \in Runs |-> None]

----------------------------------------------------------------------------
\* set_run_context: an accumulator that is there is shared.
OpenPipeline(p) ==
  /\ pipe[p] = "new" /\ pipe' = [pipe EXCEPT ![p] = "open"]
  /\ LET others == {q \in Pipelines : pipe[q] = "open" /\ RunOf[q] = RunOf[p]} IN
     alone' = IF others = {} THEN alone ELSE alone \ (others \cup {p})
  /\ acc' = IF acc[RunOf[p]] = None THEN [acc EXCEPT ![RunOf[p]] = {}] ELSE acc
  /\ UNCHANGED <<phase, attempt, cache, answer, paid, limiterVars, row>>

ClearedBug(r) == acc
Cleared(r)    == [acc EXCEPT ![r] = None]

\* The pipeline's finally block, whose UPDATE may fail unnoticed.
ClosePipeline(p) ==
  /\ pipe[p] = "open"
  /\ \A c \in Calls : Owner[c] = p => phase[c] \notin {"queued", "asleep", "calling"}
  /\ pipe' = [pipe EXCEPT ![p] = "closed"]
  /\ \/ row' = [row EXCEPT ![RunOf[p]] = IF acc[RunOf[p]] = None THEN @ ELSE acc[RunOf[p]]]
     \/ acc[RunOf[p]] # None /\ UNCHANGED row
  /\ acc' = Cleared(RunOf[p])
  /\ UNCHANGED <<phase, attempt, cache, answer, paid, limiterVars, alone>>

----------------------------------------------------------------------------
Settle(c, p, a) == /\ phase' = [phase EXCEPT ![c] = p]
                   /\ answer' = [answer EXCEPT ![c] = a]

\* The cache lookup, before the first await: it may raise, hit or miss.
Lookup(c) ==
  /\ phase[c] = "new" /\ pipe[Owner[c]] = "open"
  /\ \/ c \in Caching /\ Settle(c, "failed", None)
     \/ c \in Caching /\ cache[Prompt[c]] # None /\ Settle(c, "done", cache[Prompt[c]])
     \/ (c \in Caching => cache[Prompt[c]] = None) /\ Settle(c, "queued", None)
  /\ UNCHANGED <<attempt, cache, paid, limiterVars, costVars>>

\* The oldest time stamps go, up to the first that is younger than the window.
Purged(s) == LET young == {i \in DOMAIN s : s[i] < Window} IN
             IF young = {} THEN <<>> ELSE SubSeq(s, Min(young), Len(s))

LockFreeBug == TRUE
LockFree    == \A c \in Calls : phase[c] # "asleep"

TakeSlot(c) == /\ stamps' = Append(Purged(stamps), 0)
               /\ granted' = Append(Purged(granted), 0)
               /\ phase' = [phase EXCEPT ![c] = "calling"]
               /\ attempt' = [attempt EXCEPT ![c] = 1]
               /\ UNCHANGED wait

\* acquire: a full window makes the caller sleep with the lock held.
Acquire(c) ==
  /\ phase[c] = "queued" /\ LockFree
  /\ \/ Len(Purged(stamps)) < Rpm /\ TakeSlot(c)
     \/ /\ Len(Purged(stamps)) >= Rpm
        /\ stamps' = Purged(stamps)
        /\ wait' = [wait EXCEPT ![c] = Window - Head(stamps')]
        /\ phase' = [phase EXCEPT ![c] = "asleep"]
        /\ UNCHANGED <<granted, attempt>>
  /\ UNCHANGED <<cache, answer, paid, costVars>>

Wake(c) == /\ phase[c] = "asleep" /\ wait[c] = 0
           /\ TakeSlot(c)
           /\ UNCHANGED <<cache, answer, paid, costVars>>

\* record_llm_call: dropped without an accumulator.
Recorded(c) == LET r == RunOf[Owner[c]] IN
               IF acc[r] = None THEN acc ELSE [acc EXCEPT ![r] = @ \cup {c}]

\* ON CONFLICT DO NOTHING: the first answer stays.
Stored(c) == IF cache[Prompt[c]] = None THEN [cache EXCEPT ![Prompt[c]] = c] ELSE cache

\* The provider answers, with or without usage figures; the store may raise.
Respond(c) ==
  /\ phase[c] = "calling"
  /\ \/ paid' = paid \cup {c} /\ acc' = Recorded(c)
     \/ UNCHANGED <<paid, acc>>
  /\ \/ /\ Settle(c, "done", c)
        /\ cache' = IF c \in Caching THEN Stored(c) ELSE cache
     \/ /\ c \in Caching /\ Settle(c, "failed", None)
        /\ UNCHANGED cache
  /\ UNCHANGED <<attempt, limiterVars, pipe, alone, row>>

\* A retryable error: the same slot is used again.
Retry(c) == /\ phase[c] = "calling" /\ attempt[c] < MaxAttempts
            /\ attempt' = [attempt EXCEPT ![c] = @ + 1]
            /\ UNCHANGED <<phase, cache, answer, paid, limiterVars, costVars>>

\* The last attempt failed, or an error that is not retried.
GiveUp(c) == /\ phase[c] = "calling" /\ Settle(c, "failed", None)
             /\ UNCHANGED <<attempt, cache, paid, limiterVars, costVars>>

\* purge_llm_cache, an admin's request: the entries its filters match.
PurgeCache == /\ \E gone \in (SUBSET {p \in Prompts : cache[p] # None}) \ {{}} :
                   cache' = [p \in Prompts |-> IF p \in gone THEN None ELSE cache[p]]
              /\ UNCHANGED <<phase, attempt, answer, paid, limiterVars, costVars>>

Older(s) == [i \in DOMAIN s |-> IF s[i] < Window THEN s[i] + 1 ELSE Window]

LlmTick == /\ stamps # <<>> \/ granted # <<>>
        /\ stamps' = Older(stamps) /\ granted' = Purged(Older(granted))
        /\ wait' = [c \in Calls |-> IF wait[c] > 0 THEN wait[c] - 1 ELSE 0]
        /\ UNCHANGED <<phase, attempt, cache, answer, paid, costVars>>

LlmNext == \/ \E p \in Pipelines : OpenPipeline(p) \/ ClosePipeline(p)
           \/ \E c \in Calls : Lookup(c) \/ Acquire(c) \/ Wake(c)
                               \/ Respond(c) \/ Retry(c) \/ GiveUp(c)
           \/ PurgeCache \/ LlmTick

LlmSpec == LlmInit /\ [][LlmNext]_llmVars

----------------------------------------------------------------------------
(***************************************************************************)
(* No more than requests_per_minute slots are granted within any window,    *)
(* whoever sleeps and wakes in between (rate_limiter.py:31).  It is about   *)
(* slots: the retries of call_with_backoff send more requests than that.    *)
(***************************************************************************)
SlotsPerWindow == Len(granted) <= Rpm

(***************************************************************************)
(* A pipeline that was alone on its run accounts for exactly its own paid   *)
(* calls, the ones whose answer was lost in the store or in a later error   *)
(* included; a run never carries another run's calls.  Two pipelines of one *)
(* run share the accumulator, and the first to end clears it.               *)
(***************************************************************************)
CostIsOwn ==
  /\ \A r \in Runs : acc[r] # None => \A c \in acc[r] : RunOf[Owner[c]] = r
  /\ \A p \in alone : pipe[p] = "open" =>
       acc[RunOf[p]] = {c \in paid : Owner[c] = p}
=============================================================================
