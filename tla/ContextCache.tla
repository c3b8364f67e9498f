---------------------------- MODULE ContextCache ----------------------------
(***************************************************************************)
(* The shared memory of one context: artifacts of the agents in Postgres,  *)
(* the cached list of the newest of them and the summary in Redis.         *)
(*                                                                         *)
(* Whoever records an artifact commits it and then deletes the list.  A    *)
(* summariser takes the list from the cache or from the database, in which *)
(* case it writes it back.  Nothing ties the two together: summarisers of  *)
(* one context run at the same time when an attempt of the activity has    *)
(* timed out or two A2A messages name the context.                         *)
(*                                                                         *)
(* Artifacts are numbered in order of creation, and a list is the number   *)
(* of its newest; what the LIMIT cuts off at the other end is left out.    *)
(***************************************************************************)
EXTENDS Naturals, FiniteSets

CONSTANTS
  Summarisers,  \* attempts of summarize_context, one after another in each
  TTL,          \* _CTX_TTL
  SummaryTTL,   \* _SUMMARY_TTL
  Delay,        \* the time a reader needs from its query to its setex
  MaxArtifacts, \* bound: artifacts of the context
  MaxPushes,    \* bound: artifacts from the push webhook
  MaxFaults,    \* bound: Redis calls and inserts that fail
  MaxTime       \* bound: of the clock

VARIABLES
  now,
  made,       \* artifacts committed so far
  born,       \* when each was
  deleting,   \* writers between their commit and the delete
  listed,     \* the list in Redis, and when it was written; there if cached
  cached, cachedAt,
  summary,    \* the newest artifact in the summary, if there is one
  hasSummary, summaryAt,
  at,         \* where each summariser is
  list,       \* the list it has
  readAt,     \* when it queried or looked for it
  pushes, faults

database == <<made, born>>
heads == <<listed, cached, cachedAt>>
memo  == <<summary, hasSummary, summaryAt>>
reader == <<at, list, readAt>>
vars == <<now, database, deleting, heads, memo, reader, pushes, faults>>

Places == {"rest", "missed", "queried", "ready", "summarised"}

Init ==
  /\ now = 0
  /\ made = 0 /\ born = [a \in 1 .. MaxArtifacts |-> 0]
  /\ deleting = 0
  /\ listed = 0 /\ cached = FALSE /\ cachedAt = 0
  /\ summary = 0 /\ hasSummary = FALSE /\ summaryAt = 0
  /\ at = [s \in Summarisers |-> "rest"]
  /\ list = [s \in Summarisers |-> 0]
  /\ readAt = [s \in Summarisers |-> 0]
  /\ pushes = 0 /\ faults = 0

Faulty(bad) ==
  /\ bad => faults < MaxFaults
  /\ faults' = IF bad THEN faults + 1 ELSE faults

(***************************************************************************)
(* Writers: agents' results, final answers, summaries, the push webhook    *)
(***************************************************************************)
\* record_artifact; an insert that fails is swallowed.
Commit(bad) ==
  IF bad THEN UNCHANGED database
  ELSE /\ made < MaxArtifacts
       /\ made' = made + 1
       /\ born' = [born EXCEPT ![made'] = now]

\* record_and_cache_artifact as far as its commit.
Record(bad) ==
  /\ Faulty(bad) /\ Commit(bad)
  /\ deleting' = deleting + 1
  /\ UNCHANGED <<now, heads, memo, reader, pushes>>

\* invalidate_context_cache: Redis may fail, and that is that.
Invalidate(bad) ==
  /\ deleting > 0 /\ deleting' = deleting - 1
  /\ Faulty(bad)
  /\ cached' = (cached /\ bad)
  /\ UNCHANGED <<now, database, listed, cachedAt, memo, reader, pushes>>

\* The push webhook records artifacts and leaves the cache alone.
Push ==
  /\ pushes < MaxPushes /\ pushes' = pushes + 1
  /\ Commit(FALSE)
  /\ UNCHANGED <<now, deleting, heads, memo, reader, faults>>

(***************************************************************************)
(* get_context_artifacts                                                   *)
(***************************************************************************)
Go(s, place) == at' = [at EXCEPT ![s] = place]

Take(s, newest) ==
  /\ list' = [list EXCEPT ![s] = newest]
  /\ readAt' = [readAt EXCEPT ![s] = now]

Hit(s) ==
  /\ at[s] = "rest" /\ cached
  /\ Go(s, "ready") /\ Take(s, listed)
  /\ UNCHANGED <<now, database, deleting, heads, memo, pushes, faults>>

\* No entry, or no answer of Redis.
Miss(s, bad) ==
  /\ at[s] = "rest" /\ (~cached \/ bad)
  /\ Faulty(bad)
  /\ Go(s, "missed")
  /\ UNCHANGED <<now, database, deleting, heads, memo, list, readAt, pushes>>

Query(s) ==
  /\ at[s] = "missed"
  /\ Go(s, "queried") /\ Take(s, made)
  /\ UNCHANGED <<now, database, deleting, heads, memo, pushes, faults>>

QueryFails(s) ==
  /\ at[s] = "missed"
  /\ Faulty(TRUE) /\ Go(s, "rest")
  /\ UNCHANGED <<now, database, deleting, heads, memo, list, readAt, pushes>>

\* setex, an empty list too.
Fill(s, bad) ==
  /\ at[s] = "queried"
  /\ Faulty(bad) /\ Go(s, "ready")
  /\ IF bad THEN UNCHANGED heads
     ELSE cached' = TRUE /\ listed' = list[s] /\ cachedAt' = now
  /\ UNCHANGED <<now, database, deleting, memo, list, readAt, pushes>>

(***************************************************************************)
(* summarize_context                                                       *)
(***************************************************************************)
\* The model answers and the summary is stored; with nothing to summarise, or
\* without an answer, there is none.
Summarise(s, bad) ==
  /\ at[s] = "ready" /\ list[s] > 0
  /\ Faulty(bad) /\ Go(s, "summarised")
  /\ IF bad THEN UNCHANGED memo
     ELSE hasSummary' = TRUE /\ summary' = list[s] /\ summaryAt' = now
  /\ UNCHANGED <<now, database, deleting, heads, list, readAt, pushes>>

NoSummary(s) ==
  /\ at[s] = "ready" /\ Go(s, "rest")
  /\ UNCHANGED <<now, database, deleting, heads, memo, list, readAt, pushes, faults>>

\* The summary is an artifact too; a second one within a second has the same
\* artifact_id, which the table refuses.
RecordSummary(s, bad) ==
  /\ at[s] = "summarised" /\ Go(s, "rest")
  /\ Faulty(bad) /\ Commit(bad)
  /\ deleting' = deleting + 1
  /\ UNCHANGED <<now, heads, memo, list, readAt, pushes>>

(***************************************************************************)
(* Time                                                                    *)
(***************************************************************************)
\* A reader that has queried writes within Delay; Redis drops what is over.
Tick ==
  /\ now < MaxTime /\ now' = now + 1
  /\ \A s \in Summarisers : at[s] = "queried" => now < readAt[s] + Delay
  /\ cached' = (cached /\ now' <= cachedAt + TTL)
  /\ hasSummary' = (hasSummary /\ now' <= summaryAt + SummaryTTL)
  /\ UNCHANGED <<database, deleting, listed, cachedAt, summary, summaryAt, reader,
                 pushes, faults>>

SummariserStep(s) ==
  \/ Hit(s) \/ Query(s) \/ QueryFails(s) \/ NoSummary(s)
  \/ \E bad \in BOOLEAN :
       Miss(s, bad) \/ Fill(s, bad) \/ Summarise(s, bad) \/ RecordSummary(s, bad)

Next ==
  \/ \E bad \in BOOLEAN : Record(bad) \/ Invalidate(bad)
  \/ Push \/ Tick
  \/ \E s \in Summarisers : SummariserStep(s)

Spec == Init /\ [][Next]_vars

(***************************************************************************)
(* Properties                                                              *)
(***************************************************************************)
TypeOK ==
  /\ now \in Nat /\ made \in 0 .. MaxArtifacts
  /\ born \in [1 .. MaxArtifacts -> Nat]
  /\ deleting \in Nat
  /\ listed \in 0 .. MaxArtifacts /\ cached \in BOOLEAN /\ cachedAt \in Nat
  /\ summary \in 0 .. MaxArtifacts /\ hasSummary \in BOOLEAN /\ summaryAt \in Nat
  /\ at \in [Summarisers -> Places]
  /\ list \in [Summarisers -> 0 .. MaxArtifacts]
  /\ readAt \in [Summarisers -> Nat]
  /\ pushes \in Nat /\ faults \in Nat

\* Whatever races and whatever fails, Redis, the inserts and the webhook that
\* invalidates nothing included: an artifact the cached list does not show is
\* younger than the list's lifetime and one reader's delay.
StaleBounded ==
  cached => \A a \in listed + 1 .. made : now <= born[a] + TTL + Delay

\* record_and_cache_artifact, context_service.py:131: "Write -> invalidate ->
\* next read repopulates: guarantees cache consistency."
CacheConsistent == cached /\ deleting = 0 => listed = made

=============================================================================
