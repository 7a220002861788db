------------------------------ MODULE QuotaRows ------------------------------
(***************************************************************************)
(* How the readers turn what the providers answer into quota rows:         *)
(*   geminicli.go    geminiQuotaToSnapshot, collectGeminiQuotaBuckets      *)
(*   antigravity.go  antigravitySnapshot                                   *)
(*   codex.go        latestCodexRateLimitEvent, codexSnapshot,             *)
(*                   mergeCodexSnaps, preferCodexMetric                    *)
(*   cursor.go       cursorUsageToSnapshot, cursorPlanPercentUsed          *)
(*                                                                         *)
(* The folds over arrays are operators.  What the code finds by ranging    *)
(* over a Go map comes in any order: for those the operators handle one    *)
(* element, and QuotaCards has a step that takes any of them.              *)
(***************************************************************************)
EXTENDS Integers, Sequences, FiniteSets, SequencesExt, Functions

CONSTANT MaxSessionFiles  \* maxCodexSessionFiles: 160
ASSUME SessionAssumption == MaxSessionFiles \in Nat

None == -1

\* readmodel.Metric; window in hours.
Metric(unit, used, remaining, limit, window) ==
    [unit |-> unit, used |-> used, remaining |-> remaining, limit |-> limit, window |-> window]
Left(percent, window) == Metric("%", None, percent, None, window)
Used(percent, window) == Metric("%", percent, None, None, window)

\* readmodel.Snapshot: rows by key, resets by the key of their row.
Empty == [x \in {} |-> None]
Snapshot(provider, status, metrics, resets) ==
    [provider |-> provider, status |-> status, metrics |-> metrics, resets |-> resets]
NoSnapshot == Snapshot("none", "none", Empty, Empty)
StatusOnly(provider, status) == Snapshot(provider, status, Empty, Empty)
Rows(provider, metrics, resets) ==
    IF metrics = Empty THEN NoSnapshot ELSE Snapshot(provider, "ok", metrics, resets)

Put(f, key, value) == [k \in DOMAIN f \cup {key} |-> IF k = key THEN value ELSE f[k]]
Drop(f, key) == Restrict(f, DOMAIN f \ {key})

\* The elements of a finite set, in the order in which they come before one
\* another.
Ordered(S, before(_, _)) ==
    [i \in 1..Cardinality(S) |->
        CHOOSE b \in S : Cardinality({a \in S : before(a, b)}) = i - 1]

Clamped(v) == IF v < 0 THEN 0 ELSE IF v > 100 THEN 100 ELSE v

\* normalizeRemainingPercent, of a number in hundredths: up to one it is a
\* fraction, above one a percentage.
Percent(hundredths) == Clamped(IF hundredths <= 100 THEN hundredths ELSE hundredths \div 100)

-----------------------------------------------------------------------------
(* Gemini *)

Pro   == "quota_model_gemini_pro"
Flash == "quota_model_gemini_flash"

\* Models of one family draw on one pool (geminiModelPoolLabel).
GeminiPool(model) == IF model \in {"gemini-3-pro", "gemini-2.5-pro"} THEN Pro ELSE Flash

\* A free tier marks models it does not offer by the epoch, or no reset at all.
SentinelReset(reset) == reset \in {"none", "epoch"}
Genuine(b) == b.remaining > 0 \/ ~SentinelReset(b.reset)

NewRow(snap, key, metric, reset) ==
    [metrics |-> Put(snap.metrics, key, metric),
     resets  |-> IF SentinelReset(reset) THEN Drop(snap.resets, key)
                 ELSE Put(snap.resets, key, reset)]

\* Faulty variant: the bucket met last is shown.
EmitLast(snap, b) ==
    IF Genuine(b)
    THEN NewRow(snap, GeminiPool(b.model), Left(Percent(b.remaining), None), b.reset)
    ELSE snap

\* One bucket of the response, wherever in it it was found: the lowest of a
\* pool is kept, with its reset.
Emit(snap, b) ==
    LET key == GeminiPool(b.model)
        beaten == key \in DOMAIN snap.metrics
                  /\ snap.metrics[key].remaining <= Percent(b.remaining)
    IN IF Genuine(b) /\ ~beaten
       THEN NewRow(snap, key, Left(Percent(b.remaining), None), b.reset) ELSE snap

\* The entries of a quotas array are taken as they come.
ArrayEntry(snap, q) ==
    LET key == GeminiPool(q.model) IN
    [metrics |-> Put(snap.metrics, key, Left(Percent(q.remaining), None)),
     resets  |-> IF q.reset = "none" THEN snap.resets ELSE Put(snap.resets, key, q.reset)]

\* A field looked up by name, or met in the sweep over all fields after that,
\* stands for a row if there is none.
FieldRow(snap, key, value) ==
    IF key \in DOMAIN snap.metrics THEN snap
    ELSE [metrics |-> Put(snap.metrics, key, Left(Percent(value), None)),
          resets  |-> snap.resets]
SweptKey(field) == IF field = "quota" THEN "quota" ELSE "quota_model_pro"

\* What follows the buckets, up to the sweep over the fields.
ArrayAndNamed(snap, response) ==
    LET named(s, field, key) == IF field \in DOMAIN response.fields
                                THEN FieldRow(s, key, response.fields[field]) ELSE s
        listed == FoldLeft(ArrayEntry, snap, response.quotas)
    IN named(named(named(listed, "quota_pro", "quota_pro"), "quota", "quota"),
             "pro_quota", "quota_model_pro")

-----------------------------------------------------------------------------
(* Antigravity *)

\* One model configuration: kept if it is the lowest of its pool so far.  The
\* reset of the row it replaces stays when it brings none.
AntigravityRow(snap, c) ==
    LET beaten == c.pool \in DOMAIN snap.metrics
                  /\ snap.metrics[c.pool].remaining <= Percent(c.remaining)
    IN IF c.internal \/ beaten THEN snap
       ELSE [metrics |-> Put(snap.metrics, c.pool, Left(Percent(c.remaining), 5)),
             resets  |-> IF c.reset = "none" THEN snap.resets
                         ELSE Put(snap.resets, c.pool, c.reset)]

\* The prompt credits, when both numbers are there, and the models in order.
AntigravitySnapshot(status) ==
    LET credits == IF status.credits # None /\ status.limit > 0
                   THEN Put(Empty, "quota_prompt_credits",
                            Metric("credits", None, status.credits, status.limit, 720))
                   ELSE Empty
        snap == FoldLeft(AntigravityRow, [metrics |-> credits, resets |-> Empty],
                         status.configs)
    IN Rows("antigravity", snap.metrics, snap.resets)

-----------------------------------------------------------------------------
(* Codex *)

\* One set of rate limits: whose, and the buckets by name with the percentage
\* used, the window and the reset, each of which may be missing.
MetricKey(id, bucket) ==
    CASE id = "codex" /\ bucket = "primary"   -> "rate_limit_primary"
      [] id = "codex" /\ bucket = "secondary" -> "rate_limit_secondary"
      [] id = "code_review" -> "rate_limit_code_review_primary"

CodexSnapshot(limits) ==
    LET metered == {b \in DOMAIN limits.buckets : limits.buckets[b].used # None}
        keys == {MetricKey(limits.id, b) : b \in metered}
        bucket == [key \in keys |->
                      limits.buckets[CHOOSE b \in metered : MetricKey(limits.id, b) = key]]
    IN Rows("codex",
            [key \in keys |-> Used(bucket[key].used, bucket[key].window)],
            [key \in {k \in keys : bucket[k].reset # "none"} |-> bucket[key].reset])

\* A rate-limit event of the Codex CLI; an event need not state its time.
NoTime  == 0
Event(at, limits) == [at |-> at, limits |-> limits]
NoEvent == Event(NoTime, [id |-> "none", buckets |-> Empty])

\* A dated event before one without a time (whose time is 0).
Newer(a, b) ==
    IF b = NoEvent THEN a
    ELSE IF a = NoEvent \/ a.at = NoTime \/ b.at > a.at THEN b ELSE a

\* The log: the rows of the look-back, the newest first, each with the events
\* in its text.
LogEvent(log) ==
    LET rows == {i \in DOMAIN log : log[i] # <<>>}
    IN IF rows = {} THEN NoEvent ELSE FoldLeft(Newer, NoEvent, log[Min(rows)])

\* Faulty variant: an event without a time gets none.
SessionEventUndated(file) == IF file.events = <<>> THEN NoEvent ELSE Last(file.events)

\* A session file: its last event, which is as old as the file if it states no
\* time.
SessionEvent(file) ==
    LET event == Last(file.events)
    IN IF file.events = <<>> THEN NoEvent
       ELSE IF event.at = NoTime THEN [event EXCEPT !.at = file.modified] ELSE event

\* The session files that are read, the one written last first.
WrittenAfter(f, g) ==
    \/ f.modified > g.modified
    \/ f.modified = g.modified /\ f.name > g.name
SessionFiles(files) ==
    LET seq == Ordered(files, WrittenAfter)
    IN SubSeq(seq, 1, Min({Len(seq), MaxSessionFiles}))

LatestEvent(disk) ==
    LET files == SessionFiles(disk.files)
    IN FoldLeft(Newer, LogEvent(disk.log), [i \in DOMAIN files |-> SessionEvent(files[i])])

LocalSnapshot(disk) ==
    IF LatestEvent(disk) = NoEvent THEN NoSnapshot
    ELSE CodexSnapshot(LatestEvent(disk).limits)

\* Of two metrics under one key the one that knows its window, or else the
\* one that knows how much is used, or else the live one.
PreferCodexMetric(local, live) ==
    IF (local.window = None) # (live.window = None)
    THEN IF live.window # None THEN live ELSE local
    ELSE IF local.used # None /\ live.used = None THEN local ELSE live

\* The live rows, filled up with those of the local session logs.
MergeCodexSnaps(live, local) ==
    LET keys == DOMAIN live.metrics \cup DOMAIN local.metrics
        both == DOMAIN live.metrics \cap DOMAIN local.metrics
        pick(a, b, k) == IF k \in DOMAIN a THEN a[k] ELSE b[k]
    IN IF live.metrics = Empty THEN local
       ELSE IF local.metrics = Empty THEN live
       ELSE Snapshot("codex", live.status,
              [k \in keys |-> IF k \in both
                              THEN PreferCodexMetric(local.metrics[k], live.metrics[k])
                              ELSE pick(live.metrics, local.metrics, k)],
              [k \in DOMAIN live.resets \cup DOMAIN local.resets |->
                              pick(live.resets, local.resets, k)])

-----------------------------------------------------------------------------
(* Cursor *)

\* How much of the plan is used: stated, or what is left of a limit, or the
\* requests left, or a percentage of the whole response.
CursorUsed(usage) ==
    IF usage.stated # None THEN usage.stated
    ELSE IF usage.limit > 0
    THEN (100 * (usage.limit - (IF usage.remaining = None THEN 0 ELSE usage.remaining)))
             \div usage.limit
    ELSE usage.overall

CursorSnapshot(usage) ==
    IF CursorUsed(usage) = None THEN NoSnapshot
    ELSE Rows("cursor", Put(Empty, "plan_percent_used", Used(CursorUsed(usage), 720)),
              IF usage.ends = "none" THEN Empty
              ELSE Put(Empty, "plan_percent_used", usage.ends))
=============================================================================
