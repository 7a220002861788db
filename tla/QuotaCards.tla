----------------------------- MODULE QuotaCards -----------------------------
(***************************************************************************)
(* From the providers' answers to the cards on the dock, one refresh after *)
(* another:                                                                *)
(*   provider.go  Aggregator.Read, which calls the readers in their order  *)
(*                and merges what they return                              *)
(*   quota.go     Cards, SnapshotToCard, CollectBands                      *)
(* with the conversions of QuotaRows inside the readers' answers.  Status  *)
(* and rows only: captions, reset texts and the order of the cards are     *)
(* layout.                                                                 *)
(***************************************************************************)
EXTENDS QuotaRows

CONSTANTS
    GeminiResponses,     \* [buckets, quotas, fields]
    ClaudeAnswers,       \* snapshots, or Failed
    CodexLive,           \* the live snapshot, or Failed
    CodexDisks,          \* [log, files]: what the Codex CLI has left on disk
    CursorUsages,
    AntigravityStatuses,
    HiddenSets,          \* the sets of rows the user may have hidden
    MaxBands,            \* GaugeMaxBands
    Warn, Crit           \* GaugeWarnPercent, GaugeCritPercent

\* Normalize leaves the band cap between 1 and 4 and the thresholds in order.
ASSUME QuotaAssumption ==
    /\ MaxBands \in 1..4
    /\ Warn \in Nat \ {0} /\ Crit \in Nat /\ Warn <= Crit

VARIABLES
    at,       \* the reader Aggregator.Read calls next, or "done"
    response, \* what the reader converting now got, kept for the properties
    unread,   \* Gemini: buckets not visited yet
    swept,    \* Gemini: fields not visited yet
    snap,     \* Gemini: metrics and resets so far
    out,      \* the merged model: a snapshot for each key
    failed,   \* firstErr # nil
    hidden,   \* the rows hidden when the cards were made
    cards,    \* a card for each key
    status,   \* of the panel: "waiting" or "updated"
    heard     \* history: the rows each reader returned in this refresh

vars == <<at, response, unread, swept, snap, out, failed, hidden, cards, status, heard>>

-----------------------------------------------------------------------------
(* quota.go *)

ModelKeys  == {Pro, Flash, "quota_model_pro", "quota_model_claude"}
PooledKeys == {"quota", "quota_pro", "quota_flash"}

\* PreferSpecificQuotaModelRows, DisplayQuotaMetricKey: rows of models push the
\* pooled ones aside, and the plan is shown for Cursor.
Shown(s, key) ==
    /\ key \in PooledKeys => DOMAIN s.metrics \cap ModelKeys = {}
    /\ key = "plan_percent_used" => s.provider = "cursor"

\* RemainingPercent, None when it cannot be told.
RemainingPercent(m) ==
    IF m.unit = "%" /\ m.remaining # None THEN Clamped(m.remaining)
    ELSE IF m.unit = "%" /\ m.used # None THEN Clamped(100 - m.used)
    ELSE IF m.limit > 0 /\ m.remaining # None THEN Clamped((100 * m.remaining) \div m.limit)
    ELSE IF m.limit > 0 /\ m.used # None THEN Clamped(100 - (100 * m.used) \div m.limit)
    ELSE None

\* codexEmptyWindowGuess and ribbonSortTier.
Guess(key) == CASE key = "rate_limit_primary" -> 5 [] key = "rate_limit_secondary" -> 168
                [] key = "rate_limit_code_review_primary" -> 12 [] OTHER -> 999999
Tier(key)  == CASE key = "rate_limit_primary" -> 5 [] key = "rate_limit_secondary" -> 22
                [] key = "rate_limit_code_review_primary" -> 30 [] OTHER -> 5000

Band(s, key) ==
    LET window == s.metrics[key].window IN
    [key |-> key, percent |-> RemainingPercent(s.metrics[key]),
     tier |-> IF s.provider = "codex" THEN Tier(key) ELSE 0,
     hours |-> IF window # None THEN window
               ELSE IF s.provider = "codex" THEN Guess(key) ELSE 999999]

Bands(s) == {Band(s, key) : key \in {k \in DOMAIN s.metrics :
                 Shown(s, k) /\ RemainingPercent(s.metrics[k]) # None}}

\* Keys in their alphabetic order.
Alphabet == <<"plan_percent_used", "quota", Flash, Pro, "quota_model_claude",
              "quota_model_pro", "quota_pro", "quota_prompt_credits",
              "rate_limit_code_review_primary", "rate_limit_primary",
              "rate_limit_secondary", "usage_five_hour", "usage_seven_day">>
Rank(key) == CHOOSE i \in DOMAIN Alphabet : Alphabet[i] = key

Before(a, b) ==
    \/ a.tier < b.tier
    \/ a.tier = b.tier /\ a.hours < b.hours
    \/ a.tier = b.tier /\ a.hours = b.hours /\ a.percent < b.percent
    \/ a.tier = b.tier /\ a.hours = b.hours /\ a.percent = b.percent /\ Rank(a.key) < Rank(b.key)

Exhausted(b) == b.percent = 0
Capped(seq, cap) == SubSeq(seq, 1, IF cap < Len(seq) THEN cap ELSE Len(seq))

\* Faulty variant: cuts to the cap before the exhausted rows are taken forward.
CollectBandsCutFirst(s, cap, gone) ==
    LET seq == Capped(Ordered({b \in Bands(s) : b.key \notin gone}, Before), cap)
    IN SelectSeq(seq, Exhausted) \o SelectSeq(seq, LAMBDA b : ~Exhausted(b))

\* The rows of a card: in order, then the exhausted ones taken forward.
CollectBands(s, cap, gone) ==
    LET left == {b \in Bands(s) : b.key \notin gone}
    IN Capped(Ordered({b \in left : Exhausted(b)}, Before)
                \o Ordered({b \in left : ~Exhausted(b)}, Before), cap)

\* The level of the rows shown, overruled by the snapshot's status.
Level(st, bands) ==
    LET lowest == Min({b.percent : b \in ToSet(bands)} \cup {100})
        metered == IF bands = <<>> THEN "status"
                   ELSE IF 100 - lowest >= Crit THEN "critical"
                   ELSE IF 100 - lowest >= Warn THEN "warn" ELSE "ok"
    IN IF st \in {"needs_auth", "error"} THEN "critical"
       ELSE IF st = "stale" /\ metered # "critical" THEN "warn" ELSE metered

SnapshotToCard(s, gone) ==
    LET bands == CollectBands(s, MaxBands, gone) IN
    [status   |-> s.status,
     bands    |-> bands,
     allBands |-> CollectBands(s, 128, {}),
     level    |-> Level(s.status, bands),
     main     |-> CASE s.status = "needs_auth" -> "sign in" [] s.status = "error" -> "error"
                    [] OTHER -> IF bands = <<>> THEN "loading" ELSE "percent",
     cue      |-> Cardinality(Bands(s)) > MaxBands]

NeedsAttention(s) == s.status \in {"needs_auth", "stale", "error"}

\* Faulty variant: a card whose rows are all hidden is left out.
CardsShown(model, gone) ==
    LET made == [k \in DOMAIN model |-> SnapshotToCard(model[k], gone)]
    IN Restrict(made, {k \in DOMAIN made : made[k].bands # <<>> \/ NeedsAttention(model[k])})

Cards(model, gone) ==
    LET made == [k \in DOMAIN model |-> SnapshotToCard(model[k], gone)]
    IN Restrict(made, {k \in DOMAIN made : made[k].allBands # <<>> \/ NeedsAttention(model[k])})

-----------------------------------------------------------------------------
(* The answers, as far as the readers take them *)

\* The key is one of those above, only Cursor has a plan, and what is left can
\* be told.
LegibleRow(key, m) ==
    /\ key \in ToSet(Alphabet) \ {"plan_percent_used"}
    /\ m \in [unit : {"%", "credits"}, used : Int, remaining : Int, limit : Int, window : Int]
    /\ RemainingPercent(m) # None
LegibleEvent(e) ==
    /\ e = Event(e.at, e.limits) /\ e.at \in Nat
    /\ e.limits.id \in {"codex", "code_review"}
    /\ DOMAIN e.limits.buckets \subseteq {"primary", "secondary"}
    /\ \A b \in DOMAIN e.limits.buckets :
          e.limits.buckets[b].used \in Int /\ e.limits.buckets[b].window \in Int

\* The rows of the log are read by time, the newest first.
NewestFirst(log) ==
    /\ log \in Seq(ToSet(log))
    /\ \A i, j \in DOMAIN log : i <= j =>
          \A e \in ToSet(log[i]), later \in ToSet(log[j]) : later.at <= e.at

\* Events are appended to a file, the last one when it is written.
Appended(file) ==
    /\ file.name \in Nat /\ file.modified \in Nat
    /\ \A e \in ToSet(file.events) : e.at <= SessionEvent(file).at

ASSUME AnswersAssumption ==
    /\ \A s \in ClaudeAnswers \cup CodexLive : \A k \in DOMAIN s.metrics :
          LegibleRow(k, s.metrics[k])
    /\ \A s \in CodexLive : \A k \in DOMAIN s.metrics : s.metrics[k].used # None
    /\ \A r \in GeminiResponses :
          /\ r.quotas \in Seq(ToSet(r.quotas))
          /\ \A b \in r.buckets \cup ToSet(r.quotas) : b.remaining \in Int
          /\ \A f \in DOMAIN r.fields : r.fields[f] \in Int
    /\ \A st \in AntigravityStatuses :
          /\ st.configs \in Seq(ToSet(st.configs)) /\ st.credits \in Int /\ st.limit \in Int
          /\ \A c \in ToSet(st.configs) :
                c.pool \in ModelKeys /\ c.remaining \in Int /\ c.internal \in BOOLEAN
    /\ \A usage \in CursorUsages :
          /\ usage.stated \in Int /\ usage.limit \in Int
          /\ usage.remaining \in Int /\ usage.overall \in Int
    /\ \A disk \in CodexDisks :
          /\ NewestFirst(disk.log) /\ IsFiniteSet(disk.files)
          /\ \A f \in disk.files : Appended(f) /\ f.events \in Seq(ToSet(f.events))
          /\ \A f, g \in disk.files : f.name = g.name => f = g
          /\ \A events \in ToSet(disk.log) \cup {f.events : f \in disk.files} :
                /\ events \in Seq(ToSet(events))
                /\ \A e \in ToSet(events) : LegibleEvent(e)

-----------------------------------------------------------------------------
(* provider.go *)

Order == <<"claude", "codex", "gemini", "cursor", "antigravity">>
After(reader) ==
    IF reader = "antigravity" THEN "cards"
    ELSE Order[1 + CHOOSE i \in DOMAIN Order : Order[i] = reader]

\* In place of an answer: the reader returned an error.
Failed == StatusOnly("none", "failed")

\* mergeReadModel: each reader has a snapshot key of its own; an empty model
\* adds nothing.
Merged(model, reader, s) == IF s = NoSnapshot THEN model ELSE Put(model, reader, s)

Returns(reader, s) ==
    /\ at' = After(reader)
    /\ out' = Merged(out, reader, s)
    /\ heard' = heard \cup {<<reader, k>> : k \in DOMAIN s.metrics}
    /\ UNCHANGED failed

\* A failing reader is noted, and the next one is asked.
Fails(reader) ==
    /\ at' = After(reader)
    /\ failed' = TRUE
    /\ UNCHANGED <<out, heard>>

Answer(reader, a) == IF a = Failed THEN Fails(reader) ELSE Returns(reader, a)

-----------------------------------------------------------------------------
(* One refresh *)

NoResponse == [buckets |-> {}, quotas |-> <<>>, fields |-> Empty, configs |-> <<>>]
NoStatus   == [configs |-> <<>>, credits |-> None, limit |-> None]
NoRows     == [metrics |-> Empty, resets |-> Empty]

gemini == <<response, unread, swept, snap>>
result == <<hidden, cards, status>>

Init ==
    /\ at = "claude"
    /\ response = NoResponse /\ unread = {} /\ swept = {} /\ snap = NoRows
    /\ out = Empty /\ failed = FALSE /\ heard = {}
    /\ hidden = {} /\ cards = Empty /\ status = "waiting"

ReadClaude ==
    /\ at = "claude"
    /\ \E a \in ClaudeAnswers : Answer("claude", a)
    /\ UNCHANGED <<gemini, result>>

\* What the disk says fills up the live rows; the reader fails only when it has
\* neither.
ReadCodex ==
    /\ at = "codex"
    /\ \E live \in CodexLive, disk \in CodexDisks :
          LET local == LocalSnapshot(disk) IN
          /\ response' = [live |-> live, disk |-> disk]
          /\ IF live = Failed
             THEN Answer("codex", IF local = NoSnapshot THEN Failed ELSE local)
             ELSE Returns("codex", MergeCodexSnaps(live, local))
    /\ UNCHANGED <<unread, swept, snap, result>>

\* Gemini fails, or answers with buckets somewhere in a map, among them the
\* entries of a quotas array.
ReadGemini ==
    /\ at = "gemini"
    /\ \/ /\ Fails("gemini")
          /\ response' = NoResponse
          /\ UNCHANGED <<unread, swept, snap>>
       \/ /\ \E r \in GeminiResponses :
                /\ response' = r
                /\ unread' = r.buckets \cup ToSet(r.quotas)
                /\ swept' = DOMAIN r.fields
          /\ at' = "buckets"
          /\ UNCHANGED <<snap, out, failed, heard>>
    /\ UNCHANGED result

VisitBucket ==
    /\ at = "buckets" /\ unread # {}
    /\ \E b \in unread :
          /\ unread' = unread \ {b}
          /\ snap' = Emit(snap, b)
    /\ UNCHANGED <<at, response, swept, out, failed, heard, result>>

VisitArray ==
    /\ at = "buckets" /\ unread = {}
    /\ snap' = ArrayAndNamed(snap, response)
    /\ at' = "fields"
    /\ UNCHANGED <<response, unread, swept, out, failed, heard, result>>

VisitField ==
    /\ at = "fields" /\ swept # {}
    /\ \E f \in swept :
          /\ swept' = swept \ {f}
          /\ snap' = FieldRow(snap, SweptKey(f), response.fields[f])
    /\ UNCHANGED <<at, response, unread, out, failed, heard, result>>

GeminiDone ==
    /\ at = "fields" /\ swept = {}
    /\ Returns("gemini", Rows("gemini_cli", snap.metrics, snap.resets))
    /\ response' = NoResponse
    /\ snap' = NoRows
    /\ UNCHANGED <<unread, swept, result>>

ReadCursor ==
    /\ at = "cursor"
    /\ \/ Fails("cursor")
       \/ \E usage \in CursorUsages : Returns("cursor", CursorSnapshot(usage))
    /\ UNCHANGED <<gemini, result>>

\* Antigravity never fails: without a status it returns an empty model.
ReadAntigravity ==
    /\ at = "antigravity"
    /\ \E st \in AntigravityStatuses \cup {NoStatus} :
          /\ response' = st
          /\ Returns("antigravity", AntigravitySnapshot(st))
    /\ UNCHANGED <<unread, swept, snap, result>>

\* The whole read fails only if there is nothing to show; the cards of the
\* refresh before stay then.  The settings are copied now.
Refreshed ==
    /\ at = "cards"
    /\ at' = "done"
    /\ IF out = Empty /\ failed
       THEN status' = "waiting" /\ UNCHANGED <<hidden, cards>>
       ELSE \E gone \in HiddenSets :
               /\ hidden' = gone
               /\ cards' = Cards(out, gone)
               /\ status' = "updated"
    /\ UNCHANGED <<response, unread, swept, snap, out, failed, heard>>

\* The next refresh.  Old cards are of no consequence to it.
Again ==
    /\ at = "done"
    /\ at' = "claude"
    /\ response' = NoResponse /\ out' = Empty /\ failed' = FALSE /\ heard' = {}
    /\ hidden' = {} /\ cards' = Empty /\ status' = "waiting"
    /\ UNCHANGED <<unread, swept, snap>>

Next ==
    \/ ReadClaude \/ ReadCodex
    \/ ReadGemini \/ VisitBucket \/ VisitArray \/ VisitField \/ GeminiDone
    \/ ReadCursor \/ ReadAntigravity
    \/ Refreshed \/ Again

Spec == Init /\ [][Next]_vars

-----------------------------------------------------------------------------
(* Properties *)

\* The lowest of what the offers of one pool leave, and the resets of those.
Lowest(offers) == Min({Percent(o.remaining) : o \in offers})
ResetsOf(offers) ==
    {o.reset : o \in {p \in offers : Percent(p.remaining) = Lowest(offers)}}

\* A pool that several models draw on is shown by its lowest model, in whatever
\* order the response's map is visited; a Gemini row counts down to the reset of
\* a model with that little left, and a model the plan does not offer shows
\* nowhere.  (Not when a quotas array overrides the buckets.)
LowestOfPool ==
    /\ at = "fields" /\ response.quotas = <<>> =>
         \A key \in {Pro, Flash} :
            LET offers == {b \in response.buckets : GeminiPool(b.model) = key /\ Genuine(b)}
            IN IF offers = {} THEN key \notin DOMAIN snap.metrics
               ELSE /\ snap.metrics[key].remaining = Lowest(offers)
                    /\ IF key \in DOMAIN snap.resets
                       THEN snap.resets[key] \in ResetsOf(offers)
                       ELSE \E r \in ResetsOf(offers) : SentinelReset(r)
    /\ at = "cards" =>
         \A pool \in {c.pool : c \in ToSet(response.configs)} :
            LET offers == {c \in ToSet(response.configs) : c.pool = pool /\ ~c.internal}
            IN offers # {} =>
                  out["antigravity"].metrics[pool].remaining = Lowest(offers)

\* Whatever the order of the log rows and the session files and whichever of
\* them state their times, the local Codex rows are those of one event, the
\* newest there is, never of two; live rows stay as they are unless that event
\* knows more of their window.  (Events are appended, so that a file's last one
\* is as old as the file.  More files than MaxSessionFiles without an event may
\* push the newest event out of sight.)
EventsIn(disk) ==
    LET visible == {f \in disk.files :
                      Cardinality({g \in disk.files : WrittenAfter(g, f)}) < MaxSessionFiles}
        dated(f) == {e \in ToSet(f.events) : e.at # NoTime}
        undated(f) == {Event(f.modified, e.limits) :
                         e \in {x \in ToSet(f.events) : x = Last(f.events) /\ x.at = NoTime}}
    IN UNION ({ToSet(row) : row \in ToSet(disk.log)}
                \cup {dated(f) \cup undated(f) : f \in visible})
NewestIn(events) == {e \in events : \A other \in events : other.at <= e.at}
NewestLocalRows ==
    at = "gemini" =>
       LET events == EventsIn(response.disk)
           live == response.live.metrics
           rows == IF "codex" \in DOMAIN out THEN out["codex"].metrics ELSE Empty
       IN IF events = {} THEN rows = live
          ELSE \E e \in NewestIn(events) :
                  LET local == CodexSnapshot(e.limits).metrics IN
                  /\ DOMAIN rows = DOMAIN live \cup DOMAIN local
                  /\ \A k \in DOMAIN rows :
                       \/ k \in DOMAIN live /\ rows[k] = live[k]
                       \/ /\ k \in DOMAIN local /\ rows[k] = local[k]
                          /\ k \in DOMAIN live => live[k].window = None

\* "A 0 percent model is meaningful and must remain visible unless the user hides
\* it" (docs/PRODUCT_DESIGN.md:9): exhausted rows come first whatever their
\* window, all of them as far as the card has room, and the card turns critical
\* (unless the file names a percentage above 100 for that, which no row reaches).
ExhaustedShown ==
    \A k \in DOMAIN cards :
       LET empty == {b \in Bands(out[k]) : b.percent = 0 /\ b.key \notin hidden}
           front == ToSet(Capped(cards[k].bands, Cardinality(empty)))
       IN /\ front \subseteq empty
          /\ Cardinality(front) = Min({Cardinality(empty), MaxBands})
          /\ empty # {} /\ Crit <= 100 => cards[k].level = "critical"

\* No provider's failure and no choice of hidden rows takes a row out of reach:
\* every row a reader returned can be picked on a card of the dock, except the
\* pooled ones that rows of models replace, and the read fails only when no
\* reader returned any.
EveryRowOffered ==
    at = "done" =>
       \A h \in heard :
          /\ status = "updated"
          /\ \/ h[1] \in DOMAIN cards
                /\ h[2] \in {b.key : b \in ToSet(cards[h[1]].allBands)}
             \/ h[2] \in PooledKeys
=============================================================================
