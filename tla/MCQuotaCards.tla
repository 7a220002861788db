---------------------------- MODULE MCQuotaCards ----------------------------
\* Answers with two models of one family, sentinel buckets, unit slips, a live
\* Codex row without window, and every reader failing.
EXTENDS QuotaCards

Hundredths == {0, 15, 8000}
Buckets == [model : {"gemini-3-pro", "gemini-2.5-pro", "gemini-2.5-flash"},
            remaining : Hundredths, reset : {"epoch", "soon", "late"}]

Arrays == {<<>>, <<[model |-> "gemini-3-pro", remaining |-> 15, reset |-> "soon"]>>}
FieldSets == {Empty, Put(Put(Empty, "quota_pro", 80), "gemini_pro_remaining", 15)}

Responses ==
    [buckets : {{}} \cup {{a, b} : a \in Buckets, b \in Buckets},
     quotas : Arrays, fields : FieldSets]

ClaudeRows(five, seven) ==
    Snapshot("claude_code", "ok",
             Put(Put(Empty, "usage_five_hour", Used(five, 5)),
                 "usage_seven_day", Used(seven, 168)), Empty)
Claude == {Failed, StatusOnly("claude_code", "needs_auth"), ClaudeRows(15, 100),
           [ClaudeRows(15, 30) EXCEPT !.status = "stale"]}

Limits(id, buckets) == [id |-> id, buckets |-> buckets]
Bucket(used, window) ==
    [used |-> used, window |-> window, reset |-> IF window = None THEN "none" ELSE "soon"]
Codex(primary) ==
    Limits("codex", Put(Put(Empty, "primary", primary), "secondary", Bucket(85, 168)))
Review == Limits("code_review", Put(Put(Empty, "primary", Bucket(100, None)),
                                    "secondary", Bucket(None, 168)))

Live == {Failed, CodexSnapshot(Limits("codex", Put(Empty, "primary", Bucket(15, None))))}

\* Files with and without times, written at different times, one without events.
Logs  == {<<>>, <<<<>>, <<Event(2, Review)>>, <<Event(1, Codex(Bucket(60, 5)))>>>>}
Old   == [name |-> 1, modified |-> 1, events |-> <<Event(NoTime, Codex(Bucket(30, 5)))>>]
Dated == [name |-> 2, modified |-> 3,
          events |-> <<Event(1, Review), Event(2, Codex(Bucket(30, 5)))>>]
Late  == [name |-> 3, modified |-> 3,
          events |-> <<Event(NoTime, Codex(Bucket(60, 5))), Event(NoTime, Review)>>]
Bare  == [name |-> 4, modified |-> 3, events |-> <<>>]
Disks == [log : Logs, files : SUBSET {Old, Dated, Late, Bare}]

Usages == {[stated |-> None, limit |-> 0, remaining |-> None, overall |-> None, ends |-> "none"],
           [stated |-> None, limit |-> 40, remaining |-> None, overall |-> 5, ends |-> "late"]}

Config(pool, remaining, internal, reset) ==
    [pool |-> pool, remaining |-> remaining, internal |-> internal, reset |-> reset]
Statuses ==
    {[configs |-> <<Config("quota_model_claude", 15, FALSE, "soon"),
                    Config("quota_model_claude", 0, TRUE, "none"),
                    Config("quota_model_claude", first, FALSE, "none"),
                    Config(Pro, 0, FALSE, "late")>>,
      credits |-> 0, limit |-> 500] : first \in Hundredths}

Hideable == {{}, {Pro}, {Pro, Flash, "quota_model_pro"},
             {"rate_limit_code_review_primary", "usage_seven_day", "plan_percent_used"}}
=============================================================================
