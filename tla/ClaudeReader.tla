---------------------------- MODULE ClaudeReader ----------------------------
(***************************************************************************)
(* internal/provider/claudecode.go below the cache of ReaderCache: what    *)
(* one fetch of the Claude card does.                                      *)
(*                                                                         *)
(* Read resolves a token (ClaudeAuth models how), asks the usage API       *)
(* unless that API has asked for a pause, and falls back to a one-token    *)
(* inference call whose response headers carry the same two quotas.  The   *)
(* pause is remembered per API base for the whole process, below the       *)
(* cache: a forced refresh passes the cache and still meets it.            *)
(*                                                                         *)
(* The wrapper's variables and actions are those of ReaderCache; its       *)
(* source is the result of the fetch, and a payload is the account whose   *)
(* quota the rows show.  A fetch runs with the wrapper's mutex held, so    *)
(* there is one at a time; sign-ins, answers and time go on meanwhile.     *)
(***************************************************************************)
EXTENDS ReaderCache

CONSTANTS
    DefaultPause,  \* markClaudeUsageCooldown without Retry-After, in ticks
    RetryAfters    \* waits a Retry-After can name, 0 for none, in ticks

\* Claude's policy has a ladder (newProviders in internal/ui/app.go).
ASSUME PauseAssumption ==
    /\ DefaultPause \in Nat \ {0}
    /\ RetryAfters \subseteq Nat
    /\ Ladder # <<>>

VARIABLES
    at,          \* where Read stands: "resting" or one of Steps
    token,       \* in Read: the account of the resolved token
    err,         \* in Read: the usage API's refusal, "limited" or "forbidden"
    reason,      \* in Read: why the result has no rows
    prompt,      \* the card last returned asks for a sign-in
    cooldown,    \* claudeUsageCooldown: time left
    account,     \* whose credentials are stored
    provider,    \* what the provider can be relied on for
    owed         \* history: what is left of the waits the usage API asked for

reading   == <<at, token, err, reason>>
outside   == <<account, provider>>
readerVars == <<reading, prompt, cooldown, outside, owed>>
allVars   == <<vars, readerVars>>

-----------------------------------------------------------------------------
(* Data *)

Steps == {"resolving", "asking", "probing", "answered"}

\* No source configured; rejected by the token endpoint, the breaker or the
\* CLI's file; held back by a 429; another failure; a token.
Credentials == {"none", "rejected", "limited", "failing", "valid"}

\* fetchUsage: an answer with buckets or without (claudeUsageToSnapshot makes a
\* row of each), 401, 403, 429, or anything else that is no usable answer.
Usages == {"rows", "no buckets", "401", "403", "429", "broken"}

\* fetchHeaderQuota: 2xx with at least one of the utilization headers
\* (claudeHeadersToSnapshot), or any failure; headerProbeSnapshot makes nil of
\* every one of them.
Probes == {"rows", "nil"}

\* The provider answers anything, or has come to stay in a state in which it
\* answers with some of these only.
Providers == {"any", "usable", "rejecting"}
CredentialOf(p) == IF p = "any" THEN Credentials ELSE {"valid"}
UsageOf(p) == CASE p = "any" -> Usages
                [] p = "usable" -> {"rows", "403", "429"}
                [] p = "rejecting" -> {"401"}
ProbeOf(p) == CASE p = "any" -> Probes [] p = "usable" -> {"rows"} [] p = "rejecting" -> {"nil"}

\* Read returns: the wrapper sees the kind of result; why tells an empty model
\* from a card that asks for a sign-in.
Returns(kind, why) ==
    /\ source' = kind
    /\ reason' = why
    /\ at' = "answered"

-----------------------------------------------------------------------------
(* Read *)

CacheOnly == UNCHANGED readerVars
CacheIdle == UNCHANGED <<pc, forced, haveResult, elapsed, fetchAge, lastModel,
                         lastGood, backoffStep, latest, limitedRun>>

Ask(c) == Call(c) /\ CacheOnly
Serve(c) == Replay(c) /\ CacheOnly

Enter(c) ==
    /\ BeginFetch(c)
    /\ at = "resting"
    /\ at' = "resolving"
    /\ UNCHANGED <<token, err, reason, prompt, cooldown, outside, owed>>

\* Faulty variant: a forced read is let through to the usage API.
CoolingUnlessForced == cooldown > 0 /\ \A c \in Callers : ~forced[c]

Cooling == cooldown > 0

\* Manager.Resolve and what Read makes of its errors, then the look at the
\* cooldown: while it runs Read goes on as if the API had answered 429.
Resolve ==
    /\ at = "resolving"
    /\ \E credential \in CredentialOf(provider) :
       \/ credential = "none" /\ Returns("no rows", "empty") /\ UNCHANGED <<token, err>>
       \/ credential = "rejected" /\ Returns("no rows", "needs_auth") /\ UNCHANGED <<token, err>>
       \/ credential \in {"limited", "failing"} /\ Returns(credential, "none")
          /\ UNCHANGED <<token, err>>
       \/ /\ credential = "valid"
          /\ token' = account
          /\ IF Cooling THEN at' = "probing" /\ err' = "limited"
                        ELSE at' = "asking" /\ err' = err
          /\ UNCHANGED <<source, reason>>
    /\ CacheIdle
    /\ UNCHANGED <<prompt, cooldown, outside, owed>>

Pause(retryAfter) == IF retryAfter = 0 THEN DefaultPause ELSE retryAfter

\* fetchUsage returns.  A 429 is remembered before anything else is tried.
UsageAnswers ==
    /\ at = "asking"
    /\ \E usage \in UsageOf(provider) :
       \/ usage = "rows" /\ Returns("quota", "none") /\ UNCHANGED <<err, cooldown, owed>>
       \/ usage = "no buckets" /\ Returns("no rows", "empty") /\ UNCHANGED <<err, cooldown, owed>>
       \/ usage = "401" /\ Returns("no rows", "needs_auth") /\ UNCHANGED <<err, cooldown, owed>>
       \/ usage = "broken" /\ Returns("failing", "none") /\ UNCHANGED <<err, cooldown, owed>>
       \/ /\ usage = "403"
          /\ err' = "forbidden"
          /\ at' = "probing"
          /\ UNCHANGED <<source, reason, cooldown, owed>>
       \/ /\ usage = "429"
          /\ \E wait \in RetryAfters :
               /\ cooldown' = Pause(wait)
               /\ owed' = IF wait > owed THEN wait ELSE owed
          /\ err' = "limited"
          /\ at' = "probing"
          /\ UNCHANGED <<source, reason>>
    /\ CacheIdle
    /\ UNCHANGED <<token, prompt, outside>>

\* Faulty variants: the probe is not tried for a token without the usage scope;
\* a probe that fails makes the pause last.
ProbeAnswersLimited ==
    /\ at = "probing"
    /\ \E probe \in ProbeOf(provider) :
       \/ probe = "rows" /\ err = "limited" /\ Returns("quota", "none")
       \/ probe # "rows" /\ err = "limited" /\ Returns("limited", "none")
       \/ err = "forbidden" /\ Returns("no rows", "needs_auth")
    /\ CacheIdle
    /\ UNCHANGED <<token, err, prompt, cooldown, outside, owed>>
ProbeAnswersExtends ==
    /\ at = "probing"
    /\ \E probe \in ProbeOf(provider) :
       \/ probe = "rows" /\ Returns("quota", "none") /\ UNCHANGED cooldown
       \/ probe # "rows" /\ err = "forbidden" /\ Returns("no rows", "needs_auth")
          /\ UNCHANGED cooldown
       \/ probe # "rows" /\ err = "limited" /\ Returns("limited", "none")
          /\ cooldown' = DefaultPause
    /\ CacheIdle
    /\ UNCHANGED <<token, err, prompt, outside, owed>>

\* headerProbeSnapshot returns; without its rows Read falls through to what the
\* usage API's refusal means.
ProbeAnswers ==
    /\ at = "probing"
    /\ \E probe \in ProbeOf(provider) :
       \/ probe = "rows" /\ Returns("quota", "none")
       \/ probe # "rows" /\ err = "forbidden" /\ Returns("no rows", "needs_auth")
       \/ probe # "rows" /\ err = "limited" /\ Returns("limited", "none")
    /\ CacheIdle
    /\ UNCHANGED <<token, err, prompt, cooldown, outside, owed>>

\* The wrapper stores and returns the result; rows are those of the token.
Return(c) ==
    /\ at = "answered"
    /\ EndFetch(c)
    /\ source = "quota" => lastModel'.payload = token
    /\ at' = "resting"
    /\ prompt' = (source = "no rows" /\ reason = "needs_auth")
    /\ token' = Nobody
    /\ err' = "none"
    /\ reason' = "none"
    /\ UNCHANGED <<cooldown, outside, owed>>

-----------------------------------------------------------------------------
(* The environment *)

\* A sign-in with another account.
SignIn ==
    /\ account' \in Payloads \ {account}
    /\ CacheIdle
    /\ UNCHANGED <<source, reading, prompt, cooldown, provider, owed>>

ProviderChanges ==
    /\ provider' \in Providers \ {provider}
    /\ CacheIdle
    /\ UNCHANGED <<source, reading, prompt, cooldown, account, owed>>

Less(time) == IF time = 0 THEN 0 ELSE time - 1

\* A fetch takes seconds and a tick is minutes: no time passes during one.
\* (ReaderCache lets time pass while it fetches.)
TimePasses ==
    /\ at = "resting"
    /\ \/ Tick
       \/ /\ elapsed = Horizon /\ fetchAge = Horizon
          /\ cooldown > 0 \/ owed > 0
          /\ UNCHANGED vars
    /\ cooldown' = Less(cooldown)
    /\ owed' = Less(owed)
    /\ UNCHANGED <<reading, prompt, outside>>

-----------------------------------------------------------------------------

ReaderInit ==
    /\ Init
    /\ source = "no rows"
    /\ at = "resting"
    /\ token = Nobody
    /\ err = "none"
    /\ reason = "none"
    /\ prompt = FALSE
    /\ cooldown = 0
    /\ account \in Payloads
    /\ provider \in Providers
    /\ owed = 0

Fetching == Resolve \/ UsageAnswers \/ ProbeAnswers \/ \E c \in Callers : Return(c)

ReaderNext ==
    \/ \E c \in Callers : Ask(c) \/ Serve(c) \/ Enter(c)
    \/ Fetching
    \/ SignIn \/ ProviderChanges \/ TimePasses

ReaderSpec == ReaderInit /\ [][ReaderNext]_allVars

\* As in ReaderCache: the refresh loop keeps reading, requests time out and
\* time passes.
FairReaderSpec ==
    /\ ReaderSpec
    /\ SF_allVars(TimePasses)
    /\ WF_allVars(Fetching)
    /\ \A c \in Callers :
         /\ WF_allVars(Ask(c))
         /\ SF_allVars(Serve(c) \/ Enter(c))

-----------------------------------------------------------------------------
(* Properties *)

ReaderTypeOK ==
    /\ TypeOK
    /\ at \in Steps \cup {"resting"}
    /\ token \in Payloads \cup {Nobody}
    /\ err \in {"none", "limited", "forbidden"}
    /\ reason \in {"none", "empty", "needs_auth"}
    /\ prompt \in BOOLEAN
    /\ cooldown \in Nat
    /\ account \in Payloads
    /\ provider \in Providers
    /\ owed \in Nat

\* The usage API gets the pause it asked for in full: no read, not even one
\* forced by a click or by a sign-in with another account, asks it before the
\* longest wait it named has passed.
UsageGetsItsPause == [][at # "asking" /\ at' = "asking" => owed = 0]_allVars

\* The probe rides out the usage API's refusals: as long as the inference API
\* answers and the usage API does not reject the token or break down, the card
\* ends up showing live rows of the account in use, and after a change of
\* account never again those of the other.
ProbeRidesOut ==
    \A p \in Payloads :
        <>[](provider = "usable" /\ account = p)
          => <>[](lastModel = Model("quota", p))

\* A token both APIs reject ends in a card that asks for a sign-in, though the
\* rejection stays hidden behind a running pause and the wrapper's backoff.
SignInAsked ==
    <>[](provider = "rejecting") => <>[]prompt
=============================================================================
