------------------------------ MODULE MCReaders ------------------------------
(***************************************************************************)
(* The four readers without an account of LimitDock's own.  They share no  *)
(* state and the aggregator calls one after the other, so a behaviour      *)
(* follows one of them, chosen at the start, through everything that can   *)
(* happen to it, while the others stand still.                             *)
(***************************************************************************)
EXTENDS Integers, FiniteSets

CONSTANTS
    MaxLogins, MaxTokens, MaxAccounts, MaxSerial,
    Ports, StatusFiles, FixedFiles, EndpointTTL, PathTTL, Cutoff

VARIABLES
    reader,
    codexFile, live, codexUsed, codexCalm, rotating, codexPc, doc, codexTried, rows,
    codexCard, spoiled,
    geminiFile, geminiUsed, geminiCalm, geminiPc, creds, geminiToken, geminiCard, shown,
    renewed,
    db, cursorCalm, cursorPc, auth, cursorToken, cursorTried, cursorCard, cache, issued,
    ports, disk, regime, endpoints, endAge, paths, pathAge, antigravityPc, pending, todo,
    held, best, antigravityCard, disturbed

codexVars ==
    <<codexFile, live, codexUsed, codexCalm, rotating, codexPc, doc, codexTried, rows,
      codexCard, spoiled>>
geminiVars ==
    <<geminiFile, geminiUsed, geminiCalm, geminiPc, creds, geminiToken, geminiCard, shown,
      renewed>>
cursorVars ==
    <<db, cursorCalm, cursorPc, auth, cursorToken, cursorTried, cursorCard, cache, issued>>
antigravityVars ==
    <<ports, disk, regime, endpoints, endAge, paths, pathAge, antigravityPc, pending, todo,
      held, best, antigravityCard, disturbed>>

Codex == INSTANCE CodexAuth WITH
    file <- codexFile, used <- codexUsed, calm <- codexCalm, pc <- codexPc,
    tried <- codexTried, card <- codexCard

Gemini == INSTANCE GeminiAuth WITH
    file <- geminiFile, used <- geminiUsed, calm <- geminiCalm, pc <- geminiPc,
    token <- geminiToken, card <- geminiCard

Cursor == INSTANCE CursorAuth WITH
    calm <- cursorCalm, pc <- cursorPc, token <- cursorToken, tried <- cursorTried,
    card <- cursorCard

AntigravityApp == INSTANCE Antigravity WITH pc <- antigravityPc, card <- antigravityCard

ASSUME ReadersAssumption ==
    /\ Codex!CodexAssumption /\ Gemini!GeminiAssumption
    /\ Cursor!CursorAssumption /\ AntigravityApp!AntigravityAssumption

Readers == {"codex", "gemini", "cursor", "antigravity"}

vars == <<reader, codexVars, geminiVars, cursorVars, antigravityVars>>

CodexAlone ==
    /\ reader = "codex"
    /\ UNCHANGED <<reader, geminiVars, cursorVars, antigravityVars>>
GeminiAlone ==
    /\ reader = "gemini"
    /\ UNCHANGED <<reader, codexVars, cursorVars, antigravityVars>>
CursorAlone ==
    /\ reader = "cursor"
    /\ UNCHANGED <<reader, codexVars, geminiVars, antigravityVars>>
AntigravityAlone ==
    /\ reader = "antigravity"
    /\ UNCHANGED <<reader, codexVars, geminiVars, cursorVars>>

Init ==
    /\ reader \in Readers
    /\ Codex!Init /\ Gemini!Init /\ Cursor!Init /\ AntigravityApp!Init
    /\ rotating => reader = "codex"

Next ==
    \/ CodexAlone /\ Codex!Next
    \/ GeminiAlone /\ Gemini!Next
    \/ CursorAlone /\ Cursor!Next
    \/ AntigravityAlone /\ AntigravityApp!Next

\* The fairness of each reader's own specification.
FairSpec ==
    /\ Init /\ [][Next]_vars
    /\ WF_vars(CodexAlone /\ Codex!Read)
    /\ WF_vars(GeminiAlone /\ Gemini!Read) /\ WF_vars(GeminiAlone /\ Gemini!TokenExpires)
    /\ WF_vars(CursorAlone /\ Cursor!Read)
    /\ WF_vars(AntigravityAlone /\ AntigravityApp!Read)
    /\ SF_vars(AntigravityAlone /\ AntigravityApp!Tick)

-----------------------------------------------------------------------------

\* Every variable keeps its type, in all four.
TypeOK == Codex!TypeOK /\ Gemini!TypeOK /\ Cursor!TypeOK /\ AntigravityApp!TypeOK

\* The borrowed Codex login stays usable for its owner (CodexAuth).
LoginStaysUsable == Codex!LoginStaysUsable

\* The races of the borrowed logins heal: with everybody calm the Codex card
\* shows live rows if the file's refresh token works, Gemini's shows those of
\* the login its refresh token belongs to, and Cursor's returns.
RacesHeal == Codex!Heals /\ Gemini!MixtureHeals /\ Cursor!RowsReturn

\* A token that was refreshed serves until its time: Gemini's from the file,
\* Cursor's from the cache (GeminiAuth, CursorAuth).
NoNeedlessRefresh == Gemini!RefreshedOnce /\ Cursor!NoNeedlessRefresh

\* Cursor's rows are filed under the account they belong to (CursorAuth).
FiledUnderItsAccount == Cursor!FiledUnderItsAccount

\* Antigravity's files: the newest or nothing (Antigravity).
NewestOrNothing == AntigravityApp!NewestOrNothing

\* A language server that stays is found (Antigravity).
LiveReturns == AntigravityApp!LiveReturns

\* Stale Antigravity rows go away (Antigravity).
StaleEnds == AntigravityApp!StaleEnds
=============================================================================
