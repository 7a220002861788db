# LimitDock: specifications and proofs

LimitDock is a Windows dock that shows how much of its quota each AI coding
assistant has left. This directory holds TLA+ modules for the parts of the
program where something can go wrong between two lines of code: credentials that
several actors write, a throttled and backed-off cache, refreshes that overlap,
two threads that move one window, and a desktop that outlives the process. TLC checks the modules on small instances,
TLAPS proves the main theorems for all values of the constants.

Paths below are relative to `src/`; `internal/` is left out where it is clear.

## 1. Inventory

| Component | State | Operations | Meets | What makes it correct |
|---|---|---|---|---|
| Claude credentials (`claudeauth/`) | environment, store record, CLI file, token gate (strikes, deadline) | `Resolve`, `refresh`, `ExchangeCode`, `SaveSetupToken` | credential store, Claude reader, sign-in dialogs | the endpoint is never hammered; a sign-in sticks; a setup-token works at once |
| Credential store (`credstore/`, `fsutil/atomic.go`) | one encrypted file per provider | `Load`, `Save` | Claude credentials | a reader finds the old or the new record |
| Provider cache (`provider/cache.go`) | last result, last good rows, backoff step, time of the last fetch | `Read` | every reader; refresh goroutines queue for its mutex | throttle kept, forced reads served, failures degrade to the newest rows, recovery |
| Aggregator (`provider/provider.go`) | none | `Read`, fallback filter, merge | readers, refresh cycle | first reader wins a key; an error only if there is nothing to show |
| Claude reader (`provider/claudecode.go`) | usage cooldown | `Read`, usage endpoint, header probe | credentials, cache | the cooldown is kept, a sign-in prompt appears when needed |
| Codex reader (`provider/codex.go`) | `auth.json` shared with the Codex CLI | `Read`, token refresh, merge of live and log rows | Codex CLI | live rows filled up with local ones; the login in the CLI's file stays usable |
| Gemini reader (`provider/geminicli.go`) | credentials file shared with the Gemini CLI | `Read`, token refresh | Gemini CLI | races with the CLI heal; the lowest model of a pool is shown |
| Cursor reader (`provider/cursor.go`) | token cache keyed by the database token | `Read`, refresh | Cursor's database | a cached token never outlives its account |
| Antigravity reader (`provider/antigravity.go`) | endpoint cache (60 s), path cache (5 min) | `Read`, probing of local ports, status files | language server | a server that stays is found; stale quota (45 min) ages out |
| Quota cards (`quota/`) | none | `Cards`, `SnapshotToCard`, `CollectBands` | settings, read model | exhausted rows first, every row can be reached |
| Settings (`settings/`) | `settings.json`, `a.cfg` | `Load`, `Save`, `Normalize`, `HiddenSet` | dialogs, refresh, dock | memory equals file; normal form is stable |
| Refresh cycle (`ui/app.go`) | `cards`, `readSeq`, `appliedSeq`, status, tray entry | `refreshLoop`, `refreshOnce`, `manualRefresh` | aggregator, settings, UI thread | the newest refresh with the newest settings has the last word |
| Dock window (`ui/app.go`) | `visible`, `revealed`, cached display, window, appbar | `applyDock`, `setStatusVisible`, pin, `hoverLoop` | settings, displays, cursor | both threads agree on the window; no flicker, no stuck dock |
| Reserved work area (`ui/app.go`, `native/windows.go`) | appbar, `baseWork`, Windows' work area | reserve, restore, delayed restore helper | dock window, shutdown | what was taken is given back; an accident costs one strip at most |
| Startup and shutdown (`cmd/limitdock`, `ui/app.go`) | mutex, shutdown flag | single instance, `beginShutdown`, `finishShutdown` | everything | cleanup happens once |
| Dock geometry (`ui/app.go`) | none | `dockRect`, `revealKeepRect`, `nearDockEdge`, ... | dock window | keep zone contains reveal strip |

Who calls whom: `refreshLoop` and every user action that needs new numbers start
`refreshOnce`; it calls `Aggregator.Read`, which asks each cached reader in turn;
the Claude reader asks the credential manager for a token. The UI thread owns the
settings and the window; goroutines reach it through `Synchronize` only, and share
`a.mu` with it for a handful of fields.

The hard behaviour is listed, at its line, under `hazards` in `PROJECT.json`. The
kinds that dominate are: a value read before a network call and used after it;
overlapping refreshes; and a background thread that posts a window change and
records it without waiting.

## 2. Modules

### ClaudeAuth - `claudeauth/*.go`, `credstore/store.go`

One background refresher (the mutex of the cache wrapper serialises it), any number
of browser sign-ins, setup-tokens, the CLI's file. `Resolve`, `CheckBreaker`,
`CheckCooldown`, `RefreshAnswered` and `SaveRefreshed` are the pieces of
`Manager.Resolve`/`resolveStore`/`refresh` between two accesses to shared state: the
gate's lock is taken twice, the store is read, then written. `ConnectClicked`,
`ExchangeAnswered`, `SaveExchanged` are the sign-in dialog and `ExchangeCode`.
`EndpointAnswers` is `postTokenForm`: the classes of answers the code tells apart and
their effect on the gate. Times are the time that remains, counted down by `Tick`.

History variables record what the properties speak of: who signed in last
(`connected`), whether that sign-in met a refresh under way (`overtaken`,
`clobbered`), and what the endpoint answered (`refused`, `owed`).

### ReaderCache, ThrottledSource - `provider/cache.go`

`ThrottledSource` states what a caller may rely on: one fetch at a time, no unforced
fetch before the source is due, the newest rows after a failure. `ReaderCache` is
`cachedReader.Read` with its mutex: `Call`, `Replay`, `BeginFetch`, `EndFetch`.
`KeepsPromise` is the refinement. Times are ages, cut off at the largest interval the
policy knows.

### Refresh - `ui/app.go` 285-327 and what starts a refresh

`Begin`, `ReadFetches`/`ReadReplays`, `CopySettings`, `Apply`, `PostTray` and
`ShowUpdated` are `refreshOnce`, cut where another goroutine can come in. The UI thread
is one process: a handler, or a posted closure (`RunPosted`). A settings dialog's save
is two steps, because the settings are in place while the file is written
(`WriteSettings`, then `SettingsSaved` or `SettingsSaveFailed`). `dialogs` is the stack of
settings dialogs whose `Run` has not returned, each with the gauge settings it was opened
with: its save starts from those, and starts a refresh only if it changes one of them, the
theme, the docking, the opacity or the interval. Of the settings, the module keeps what
the cards depend on: the gauge fields, which dialogs save and put back, and the hidden
rows, one map that every copy shares. `before` is what a save under way found, `refreshes`
whether it is going to start a refresh.
`readSeq`/`appliedSeq` are only ever compared, so the module keeps what they decide:
`older[r]`, the refreshes under way with a smaller number than `r`, and `outdated`, those
whose number is below `appliedSeq`.

`behind` is history, and the only excuse for cards that lag. It is set by a read that
failed; by a failed save whose settings a refresh had copied (`glimpsed`) or that ends with
other gauge settings than it found; and by a dialog that, because another was saved while
it was open, brings older gauge settings back without a refresh: by a Save that changes
nothing else that matters, or when it is cancelled. The newest refresh that applies
settings which stay clears it.

### DockWindow - `ui/app.go` 804-1128, 1285-1442, `native/monitors.go`

`ApplyDock` is `applyDock`; `Dock` follows a handler that changed the settings first. A
save takes three steps: `WriteSettings` puts the settings in place, where hoverLoop sees
them while the file is written; `SettingsSaved` closes the dialog and `Dock` follows, or
`SettingsSaveFailed` puts the earlier ones back and nothing follows.
`HoverTick` to `HoverSetsRevealed` are one turn of `hoverLoop`: copy the settings, stand
down or re-dock or look at the cursor, post a closure, set `a.revealed`. Rectangles are
abstracted to the display the dock is on and to three cursor zones (at the docked edge,
in the keep zone, away). The one-second period of the display check is replaced by
strong fairness. `crossed` is history: a change of one thread met an unfinished change
of the other, settings changed without an `applyDock`, or hoverLoop had begun a slide
(`Sliding`) when a failed save put the settings of a dock back that does not slide; a later
undisturbed `applyDock` clears it. One settings dialog is open at a time here; nested ones
are the business of `SettingsDialog`.

### Settings, SettingsDialog - `settings/settings.go`, `ui/app.go` 1220-1442

`Settings` is `Normalize` as an operator. In `SettingsDialog` the variable `stack` holds
the dialogs whose `Run` has not returned: `Run` is a message loop inside the handler that
opened the dialog, so the pin and other dialogs' buttons work meanwhile, and the code
behind `Run` (`Return`) waits until every dialog opened later has ended. The handlers
run on the UI thread and are one step each; `snapshotCfg` of a refresh (`CopyBegins`,
`CopyEnds`) is the only other thread. Every copy of the settings shares the map of hidden
rows, which is therefore one variable. `Restart` is the end of the process, at any time,
and `Run` with `createWindow` after it.

History: `unsaved` (a save failed, or an overtaken dialog put back older settings),
`rowsLost`, `late` (the settings changed behind the window's back) and `pin`, the user's
last word on auto-hide. A dialog is overtaken when the settings change while it is open.
Message boxes, the startup entry and the monitor name are left out, here and in `Refresh`
and `DockWindow`.

### DockGeometry - `ui/app.go` 1130-1218, 2039-2157

Rectangles over the integers, without state: where the dock goes (`DockRect`,
`DockWorkArea`, `ReservedWorkArea`), the reveal strip (`NearDockEdge`), the keep zone
(`RevealKeepRect`, `Contains`), the probe for a neighbouring display and `DialogBounds`.
`DockWindow` works with three cursor zones, the strip inside the keep zone; that they
are nested is a theorem here.

### WorkArea - `ui/app.go` 856-970, 1497-1538, `native/windows.go`, `cmd/limitdock/main.go`

The desktop's work area as a number: how many dock strips are missing from it. `Reserve`
is the reserved half of `applyDock`, `GiveBack` the other callers of `unregisterAppBar`.
`BeginShutdown`, `FinishShutdown` and `Cleanup` are the way out, `Crash` the way without
it. `HelperRestores` is the process started with `--restore-workarea`, which takes no
mutex and may meet a program started again; `ShellTearsDown` is the Windows shell, which
may put its own idea of the work area back while it tears down the appbar of a window
that is gone. `faults` counts what nobody undoes: a call that fails, a crash with the
strip taken, a launch while a helper waits. `DockWindow` has the same operations with one
flag for the work area; it is about the two threads, this module about what is left over.

### ClaudeReader - `provider/claudecode.go`, extends `ReaderCache`

One fetch of the Claude card in its steps (`Resolve`, `UsageAnswers`, `ProbeAnswers`,
`Return`) between `BeginFetch` and `EndFetch` of the wrapper. `cooldown` is the
package-level pause of the usage API; it lies below the cache, so that a forced read
passes the cache and still meets it. What a token resolves to is a set of outcomes,
`ClaudeAuth` says how they come about. `provider` says what both APIs can be relied on
for; the liveness properties start from there. `owed` is history: the longest wait the
usage API has named and not yet got.

### CodexAuth, GeminiAuth, CursorAuth - the readers with borrowed logins

Each is one `Read` with a step between any two accesses to the file or the network, next
to the program that owns the login. `CodexAuth`: the whole of `auth.json` is read, the
token refreshed, the document written back; the endpoint may rotate (then it takes a
refresh token once), answers get lost, the process ends. `GeminiAuth`: the access token
goes into the file as it is by then (`Reread`, `Persist`), next to two expiry fields that
are independent of each other. `CursorAuth`: the file is never written, the refreshed
token is kept in memory under the database token it came from. `calm` is the point from
which everybody else leaves things alone; the liveness properties start from there.
`spoiled`, `renewed` and `issued` are history.

### Antigravity - `provider/antigravity.go`

`Read` with its two caches: the endpoints, probed at once and answering in any order, then
the status files, each read and then asked for its time. The language server and the
files change in the middle of a read too. Ages count in ticks. `disturbed` is history: a
file changed during the read. How candidates are found in logs, process lists and the
data tree is one choice; the cap of 40 paths is left out, there are fewer files.

`MCReaders` puts the four side by side for one run: they share no state, so a behaviour
follows one of them.

### QuotaRows, QuotaCards - from answers to cards

`QuotaRows` holds the conversions as operators: units (`Percent` reads a number up to one
as a fraction), pools, sentinel resets, the newest event of Codex's log and session files
(`LatestEvent`) and the merge of its rows with the live ones, the Cursor plan. What is
sorted is stated by what it must be, the elements in their order (`Ordered`); `CollectBands`
sorts once and takes the exhausted rows forward, which leaves both halves in order. What Go
finds by ranging over a map comes in any order, so `QuotaCards` visits buckets and fields one at a time in any order (`VisitBucket`, `VisitField`); the rest of
`Aggregator.Read` and of `quota.Cards` follows in `ReadClaude` to `Refreshed`. Rows are
real keys, percentages are numbers; captions are left out.

## 3. Runs

| Run | Module, configuration | Shows |
|---|---|---|
| `claude_auth` | `MCClaudeAuth.cfg` | `LockoutBound`, `RefreshStandsDown`: breaker and ladder hold however sign-ins share the endpoint. `ConnectLostOnlyToRefresh`, `SetupTokenQuiet`: what can happen to a sign-in. `SetupTokenUnblocks`: liveness |
| `claude_connect_sticks` | `MCClaudeAuthConnect.cfg` | finding: a refresh under way overwrites a sign-in |
| `reader_cache` | `MCReaderCache.cfg` | Claude's policy: throttle, degradation, forced reads, recovery, refinement |
| `refresh` | `MCRefresh.cfg` | `QuietMeansCurrent`, `StatusSettles`: what the dock shows when all is over, however refreshes, nested dialogs, failing saves, Hide and Show overlapped |
| `refresh_tray` | `MCRefreshTray.cfg` | `TraySettles`: the tray's Connect entry ends up right |
| `dock_window` | `MCDockWindow.cfg` | `ThreadsAgree`, `SlidesAway`, `SlidesIn`, `ComesToRest`, `FollowsDisplay` |
| `settings` | `MCSettingsDialog.cfg` | `RowsSurvive`, `MemoryIsFile`, `WindowAsConfigured`, `PinStands` over nested dialogs, the pin, failing saves, restarts |
| `work_area` | `MCWorkArea.cfg` | `SpaceAccounted`, `StripKept`: one strip per accident at most. `GivenBack`: an ordered end leaves the desktop whole, whatever the shell does afterwards |
| `claude_reader` | `MCClaudeReader.cfg` | `UsageGetsItsPause` against forced reads and changes of account; `ProbeRidesOut` and `SignInAsked`: rows or the sign-in card come through in the end |
| `readers` | `MCReaders.cfg` | `LoginStaysUsable` (Codex), `FiledUnderItsAccount` (Cursor), `NoNeedlessRefresh` (Gemini, Cursor), `RacesHeal` (all three), `NewestOrNothing`, `LiveReturns`, `StaleEnds` (Antigravity) |
| `quota` | `MCQuotaCards.cfg` | `LowestOfPool` in any map order, `NewestLocalRows` among dated and undated Codex events, `ExhaustedShown` under cap and hidden rows, `EveryRowOffered` however many readers fail |
| `gemini_login` | `MCGeminiLogin.cfg` | finding: a login made with the CLI during a refresh is mixed with the one before it, or lost |

Bounds, and why they are enough:

- `claude_auth`: two accounts (two tell whose token it is), one sign-in beside the
  refresher and the setup-token dialog (three writers of the store), a ladder of two
  rungs (growing wait and cap), a Retry-After longer than any rung or none, two strikes
  to the breaker and one more that only an exchange can add (`StrikeCap`). A token lives
  for one tick or none.
- `reader_cache`: two callers (one fetching, one queued), two payloads, two rungs.
  `RunCap` exceeds the ladder by one, so that the cap is met.
- `refresh`: the loop and one more refresh: the sequence guard is about pairs. Two settings
  dialogs (`MaxOpen`), as one overtakes the other; two gauge settings and two sets of
  hidden rows, old and new. The number of changes is not bounded. One closure waiting
  (`QueueCap`). The source has quota or fails; the sign-in prompt is the other run's
  question. The gauge values and the row sets are symmetric: the module only asks whether
  two are equal.
- `refresh_tray`: the same refreshes, all three sources, one dialog; the settings have one
  value, since the tray entry does not depend on them. No symmetry, as it checks liveness.
- `dock_window`: two displays, one with another display behind its docked edge; dwell
  and hide delay of two ticks (the code has more; two tell "first tick" from "last
  tick"), two closures waiting: one stale, one current.
- `settings`: two dialogs open at once (one overtakes the other), three settings to choose
  from (fixed overlay, sliding overlay, reserved) with two opacities, one row to hide.
  `FlagSeconds` is 30, the default `main.go` gives the flag.
- `work_area`: three launches, so that a helper of the first run can meet the second and
  leave something to the third; three accidents. Only the last launch may not be followed
  by another, hence no deadlock check.
- `claude_reader`: one caller (the mutex lets one fetch run; queueing is `reader_cache`'s
  question), two accounts, a default pause of two ticks, a Retry-After of three or none:
  longer than the pause and longer than the ladder.
- `readers`: Codex and Gemini two logins (a refresh under way and a new login), Codex
  three refresh tokens each, one of them kept for when all is calm; Cursor two accounts
  and three stored tokens (there and back again); Antigravity two ports, a file with a
  known name and one that is found, all time limits one tick: what matters is before and
  after.
- `quota`: up to two Gemini buckets of three models, three amounts (none, a fraction, a
  percentage), the epoch and two resets; Codex log rows and up to four session files, of
  which two are read, with and without times of their own; a card limit of two rows against three; each
  reader may fail. The hidden sets include all rows of a card.
- `gemini_login`: two logins.

Type invariants: those of the four other readers are checked by `readers` and proved;
those of `ClaudeAuth`, `ReaderCache`, `Refresh`, `DockWindow`, `WorkArea`, `SettingsDialog`
and `ClaudeReader` (`ReaderTypeOK`) are proved (section 4) and not checked again.

Fairness (`SettingsDialog` and `QuotaCards` state none, all their properties are safety
properties):

- `ClaudeAuth`: the refresh loop polls for ever and every request has a timeout, so
  background steps and time are weakly fair. Nothing is assumed of users or of the CLI.
- `ReaderCache`: reads keep coming, a fetch ends, and a goroutine queued for a
  `sync.Mutex` gets it (Go hands over in order after a millisecond): strong fairness of
  leaving the queue.
- `Refresh`: the loop's timer and refresh go on; its cache does not replay for ever
  (that is `RecoveryShown` of `ReaderCache`), hence strong fairness of its fetch. The UI
  thread finishes its handler. It takes the closures that wait even if the user saves again
  and again, which disables `RunPosted` for as long as the handler runs, because walk runs
  them between two messages: strong fairness. The loop's refresh is strongly fair because
  `QueueCap` can hold it up, the real queue cannot. Other goroutines may stall.
- `DockWindow`: the UI thread finishes its handlers and takes its closures (strong
  fairness, as in `Refresh`), the ticker fires, and one look in
  `topologyCheckTicks` compares the displays. Nothing is assumed of user, cursor and
  displays; each liveness property says what must stay as it is.
- `WorkArea`: a started shutdown goes on (goroutine, posted `WM_CLOSE`), the shell
  finishes, the helper's sleep ends. Nobody has to start, dock or exit.
- `ClaudeReader`: as `ReaderCache`; its time stands still during a fetch of seconds, so
  time is strongly fair, as it passes between any two fetches.
- `CodexAuth`, `GeminiAuth`, `CursorAuth`: the refresh loop keeps reading and every request
  has a timeout; for Gemini, tokens reach their end. Nothing is assumed of the CLIs: the
  liveness properties start when they leave things alone.
- `Antigravity`: reads go on and time passes between them (strong fairness, as above).

## 4. Proofs

`ClaudeAuthProofs` proves, for all accounts, sign-ins, ladders, Retry-After values and
limits that satisfy `LadderAssumption` and `ParameterAssumption`:

- `TypeCorrect`, `BreakerBoundsRefusals` (`LockoutBound`), `CooldownHolds`
  (`RefreshStandsDown`), `OnlyRefreshUndoesConnect` (`ConnectLostOnlyToRefresh`) and
  `SetupTokenLeavesEndpointAlone` (`SetupTokenQuiet`).

The invariant is `IInv == TypeOK /\ GateInv /\ StoreInv`. `LockoutBound` alone is not
inductive: the breaker test and the POST are steps apart, and an exchange adds strikes
in between. `GateInv` relates the refusals to the gate's strikes and says that a
refresher past the breaker has one refusal to spare; it also keeps the wait owed below
both the cooldown and the ladder's wait, which needs the ladder to be monotone
(`LadderWaitGrows`). `StoreInv` says what a refresher at work holds.

`ReaderCacheProofs` proves, for all callers, payloads, intervals and ladders that satisfy
`PolicyAssumption`:

- `TypeCorrect`, `NewestRowsSurvive` (`DegradesToNewest`), `WaitKept` (`SourceLeftAlone`)
  and `WrapperKeepsPromise` (`KeepsPromise`): the wrapper implements `ThrottledSource`.

The invariant is `IInv == TypeOK /\ OneFetch /\ StepInv /\ ShownInv`. `OneFetch` is the
mutex; without it two fetches could both end under one promise. `StepInv` ties
`backoffStep`, an index that stops at the end of the ladder, to the number of refusals in
a row, which is what the promised wait is stated in. `ShownInv` says that the remembered
rows are the newest ones any fetch brought. For the refinement each action is mapped to
the step of `ThrottledSource` it implements: `BeginFetch` to its fetch, `EndFetch` to its
answer, `Call` and `Replay` to stutters.

The same module goes on to the Claude reader, which runs inside that cache:
`ReaderImplementsCache` shows that every step of `ClaudeReader` is a step of `ReaderCache`
or leaves it alone, so that the composed reader inherits all of the above
(`ReaderKeepsPromise`). `ReaderTypeCorrect`, and `PauseKept` for `UsageGetsItsPause`, which
needs only `PauseInv`: the cooldown covers every wait the API has named, and nobody is
asking while it runs. `PauseAssumption` asks for a ladder with at least one step, as the
program has (`ui/app.go:338`).

`RefreshProofs` proves, for any number of refreshes, settings, nested dialogs and waiting
closures:

- `TypeCorrect`, `CardsCurrent` (`QuietMeansCurrent`) and `PanelSettles`
  (`StatusSettles`).

Both properties speak of a quiet program, so neither is inductive. `CoverInv` is what
holds on the way: unless the lag is excused, some refresh will store cards of the standing
settings and outdates every refresh that would store others, or the cards are of the
standing settings and nobody lags. The standing settings (`Standing`) are those in use,
except while a save is under way, which may yet be taken back: then they are what it found.
Once a refresh has copied the unsaved ones (`glimpsed`) nothing holds until the save ends,
either with a refresh of its own or with the excuse. `OrderInv` says that the sequence numbers order the refreshes totally;
`Apply` needs it to conclude that whatever it does not outdate, outdates it. `StatusInv`
says who is still going to replace `Refreshing`.

`DockProofs` proves, for any displays, dwell, hide delay and number of waiting
closures:

- `TypeCorrect` and `ThreadsKeepOnePicture` (`ThreadsAgree`).

`ThreadsAgree` speaks of moments when both threads rest. Its invariant `Picture` holds while
no `applyDock` is due on the UI thread and the threads have not crossed, also while a
settings dialog is being saved. Then it speaks of the settings that a failure would put
back (`Standing`), and hoverLoop may go by either those or the new ones (`Slidable`);
`SavingKeepsPicture` shows that both ends of the save leave a picture, an `applyDock` to come,
or crossed threads. Its parts: hoverLoop's copy of the settings is current (`LoopCurrent`), only a visible dock that slides has closures waiting
(`LoopEntitled`), every closure puts the window where the dock is (`PlaceKept`), and the last
closure says what hoverLoop is about to believe (`Agreed`). An `applyDock` waiting in the
queue makes no promise: once it runs, the picture is either right afresh (`DockedAfresh`) or
the threads have crossed.

The same module proves, for every display and work area with room for the dock, every
edge and every cursor position: `RevealInsideKeep` (no position both reveals and hides),
`RevealOnlyFromOwnDisplay`, `HiddenOffScreen`, `DockOnScreen`, `ReservedLeavesDockAlone`,
`InteriorMeansCrossable` and `DialogInsideWork`. Each is a case split over the four edges.
The tests of the repository try a few rectangles, one point in 49.

`SettingsProofs` proves for every content of `settings.json`: `NormalizeMakesNormal`, what
`Load` returns is in normal form; `NormalizeKeepsNormal`, a second `Normalize` changes
nothing, so that what is saved is what was in memory. And for any rows, any number of open
dialogs and restarts in between:

- `TypeCorrect`, `HiddenRowsSurvive` (`RowsSurvive`), `RestartFindsSettings`
  (`MemoryIsFile`), `WindowFollowsSettings` (`WindowAsConfigured`) and `PinKeepsItsWord`
  (`PinStands`).

The invariant `Inv` is about what the open dialogs are going to do. Each keeps the settings
it was opened with and puts them back when it is cancelled, so nothing can be said of memory
and file alone. `OwnChangesOnly`: unless a dialog was overtaken, what it would put back
differs from the settings in use in the opacity at most, which its slider may have moved.
`SavedButSlider`: memory and file differ by no more than that and the interval.
`SliderComesBack`: the opacity in the file is the one the dialog opened first puts back, so
that memory and file agree once the last dialog is gone. `ReservedFixed`: no settings in use
or to be put back let a reserved dock slide.

`WorkAreaProofs` proves, for any number of launches and accidents:

- `TypeCorrect`, `StripsAccounted` (`SpaceAccounted`) and `StripStands` (`StripKept`).

The invariant is `IInv == TypeOK /\ Bookkeeping /\ Accounted /\ Undisturbed`. `SpaceAccounted`
is not inductive, for it says nothing of what the shell may yet put back. `Bookkeeping` says
that only a living process holds an area; `Accounted` bounds every place a strip can hide in
(captured area, work area, teardown, helpers), the last two together with who is going to
correct them; `Undisturbed` says that before the first accident nothing outside writes the
work area of a standing dock.

`ReadersProofs` proves, for any number of logins, refresh tokens, accounts, ports and status
files:

- `EachReaderItself`: in `MCReaders` each reader behaves as its own module says, so what is
  proved of the composition is about each of them.
- `ReadersTyped` (`TypeOK`), `BorrowedLoginWorks` (`LoginStaysUsable`),
  `RowsOfTheRightAccount` (`FiledUnderItsAccount`), `RefreshOnlyWhenDue`
  (`NoNeedlessRefresh`) and the action property `NewestFileWins` (`NewestOrNothing`).

Every reader has an inductive invariant; TLC checked each on the instance of `MCReaders.cfg`
before it was proved.

- `CodexInv`: no document holds a refresh token that has not been issued, and a pair that
  waits to be saved is the newest of its login (`CodexPending`). Without the second the CLI
  could rotate the login once more under a pending save, which is the case that
  `LoginStaysUsable` alone cannot exclude.
- `GeminiInv`: a token the read has written back stands in the file with both expiry fields
  ahead; it is written by several steps and read by a later read.
- `CursorInv`: the cached token (`CursorCacheOwned`) and the row in memory
  (`CursorRowOwned`) belong to the account that was stored under their serial, and the
  token refreshed last is cached until the database has moved on (`CursorCacheLatest`).
- `AntigravityInv`: while no file changes, `best` is the least age of the files read so far.
  At the end these are all, hence the minimum; which file was first does not matter.

`AntigravityAssumption` asks that some status file has a fixed name, as five have in
`antigravity.go` (290-294); the file a read has not chosen yet is one of them.

`QuotaProofs` proves, for any answers of the providers, any number of buckets, models, log
rows, session files and refreshes, any hidden rows and any band cap `Normalize` allows:

- `PoolShowsLowest` (`LowestOfPool`), `CodexShowsNewest` (`NewestLocalRows`),
  `CardsShowExhausted` (`ExhaustedShown`) and `RowsStayInReach` (`EveryRowOffered`).

The readers fold over arrays, and the provers have no induction over data. So each fold is
unrolled into the sequence of its intermediate results (`AntigravityFold`, `ArrayFold`,
`NewestFold`): what `FoldLeft` returns is the last of them, and each follows from the one
before by one entry. What holds of all of them is shown by `Induction`, stated for a set of
naturals rather than a predicate, from the least element of a set. Sorting is a matter of
places: in a strict order the elements of a finite set take the places 1 to n, one each
(`Places`); `FilePlaces` and `BandPlaces` apply this to session files and rows.

- `GeminiInv` is about the buckets visited so far: the row of a pool is that of one of the
  lowest of them, with its reset if it has a genuine one (`PoolRow`). The property names a
  minimum; the invariant names a bucket that attains it, which one more bucket can be
  compared with (`EmitStep`).
- `AntigravityShown` and `BeforeCodex` hold from the reader's return until the next one;
  `AntigravityLowest` and `LocalNewest` say what the fold has found then.
- `ModelInv` relates model and cards: every row of the model can be told
  (`RemainingPercent` is a number), and what was heard of a reader is in the model. Without
  the first a row could be read and be missing from its card.

`AnswersAssumption` says what answers are: keys the program has, whole numbers, events of a
file in the order they were appended, log rows the newest first (`ORDER BY`,
`codex.go`), one file per name. TLC evaluates it on the instance of `MCQuotaCards.cfg`. The
proof of `CardsShowExhausted` does not go through for a critical percentage above 100:
`Normalize` leaves such a number of the file as it is (`settings.go:135`; the dialog's field
ends at 100), and no row reaches it. `ExhaustedShown` states the colour up to 100.

Only model-checked:

- Everything under fairness (TLAPS has no rules here for `WF`, `SF` and `ENABLED`):
  `RacesHeal`, `LiveReturns`, `StaleEnds`, `ProbeRidesOut`, `SignInAsked`, `GivenBack` and
  the liveness properties of the other modules.

## 5. Findings

Two places where the code does something other than a document says have a run that
shows it and an entry in `PROJECT.json`:

1. `claudeauth/claudeauth.go:257`: a refresh that loaded the older record overwrites a
   sign-in saved meanwhile (`docs/USER_MANUAL.md:175`).
2. `provider/geminicli.go:349`: a login made with the Gemini CLI during a refresh is mixed
   with the one before it, or replaced by it (`docs/ARCHITECTURE.md:50`: "there is no race
   there"). `RacesHeal` shows that a mixture heals when the file has a refresh token and an
   expiry field; the replaced login is lost.

Further disagreements, met while modelling, have no run of their own:

- `ui/app.go:158`: the default of `-RefreshSeconds` (`cmd/limitdock/main.go:17`) replaces the
  saved interval at every start, and the next save of anything writes it into the file
  (`docs/ARCHITECTURE.md:100`).
- `ui/app.go:1400`: a failed Save puts the settings back but not the previewed opacity;
  Cancel then finds nothing to undo and the window keeps the preview
  (`docs/USER_MANUAL.md:104`: "`Cancel` restores the previous opacity, and `Save` persists
  it"). `WindowAsConfigured` excepts it (`late`).
- `ui/app.go:823`: the pin (and the row picker, `ui/app.go:1273`) saves the preview of an open
  dialog; after Cancel the next start has it (the same line). `MemoryIsFile` excepts it
  (`unsaved`).
- `claudeauth/claudeauth.go:105`: a 429 without Retry-After replaces, and so shortens, the
  longer wait an earlier one asked for (`docs/ARCHITECTURE.md:45`).
- `ui/app.go:325`: overlapping refreshes may post the tray entry in another order than
  they stored the cards (`docs/USER_MANUAL.md:157`); `TraySettles` bounds how long.
- `ui/app.go:1413`: saving a docking change in the settings dialog shows a hidden dock
  (`docs/USER_MANUAL.md:77`).
- `ui/app.go:1418`: two settings dialogs can be open. One that was overtaken by the other's
  Save brings older settings back, and starts a refresh only if it changes one of its own
  that matters: the cards may keep the other's until the next refresh. `QuietMeansCurrent`
  excepts it (`behind`).
- `ui/app.go:1395`: settings whose save fails are in `a.cfg` while the file is written. A
  refresh that copies them leaves its cards until the next one; hoverLoop may start to hide
  a pinned dock that the dialog was about to make sliding, and nothing shows it again until
  the next `applyDock`. `behind` and `crossed` except the two.
- `provider/codex.go:295`: `Save` puts the document read before the POST over a login made
  with the Codex CLI meanwhile. The login in the file works, so `LoginStaysUsable` holds; it
  is the older one.
- `ui/app.go:1073`: only an auto-hidden overlay follows its display; a pinned or reserved
  one waits for another `applyDock` (`docs/USER_MANUAL.md:108`).
- `ui/app.go:1240`: opening the row picker inserts into the shared map of hidden rows
  without the lock (comment at `ui/app.go:1255`).
- `ui/app.go:1254`: saving the row picker drops the hidden marks of rows that are not on
  the card at that moment (`docs/USER_MANUAL.md:49`).
- `provider/geminicli.go:426`: entries of a `quotas` array are taken as they come: the last
  one wins, and sentinel resets count. `LowestOfPool` leaves them out.
- `provider/codex.go:120`: the comment says that the live rows win; `preferCodexMetric`
  takes a local row that knows its window before a live one that does not, and the reset
  time then comes from the other source.
- `provider/antigravity.go:758`: a row replaced by a lower model of its pool keeps the
  reset of the former when the lower one brings none.
- `provider/antigravity.go:937`: a remaining value of exactly 1 is read as all of it.
- `provider/geminicli.go:219`: a 401 is an error, not a request to sign in.
- `settings/settings.go:135`: the settings dialog ends the critical percentage at 100
  (`ui/app.go:1348`), `Normalize` does not; above 100 no card turns critical.
- `quota/quota.go:85`: a card whose rows are all hidden says `Loading`.

## 6. Plan

Done: everything but what 10 has left. The order is by how much of the program's
behaviour depends on a part.

1. `ClaudeAuth` and its proofs.
2. `ReaderCache` with `ThrottledSource`.
3. `Refresh`.
4. `DockWindow`.
5. `Settings` and `SettingsDialog`.
6. `WorkArea` with shutdown.
7. `ClaudeReader`.
8. `CodexAuth`, `GeminiAuth`, `CursorAuth`, `Antigravity`.
9. `QuotaRows`, `QuotaCards`, `DockGeometry`.
10. Proofs: every invariant and action property of a passing run is a theorem, and so is the
    refinement of `ThrottledSource`. Next: what the folds of `QuotaRows` give when a
    `quotas` array overrides the buckets, and the safety half of the liveness properties.

## 7. Not modelled

Painting, themes, logging, paths and the Win32 bindings keep no state the other parts
read back. The release tool and `ldiag` are not part of the running program. The PKCE
challenge, the parsing of pasted codes and the encryption of the store are data to the
properties above. `readmodel` declares types.

Inside the modelled parts: how an event is cut out of a log text and parsed (the event is
an input), how Antigravity's ports and paths are found, how dates
are parsed, captions and reset texts, the order of the cards, the fallback filter of
`Aggregator.Read` (no two readers the program builds share a provider), the monitor
name and the startup entry in the registry.

## 8. Running

    tlc -config MCClaudeAuth.cfg MCClaudeAuth
    tlc -config MCReaderCache.cfg MCReaderCache
    tlc -config MCRefresh.cfg MCRefresh
    tlc -config MCRefreshTray.cfg Refresh
    tlc -config MCDockWindow.cfg DockWindow
    tlc -config MCSettingsDialog.cfg MCSettingsDialog
    tlc -config MCWorkArea.cfg WorkArea
    tlc -config MCClaudeReader.cfg MCClaudeReader
    tlc -config MCReaders.cfg MCReaders
    tlc -config MCQuotaCards.cfg MCQuotaCards

These end with the counterexample of a finding:

    tlc -config MCClaudeAuthConnect.cfg MCClaudeAuth
    tlc -config MCGeminiLogin.cfg GeminiAuth

The proofs:

    tlapm ClaudeAuthProofs.tla
    tlapm WorkAreaProofs.tla
    tlapm ReaderCacheProofs.tla
    tlapm RefreshProofs.tla
    tlapm SettingsProofs.tla
    tlapm DockProofs.tla
    tlapm ReadersProofs.tla
    tlapm QuotaProofs.tla
