# go-mega: TLA+ models, model checking and proofs

go-mega is a self-hosted file sharing server: an account uploads a file, gets a
link `/d/<hash>` that is limited in time and in downloads, and visitors consume
downloads until the link is used up, expires, is deleted by its owner or is
removed by the background cleanup. This directory specifies the parts of the
program where steps interleave, fail or are cut by a restart.

Run `tlc -config X.cfg M` for a run (`PROJECT.json` lists module, cfg and
expectation of each) and `tlapm` on each module whose name ends in `Proofs` for
the proofs.

## 1. Inventory of the system

| component | source | state | operations |
|---|---|---|---|
| share store | `models/shared_file.go`, `handlers/downloads.go`, `handlers/uploads.go` (create, delete), `cmd/server/main.go` (cleanup) | table `shared_files`, files under `storage/uploads` | direct upload, landing page, consuming download, preview, delete by the owner, cleanup every 15 minutes |
| chunked uploads | `handlers/uploads.go:357-853` | directories `storage/chunks/<id>` (`meta.json`, `NNNNN.part`), plus the two above | start, chunk, complete |
| accounts and sessions | `models/user.go`, `auth/session.go`, `handlers/auth.go` | tables `users`, `sessions`; the signed cookie in the browser | setup, login, logout, authentication of every request; ban, unban (no caller) |
| rate limiter | `middleware/ratelimit.go` | counters by address and `lastReset`, in memory, under one mutex | count and decide |
| admission of uploads | `handlers/uploads.go`, `models/shared_file.go`, `models/user.go` | none of its own; reads `users.role`, `meta.json`, the sum of stored sizes | role limits, clamping, size, quota, type and expiry, once for each upload path |
| MIME allowlist | `models/shared_file.go:330-389`, `cmd/server/main.go` | table `allowed_mime_types` | seeding at start-up if the table is empty; read by both upload paths |
| filename sanitizer | `services/filename_sanitizer.go` | none | sanitize (direct path), validate |
| CSRF tokens | `auth/session.go:181-241` | the cookie `csrf_token` in the browser | ensure a token on pages, compare on POST |
| server process | `cmd/server/main.go` | the cleanup goroutine, the router | start, cleanup ticker, shutdown (`srv.Close`) |
| database | `db/db.go`, `db/schema.sql` | a `database/sql` pool with **one** connection | open, apply the schema |
| configuration | `config/config.go` | `Cfg`, read once | load |
| headers, templates, QR code, preview, landing page, bans table | see `PROJECT.json` | none that changes | per-request helpers |

How they interact. Every request is a goroutine of its own: rate limiter, then
`LoadUser` or `RequireAuth` (two queries), then a handler. Handlers share the
table and the directory and nothing else; there is no lock around "file and
row". The cleanup goroutine reads the table and removes files and rows beside
them. All database calls take a connection from the pool. `SetMaxOpenConns(1)`
makes each single statement exclusive, and makes anything that needs a
connection while holding one wait for ever.

What is hard in it:

* a file operation and the statement that belongs to it are two steps, in
  different orders in different handlers (upload: file, then row; delete and
  cleanup: file, then row; download: row, then file);
* the check before a long copy (quota, role, session) is stale after it;
* the cleanup works from a snapshot, in an open result set, with one connection;
* errors are often ignored (`used, _ :=`, `cnt, _ :=`, `_, _ = db.Exec`);
* chunk requests of one session write the same directory without a lock;
* the chunked path settles the terms of an upload when it starts and records
  them when it completes, perhaps days and restarts later, under checks that are
  written a second time;
* a restart cuts all of it between any two steps, the seeding of the MIME table
  included, and an empty table admits every type;
* the only state of the CSRF check is in the browser, whose tabs overwrite each
  other's.

What makes each component correct:

* share store: a visible row has a whole file; a file has a row; a link is
  granted within its terms, delivered at most as often as granted, and never
  comes back; dead links go away; quotas hold up to concurrency;
* chunked uploads: what is shared is what was announced, nothing is left over;
* admission: both paths decide alike, an ordinary user never gets an unlimited
  link, only listed types are admitted, names are harmless;
* CSRF: a form of the server is refused only because its cookie went away, and
  the cookie settles;
* accounts: a cookie never comes to mean somebody else, an ended session stays
  ended, setup closes;
* rate limiter: a bound per address in any stretch of a window, and no address
  is refused for what another did.

## 2. Modules

| module | what it is |
|---|---|
| `ShareLink` | what a link promises: the abstract specification (publish, grant, deliver, withdraw) |
| `ShareStore` | the store: handlers, cleanup, restart; refines `ShareLink` |
| `UploadPromise` | what a chunked upload promises: the abstract specification (announce, ask, share, close) |
| `ChunkedUpload` | start, chunk and complete over the session directories; refines `UploadPromise` |
| `FilenameSanitizer` | the sanitizer and the validator as operators on sequences of character classes |
| `Admission` | the decisions of both upload paths, with start-up, restarts and changes between two requests; extends `FilenameSanitizer` |
| `Csrf` | the double-submit token in a browser with several tabs |
| `RateLimit` | the limiter |
| `Accounts` | setup, login, logout, authentication |
| `ShareStoreProofs`, `QuotaProofs` | the theorems about `ShareStore`; the second extends the first and holds the one about quotas |
| `ChunkedUploadProofs`, `CsrfProofs`, `RateLimitProofs`, `AccountsProofs` | the theorems about the module of that name |
| `FilenameSanitizerProofs`, `AdmissionProofs` | what the sanitizer returns for names of any length; the theorems about `Admission`, which use it |
| `MCShareStore`, `MCChunkedUpload`, `MCAdmission`, `MCCsrf`, `MCRateLimit`, `MCAccounts` | symmetry sets and values for TLC |

In each module a definition whose name extends the one below it
(`ActiveOffByOne` above `Active`) is a plausible bug of that definition. Nothing
uses it; substituted for the original it makes TLC refute a property. The list
`mutants` of `PROJECT.json` says which.

### ShareStore

`rows` is the table (`NoRow` where there is none), `blobs` the files (absent,
partial, whole), `issued` the hashes generated so far. A share names its hash,
its row and its storage key together: the key is a prefix of the hash and both
are random. `pc`, `target`, `job` are a handler's position and locals; `sweepPc`,
`sweepRows`, `sweepCur` those of the cleanup. What a user stores is the number of
`Bytes` of his rows: the sum of a query, as the size of a set. `tomb`, `delivered`, `debris` and
`kept` are history that no action reads.

| code | actions |
|---|---|
| `HandleUploadCreate`, `CreateSharedFileFromUpload` | `AdmitUpload`, `AdmitUnmetered` (failed quota query), `CreateBlob`, `AbandonUpload`, `CopyBlob`, `CopyFails`, `InsertRow`, `InsertFails` |
| `HandleUploadComplete`, after the same checks | `CreateFinal`, `MergeParts`, `MergeFails`, `CopyFails` (the size is wrong), then `InsertRow`, `InsertFails` |
| `HandleDownloadConsume`, `IncrementDownload` | `LookUp`, `GrantDownload`, `RefuseDownload`, `OpenBlob`, `FileMissing` |
| `HandleUploadDelete`, `SharedFile.Delete` | `FindOwned`, `UnlinkBlob`, `DeleteShare`, `DeleteFails` |
| `runCleanup`, `cleanupExpired` | `StartSweep`, `SweepUnlink`, `SweepDelete`, `SweepDeleteFails`, `EndSweep` |
| shutdown, start | `Crash` |
| the clock | `Tick` |

One action is one database call or one file operation with the Go code around
it. `ConnFree` guards every database call: the cleanup's result set pins a
connection from `StartSweep` to `EndSweep`. Requests that fail a check change
nothing and are not steps. The two clock readings of `IncrementDownload` and
the query are one reading of `now`. The copy is one step from partial to whole;
what others could see in between is the partial file.
The two upload paths meet here: an admitted upload goes on as a direct one or as
the completion of a chunked one, against the same quota, table and cleanup. The
second reads the clock after its copy and leaves its file when a part cannot be
read (`debris`); what happens to its session is `ChunkedUpload`.
Every caller of `os.Remove` ignores its error. `Unlink` therefore removes the file,
or leaves it (`kept`) and lets the caller go on as if it were gone: the owner's
delete and the cleanup then delete the row of a file that stays for ever.
The queries a handler makes between the quota check and the
file (the MIME table), and those it makes only to render its answer, are not
steps of their own: they change nothing, and a pool that is blocked for them is
blocked for the next statement as well.

### ChunkedUpload

`meta` is the announced size in `meta.json`, `parts` the part files, `stored` and
`pieces` the merged files, `rows` the rows. A part is a set of two halves, so
that a file can be seen half written, and, because `os.Create` truncates and
two writers keep their own offsets, with its second half only. A file's size is
the number of its `Bytes`, the halves it has. `req` is a handler's request: of a
chunk (`ChunkRequest`), of completion (`CompleteRequest`) or none (`Idle`).

| code | actions |
|---|---|
| `HandleUploadStart` | `Start` |
| `HandleUploadChunk` | `ChunkArrives`, `CreatePart`, `CopyFirstHalf`, `CopySecondHalf`, `ChunkFails` |
| `HandleUploadComplete` | `CompleteArrives` (reads the directory), `Sniff` (the type, from the part that sorts first at that moment), `RefuseComplete` (role, quota, type, hash), `CreateFinal`, `AppendPart`, `AppendFails`, `SizeOK`, `SizeMismatch`, `InsertRow`, `InsertFails`, `RemoveMeta`, `RemovePart`, `RemoveEnds`, `RemoveFails` (`os.RemoveAll` entry by entry; its error is ignored) |
| shutdown | `Crash` |

`os.RemoveAll` unlinks the entries of a session one at a time and in any order, so a
restart or an error (`RemoveFails`) can leave `meta.json`, parts, or both, and other
requests see the directory half removed. `Discard` is an `os.Remove` whose error
is ignored. `CompleteArrives` reads `meta.json` and lists the directory in one step.

`orphans`, `debris`, `kept`, `cut` and `early` are history. `UploadPromise` (with `Closed`, `Ticket`
and `Shares` for its variables) says what is left of
a session when its directory is forgotten: every request for completion that
finds it open holds a ticket for one share of the announced size, and the session
is closed, for good, only after a share. A retry whose first answer was lost can
therefore share the file a second time, and only while the session was still
there when it asked.

Clients are the upload page's script and retries of its requests, so the
index of a chunk is below the number of chunks. A part is read in one step when
it is merged; reading it in pieces while two other requests rewrite it could
also give a shorter part with a hole, which has the same consequences as the
hole modelled.

### Admission and FilenameSanitizer

One upload is followed from its form to its link. `CreateDirect` is the direct
path in one step (its races are those of `ShareStore`); `Start` and `Complete` are
the two requests of the chunked path, `session` is `meta.json` with the form it came
from. Between them anything may happen: `ChangeRole` (an operator's UPDATE),
`Elsewhere` (what is stored for the user changes), `Crash` and a new start of the
server. `Boot`, `SeedOne`, `SeedDone`, `SeedFails` are start-up: the server listens
only after seeding ended, with whatever result, and `SeedDefaultMimeTypes` leaves
a table alone that is not empty. `Reading` is the list as a request reads it, which
may be cut by an ignored error; `faulty` is the history variable that remembers
such errors. The lifetime is a product that wraps at 2^63 (`Wrap`, over `Half`).
`DetectPadded` is the type the direct path sniffs: from a buffer that a short file
leaves filled with zeros, which is why a short text is no text to it. Each check that the code has twice is
two definitions here (`DirectFits` and `CompleteFits`, `DirectTerms`, `StartTerms` and
`CompleteTerms`, ...), so that one of them can drift from the other.

A name is a sequence of symbols of seven classes. `SanitizeFilename` is the
composition of its rules in the order of the code, `IsValidFilename` the other
definition of a good name in the same file. The two rules that drop symbols
(`Strip`, `Collapse`) say which places they `Keep`; the symbol at `Place(kept, k)`
becomes the `k`-th.

### Csrf

`jar` is the cookie, `tab` what each tab shows or waits for. The server is the two
operators `EnsureCSRF` and `VerifyCSRF`; `Open`, `Arrive`, `Lose`, `Accept`,
`RefuseWithForm`, `RefuseWithText` are the browser's steps with the server's answers,
`Clear` takes the cookie away (it expires, the user clears it). An answer that sets
a cookie may arrive after other answers, so it can overwrite a newer one. Tokens
are numbers, fresh ones from `minted`: the random bytes never repeat. Every
form-rendering page and every refusing handler is one of the two answers. A form
whose body could not be read is empty, since the errors of parsing are ignored
(`FormToken`): the server refuses it although the cookie is there, and `unread`
counts such forms.

### RateLimit

`Count` is the critical section, `Serve` and `Refuse` the decision outside it.
`Restart` clears the counters and may switch `ENABLE_BANNING`.

### Accounts

`users`, `sessions` and `lastId` (AUTOINCREMENT) are the tables, `cookie` the
browsers' jars. A handler's database calls are steps; `Answer` may be lost.
`ShareCookie` copies a cookie to another browser. Ban and Unban have no caller
in the program, so nobody is banned and the checks for it are left out here and
in `ShareStore`.

## 3. Runs

Passing runs:

| run | properties | shows |
|---|---|---|
| `Store_one_conn` | `RowsHaveWholeFiles`, `FilesHaveRows`, `QuotaOvershootBounded`, `SweepFreezesRows`, `AnsweredUnlessSweeping` | the configured pool: rows and files stay consistent except where a fault or a failed removal left them otherwise; a quota is exceeded by one upload per other handler or failed query at most; a cleanup with work freezes the table, and nothing else holds a request up |
| `Store_two_conns` | `TypeOK`, `IInv`, `DownloadsWithinLimit`, `SweepSparesActive`, `KeepsPromise`, `DeadRowsReaped` | a cleanup that can finish, and two handlers racing for the last download of a link on any terms: the inductive invariant, its consequences, the refinement, and with fair scheduling every dead link is deleted |
| `Chunks` | `TypeOK`, `SharedIsComplete`, `SharedHasItsSize`, `PartsHaveSession`, `FilesAccountedFor`, `TypeReadFromFile`, `KeepsPromise` | chunks in any order, early completion, a restart, removals that stop half way, up to two requests sent again: what is shared is what was announced, and the session keeps `UploadPromise` |
| `Admission` | `TypeOK`, `PathsAgree`, `UserLinksAreLimited`, `TypesAreListed`, `NamesAreValid`, `NamesAreHarmless` | both paths on forms at the edges of every limit and on every short name, with restarts during seeding and changes between the two requests |
| `Csrf` | `TypeOK`, `RefusalsArePaidFor`, `TokensSettle` | three tabs whose first pages overwrite each other's token, a cookie that is cleared, and forms that cannot be read |
| `Rate_limit` | `TypeOK`, `AtMostTwiceInAnyWindow`, `AtMostLimitSinceReset`, `RefusedOnlyForOwnRequests` | two addresses over several windows |
| `Accounts_sessions` | `TypeOK`, `ActsForOwner`, `SetupRaceIsBounded`, `EndedStaysEnded` | two browsers, lost answers, shared cookies, failed statements |

Runs that find a disagreement between the code and what the repository says:

| run | property | what happens |
|---|---|---|
| `Store_sweep_hangs` | `DeadRowsReaped` | `cleanupExpired` calls `Exec` inside its open result set; with one connection it waits for itself, and so does every later request |
| `Store_counted_not_served` | `CountedDownloadIsServable` | the download that uses a link up is counted; the cleanup unlinks the file before it is opened |
| `Chunks_hole` | `PartsAreValidated` | a chunk sent twice is truncated under its first writer; the length is right, the beginning is not there, and completion accepts it |
| `Chunks_merge_orphans` | `FailedMergeLeavesNothing` | an error while merging leaves the file |
| `Accounts_setup_race` | `OneAdmin` | two setup requests both create an administrator |

### Bounds

Two handlers are enough for every race at the store, because each property
relates at most two handlers and the cleanup; one link suffices where links
do not interact (the races at one link, in `Store_two_conns`, there with every
combination of terms), two where the cleanup visits one while another changes or
where a quota adds up (`Store_one_conn`). What the safety properties say of more
handlers and links is covered by the proofs. The clock runs to 1 with a lifetime of
1, so links expire before, during and after every operation; limits are
unlimited (0), 1 and 2, and -1 for an administrator's form. `MaxCount` stops new
downloads of a link and is at least every limit that is checked. `MaxFaults`
counts restarts, failed DELETEs, failed removals of a file and failed quota
queries: one in `Store_one_conn`, two in `Store_two_conns`, so that a removal and
the DELETE after it can both fail. Chunked files have one
or two chunks of two halves. One upload session is enough, since two share
nothing but a directory in which each writes under fresh names; three handlers
let two completions race with a chunk. `MaxResends` is 2 in `Chunks` for clients
that retry; what only holds for the upload page's script, which sends everything
once, says `resends = 0`. `Admission` follows one form, because forms meet only in
the quota, which `Elsewhere` moves; names have up to four symbols with a limit of
three, so that the cut, the extension that is as long as the limit and every pair
of rules that can undo each other occur; an hour is 4 units of a `Duration` of
256 values, so that 24 hours fit and 33 wrap. `Csrf` has three tabs (two that
overwrite each other and one that loses), five tokens, one clear and one form of each that cannot be read. `RateLimit` uses a limit
of 1 and a window of 2. The models stop when their bounds are reached, so the
runs do not look for deadlock; that the real program cannot go on is shown by
the liveness properties instead.

`Never = 99` stands for the year 9999. Symmetry is used only in runs without
liveness properties.

### Fairness

`FairSpec` assumes weak fairness of each handler in flight (the Go scheduler
runs a goroutine that can go on) and of the cleanup (the ticker fires every 15
minutes). Nothing is assumed about arrivals, about the clock or about faults,
whose number is bounded. `Store_two_conns` takes a pool of two connections, not
the configured one: it shows that the query inside the loop is all that
separates the program from cleaning up. It says nothing of the program as it is:
with the configured pool
`Store_sweep_hangs` refutes `DeadRowsReaped` and `Store_one_conn` shows
that nothing but that cleanup blocks a request.

## 4. Proofs

The theorems hold for all values of the constants that satisfy the named
assumptions of the modules, which TLC evaluates in every run:

| module | assumed |
|---|---|
| `ShareStore` | finitely many handlers, at least one; sentinels outside the types; integers in the forms, natural numbers as limits, a pool of at least one connection |
| `ChunkedUpload` | sentinels outside the types; finitely many sizes, all positive |
| `Admission` | default types that are not empty; a day that fits into a `time.Duration`; natural-number limits |
| `FilenameSanitizer` | a positive limit |
| `Csrf` | a finite, non-empty set of tabs |
| `RateLimit` | finitely many requests, a positive window; the limit may be any integer |
| `Accounts` | finitely many browsers, and `NoUser` is nobody's address |

The bounds (`MaxFaults`, `MaxTime`, ...) are any natural numbers.

| module | theorem | statement |
|---|---|---|
| `ShareStoreProofs` | `InductiveInvariant` | `Spec => []IInv` |
| | `TypeCorrect` | `Spec => []TypeOK` |
| | `RowsAreBacked` | `Spec => []RowsHaveWholeFiles` |
| | `FilesAreRecorded` | `Spec => []FilesHaveRows` |
| | `DownloadLimitHolds` | `Spec => []DownloadsWithinLimit` |
| | `SweepIsSafe` | `Spec => []SweepSparesActive` |
| | `OneConnectionFreezesRows` | `Spec => SweepFreezesRows` |
| | `StoreImplementsLink` | `Spec => KeepsPromise` |
| `QuotaProofs` | `QuotaOvershootLimited` | `Spec => []QuotaOvershootBounded` |
| `ChunkedUploadProofs` | `TypeCorrect` | `Spec => []TypeOK` |
| | `SharedFilesHaveTheirSize` | `Spec => []SharedHasItsSize` |
| | `NoFileIsLost` | `Spec => []FilesAccountedFor` |
| | `FilesSentOnceAreComplete` | `Spec => []SharedIsComplete` |
| | `PartsSentOnceHaveSession` | `Spec => []PartsHaveSession` |
| | `TypeIsReadFromFile` | `Spec => []TypeReadFromFile` |
| | `UploadImplementsPromise` | `Spec => KeepsPromise` |
| `AdmissionProofs` | `AdmissionInvariant` | `Spec => []AInv` |
| | `TypeCorrect` | `Spec => []TypeOK` |
| | `PathsAlwaysAgree` | `Spec => []PathsAgree` |
| | `UserLinksLimited` | `Spec => []UserLinksAreLimited` |
| | `LinksHaveListedTypes` | `Spec => []TypesAreListed` |
| | `DirectNamesAreValid` | `Spec => []NamesAreValid` |
| | `DirectNamesAreHarmless` | `Spec => []NamesAreHarmless` |
| `FilenameSanitizerProofs` | `SanitizedName`, `SanitizedIsValid`, `SanitizedIsHarmless` | what `SanitizeFilename` returns, for a name of any length and any limit |
| `CsrfProofs` | `TypeCorrect` | `Spec => []TypeOK` |
| | `RefusalsPaid` | `Spec => []RefusalsArePaidFor` |
| | `CookieSettles` | `Spec => []TokensSettle` |
| `RateLimitProofs` | `TypeCorrect` | `Spec => []TypeOK` |
| | `OnlyOwnRequestsCount` | `Spec => []RefusedOnlyForOwnRequests` |
| | `TwiceTheLimitAtMost` | `Spec => []AtMostTwiceInAnyWindow` |
| | `OneLimitPerWindow` | `Spec => []AtMostLimitSinceReset` |
| `AccountsProofs` | `TypeCorrect` | `Spec => []TypeOK` |
| | `RequestsActForOwner` | `Spec => []ActsForOwner` |
| | `EndedSessionsStayEnded` | `Spec => EndedStaysEnded` |
| | `SetupRaceBounded` | `Spec => []SetupRaceIsBounded` |

The store. None of the safety properties is inductive alone, because they do
not say what a handler may rely on between two of its steps. `IInv` adds

* `HandlersKnow`: an upload works under a hash that has no row and no history; a
  download, a delete works on a share that has or had a row; whoever is about to
  execute DELETE has removed the file or failed to (`kept`);
* `UploadsDisjoint`: two uploads never work under the same hash (it is what keeps
  `CopyFails` of one from removing the file of the other);
* `FreshIsUnused`: a hash that was never generated has no row, file or delivery;
* `SweepKnows`: a row in the cleanup's snapshot is dead for good, since the clock
  does not go back and a count is never lowered.

Each conjunct is preserved by a lemma with a step per action. For
`DownloadsWithinLimit` the handlers in transit are counted as a finite set:
a grant adds one to both sides, a delivery moves one from the set to
`delivered`, and all other steps only shrink the set. The refinement maps a
share to the link with the terms of its last row (`rows`, else `tomb`);
`InsertRow` is Publish, `GrantDownload` Grant, `OpenBlob` Deliver, a DELETE that
finds its row Withdraw, `Tick` the clock, everything else a stutter. TLC checks
`IInv` in `Store_two_conns`.

The quota. `QInv` adds to `IInv` that what a handler carries passed the limit of
the form and that what a user stores is finitely many bytes. Stored and in flight
together grow by an admission only: every other step takes bytes away (`Lighter`)
or moves those of one upload from its handler to the table (INSERT). At an
admission the check bounds what is stored plus the new upload; each of the
other handlers carries one upload at most (`OthersCarry`), and an admission whose
query failed raises the bound by the fault it used up.

Chunked uploads. The invariant has layers, each proved on the one before:

* `TInv`: types, and that a part a handler has open is there or was removed under
  it;
* `FInv`: a file being merged belongs to one handler, has no row and, once its
  size was compared, that size. `SharedHasItsSize` and `FilesAccountedFor` follow,
  whatever clients send;
* `CInv`: what is on disk was sent, and completion is asked for when something was;
* `Once`, for clients that send nothing twice (`resends = 0`): one handler writes
  a part, in order, and one completes a session; what it merged stays as it was;
  neither outlives the session. A merged file of the announced size is whole
  because it consists of parts below the number of chunks, of two halves at most,
  and a set of that size can only be all of them (`FullSizeIsWhole`).
  A removal can only meet a session whose parts are all whole, so no chunk
  is still on its way to bring a part up again; what a removal leaves is in `cut`.

For the refinement `Start` is Announce, `CompleteArrives` Ask, `InsertRow` Share,
the removal of `meta.json`, which the requests look for, Close; a completion that
ends otherwise gives its ticket up, a
restart gives up all of them, chunks are stutters.

Names. `Place(kept, k)` is the place that becomes the `k`-th: places are numbered
without gaps (`PlacesNumbered`, `PlaceExists`), so what a rule keeps is a name over
the same symbols and not longer (`KeptName`). Each rule then has a lemma about
the set of symbols that it takes and returns, and `SanitizeFilename` composes
them. That the result is not hidden needs more: after `TrimDots` the first symbol
is no dot, and `Collapse` keeps the first symbol (`FirstIsKept`); that it is not
reserved, that `Guard` comes after every rule that could make a name reserved
except the cut, which `Len(n) < MaxBytes` excludes.

Admission. `SessionAgrees` says that `meta.json` holds `Clamped(Asked(form))`, what
the direct path would record, whoever opened the session; it needs that clamping
changes nothing in what ordinary users may ask for (`ClampingKeepsUserTerms`).
`ListIsWhole` says that without a fault the list is empty or complete whenever the
server is down, and complete when it is up. `ShortLivesDoNotWrap` is the arithmetic
of the expiry. `Named` ties a link of the direct path to the sanitized name of its
form, which the theorems about names need.

The token. `Paid` says that a tab's refusals, plus one if the page it shows or
waits for is doomed (its token is not the cookie's and it brings no cookie), are at
most the changes of the cookie and the tab's unread forms: a page becomes doomed only by a change, and is
refused at most once if it is read. `Settling` counts the answers on their way that will set a
cookie: while there is a cookie no new ones are made, so each pays for one
overwrite, and a clear pays for a new round of as many tabs as there are.

The limiter. A request sees its count when it is counted and is judged later, so
`MInv` bounds both the counter and the count seen by the requests an address made.
For the bounds in time `WInv` looks at requests that are counted within the limit,
served or not yet: `Charged` says what a stretch of time may contain, depending on
where the last reset lies. If the reset came after the stretch, two windows'
worth; if it lies inside, one and what the current window has used; if before,
only the latter; and one more for every restart, because it forgets the counts.
A reset moves a stretch from one case to the next, which is why the three
belong in one invariant.

Accounts. `AInv` says that ids above `lastId` were never owned and that a row
belongs to the owner of its id; AUTOINCREMENT then excludes that an id is given to
a second user, which is all that `EndedStaysEnded` and `ActsForOwner` need besides
the steps. `SInv` counts accounts and setups between check and INSERT together:
a browser enters with no account there, or by a count that failed.

Only model-checked: the liveness properties `DeadRowsReaped` and
`AnsweredUnlessSweeping` (out of the prover's reach), and the properties that
runs refute. Every type invariant, safety invariant, action property and
refinement that a passing run checks is a theorem.

## 5. What is not modelled

* pages, templates, QR code, headers, static files, configuration loading,
  container files: presentation and constants;
* landing page, preview and listings: they change no state. A preview serves
  a file without counting it, and each request of a download manager that
  splits a file counts as one download;
* bans: nothing inserts into the table;
* durability of files (no `fsync`) and a clock that is set back;
* `Start` of a chunked upload is one step; a restart between its `MkdirAll` and
  `WriteFile` leaves a directory no request can name;
* the text order of part names beyond `99999.part`, and sessions that are never
  completed (nothing removes them, so there is nothing to check);
* a request that goes on after its session was ended in another tab: the check is
  made once for each request;
* a cut of a file name inside a multi-byte character: a symbol has length one; and
  a byte that is no UTF-8, which `strings.Map` replaces by the three bytes of U+FFFD,
  so that such a name grows before it is cut;
* chunks that come between reading `meta.json` and listing the directory in
  `HandleUploadComplete`: `CompleteArrives` is one step;
* a storage key that two hashes share (their first 12 characters are equal): 72
  random bits, and the models take hashes to be fresh;
* the header `X-CSRF-Token`, which `VerifyCSRF` takes when a form has no token: no page
  of the server sends it.

Differences between the code and what is written about it that the models contain
but no run refutes:

* "Content-Disposition uses sanitized names" (`README.md:108`) and "runs the same
  sanitization/quota/mime/privilege checks as the direct path" (`uploads.go:592`): the
  chunked path records the name as it was sent, and `application/octet-stream`
  whatever it sniffed, so its files are never previewable (`Complete` in `Admission`);
* the same comment at `uploads.go:592`: the direct path believes a type that the
  browser declares (`uploads.go:244-251`), the chunked path never looks at it
  (`uploads.go:697-707`). An executable declared as `application/x-msdownload` is refused
  directly and admitted in chunks, where its bytes say `application/octet-stream`; a
  `.gz` declared as `application/gzip`, which is on the list, is admitted directly and
  refused in chunks, where its bytes say `application/x-gzip`. A text declared as
  `text/plain` is admitted directly; the chunked path sniffs
  `text/plain; charset=utf-8`, which is not on the list, and refuses it. `PathsAgree`
  therefore speaks of role, limits, size and quota for every form, and of the type
  only for a browser that declares none, octet-stream or the one the bytes show,
  and for files that are no text;
* "return a clean 413" (`uploads.go:69-72`): a body over the limit, or one that is cut
  or finds no room, fails in `ParseMultipartForm`, whose error is ignored, and the
  answer is 403 "Invalid CSRF token" with the cookie intact. `RefusalsArePaidFor`
  counts such forms apart (`unread`);
* a file whose `os.Remove` fails loses its row all the same (`shared_file.go:300`,
  `main.go:237-239`) and stays for ever, and so do a file after a failed copy or
  INSERT (`shared_file.go:183,187,198`, `uploads.go:820,841`) and the parts that an
  interrupted `os.RemoveAll` leaves without `meta.json` (`uploads.go:847`). The properties
  name these exceptions (`kept`, `cut`);
* the seeding of the MIME table that was cut short is never completed, because the
  table is not empty at the next start; `TypesAreListed` says `~faulty`.

## 6. Plan

Done: `ShareLink` and `ShareStore`; `UploadPromise`, `ChunkedUpload` and their
refinement; `FilenameSanitizer` and `Admission`; `Csrf`; `RateLimit`; `Accounts`;
proofs of all their safety properties.

Next, in this order:

1. lemmas that say more than the listed properties: a second application of
   `SanitizeFilename` changes nothing for short names;
2. the order of part names beyond `99999.part`, and the remaining hazards of
   `PROJECT.json` that have a note instead of a property;
3. invariants of `ShareLink` and `UploadPromise` themselves (a link never delivers
   more than it granted), which the store and the upload inherit by refinement.
