# Verification of the photo upload platform

TLA+ models of the upload platform in this repository, TLC configurations that
check them on small instances, and TLAPS proofs of what matters most for every
instance. The models are translated from the source. The repository has no
automated tests, so the documents under `docs/` and the comments are the only
statements of intent the models are compared with.

How to run, in this directory: `tlc -workers 2 -config lc_faults.cfg MCImageLifecycle.tla`
(every configuration `<run>.cfg` with the module given below; an `MC` module adds
the symmetry of the model values or composes several parts, a module without one
is checked as it is), and
`tlapm TagMarks_proofs.tla` for a proof module (`Session_proofs` holds the proofs about
AuthTokens and WebSession, `Pages_proofs` those about Comments, TwoTabs, MobileUpload, AccountPages and MobileShell,
`Views_proofs` those about PrintSync and Screens, `SumTheorems` the lemmas about sums). `Views_proofs` takes about eight minutes.

## 1. The system

A Go API (gin, pgx, go-redis, minio-go) with PostgreSQL, Redis and an S3 store,
a React web client, a React Native client, and a small monitor of its own.
There are no transactions spanning statements, no locks and no queues: every
handler is a sequence of single statements and storage calls, every one of which
may interleave with the statements of any other handler, fail, or be cut off.
The clients are event loops whose state is read before an `await` and used after it.

| Part (code) | State it keeps | Operations | Talks to |
|---|---|---|---|
| Image service (`backend/internal/service/image_service.go`, `handler/image_handler.go`) | rows of `images`, `users.storage_used`, objects | upload a form of files, hard delete, batch delete, download, update, lists, toggle / add / remove tags | database, object store |
| Admin service (`admin_service.go`, `admin_handler.go`) | the directory `/exports`, `LastSync` | force delete, roles, password reset, print export, statistics | database, object store (by HTTP), disk |
| Auth service (`auth_service.go`, `pkg/jwt`, `middleware/auth.go`) | rows of `refresh_tokens`, `users.role`; access tokens are stateless | login, refresh, logout, checking a token | database |
| Tag service (`tag_service.go`) | rows of `tags`, `image_tags` | create, delete, list | database |
| Comment service (`comment_service.go`) | rows of `comments` | list, create, delete | database |
| Rate limiter (`middleware/ratelimit.go`) | one counter per route and address in Redis | count, set expiry, refuse | Redis |
| Storage adapters (`storage/`) | objects, or files on disk | upload, download, delete, URL | MinIO, disk |
| Start-up (`cmd/server/main.go`, `config/`, `router/`) | schema; the ticker of the export | migrate, serve, tick, shut down | everything |
| Web client: session (`frontend/src/api/client.ts`, `store/authStore.ts`) | tokens and user, in `localStorage` | attach, refresh and retry on 401, clear | API |
| Web client: pages (`frontend/src/pages`, `components/comments`) | queries, selections, drafts, the upload queue | browsing, uploading, deleting, tagging, commenting | API, through the session |
| Mobile client (`mobile/src`) | the same, in AsyncStorage | the same | API |
| Monitor (`monitor/main.go`) | rows of metrics in SQLite | collect, retain, answer history | disk |

**What is hard about each part, and what makes it correct**

* *Images.* Three stores are updated one after the other. Objects must exist
  before a row names them and after it is gone; a failed insert must be cleaned
  up; the quota is checked long before it is charged; a row is visible before
  its size is charged; a client that disconnects cancels the clean-up; a killed
  process repairs nothing. Correct means: an image that is shown has its bytes;
  nothing stays behind after failures the code cleans up; storage is never
  undercounted; the quota is exceeded by a bounded amount at most.
* *Sessions.* A refresh token is read, checked and revoked by separate statements,
  drawn from the clock, and rotated by clients whose calls overlap. The role sits
  in the access token. Correct means: a token is handed out once and stays dead
  once dead; a client that is logged out stays so; a client at rest holds a live
  token and throws a usable one away only with a cause; a demotion takes effect after one token's life and the time of a login.
* *Tags.* A toggle is a DELETE and, if that removed nothing, an INSERT; ids of tags
  come from pages loaded earlier; images and tags vanish with cascades in
  between. Correct means: answers add up to what is stored, and marks hang on
  things that exist.
* *Print export.* Two runs may overlap, each deleting what it does not know;
  rows are read, fetched and written while tags change, downloads fail and the
  process restarts. Correct means: an undisturbed run leaves exactly what it
  should, and the directory heals.
* *Rate limiter.* Count and expiry are two calls. Correct means: no address is shut
  out for good, and a window serves a bounded number.
* *Upload page.* The loop holds the list it was started with while the user changes
  the list, leaves the page or clicks again. Correct means: a card tells what
  became of its file, nothing is sent twice, and the page is never stuck.
* *Comments.* The owner is read in one statement and the comment deleted in
  another, by its id; the box is emptied when the answer arrives, or when the
  comment is sent; Enter does not wait for the button. Correct means: comments go only by
  right, what was typed is posted once or still there, one's own changes are shown.
* *Pages.* Every list is a cache that is fetched again for some changes and not for
  others, under keys that do not name all it depends on; answers, page
  turns, drags and deletions overlap; late answers reach pages that were left.
  Correct means: a list at rest is the server's, a control tells the state it stands
  for, guards hold, and the session is the one last asked for.
* *Several tabs.* Each reads `localStorage` once and writes it whenever its own
  session changes, also by a refresh that is answered after a log-out or another login.
  Correct means: tokens belong to the user beside them but where the code itself mixes them,
  and a token dies only by a use of it.
* *Mobile.* One form carries ten pictures and one answer; endless lists join pages
  whose offsets shift; the session is in memory and on disk, with writes nobody waits
  for. Correct means: no picture is lost, none stored twice unless sent twice, no gap
  without a deletion, and the session survives a restart.
* *Figures.* Days, types, sizes, rings and curves are computed from rows, with zero,
  one and full as edges.
* *Monitor.* Ranges compare two notations of time as texts, and old rows are deleted
  beside new ones. Correct means: a range reaches as far as it says, rounded to days.

`PROJECT.json` lists every component with its status, every hazard at its line
with the properties that guard it, and for every definition the lines it models.

## 2. The models

A definition `Name_Variant` is `Name` with a plausible bug in it. Nothing uses it;
it documents which property notices that bug.

### ImageLifecycle (abstract: ImageCatalog)

State: `row` (table `images`: `none`, `live`, `hidden` by `deleted_at`, `gone`),
`used` (`users.storage_used`), `objects` (original and thumbnail keys in the
store), `req` (what each request slot is doing: which file of the form, which
image, how many files or ids are left, whether its context is cancelled). Two
histories name what the failures have done: `unacked`, the images whose INSERT
took effect and reported an error, and `slipped`, whether a failure has left an
object (`"object"`) or a charge (`"charge"`) undone. The properties are
conditional on these, never on which failures the configuration admits, so one
run checks them under all failures at once.

Each action ends at one statement or one storage call: `AcceptFile`/`RefuseFile`
(size, type, and the quota read, `image_service.go:51-85`), `PutOriginal`,
`MakeThumbnail`, `InsertRow`, the clean-up `UndoOriginal`/`UndoThumbnail`, `Charge`;
`DeleteRow`, `RemoveOriginal`, `RemoveThumbnail`, `Refund` (floored at 0);
`ForceDelete`; `BeginDownload`, `FetchObject`; and the environment: `Disconnect`,
`Crash`. A storage call that fails may have had its effect or not; a statement may fail, or
take effect and report an error (`lostack`). S3 and pgx honour a cancelled
context, local files do not (`OnDisk`).

`ImageCatalog` is the promise: an image is published once with its bytes in the
store, then erased or hidden for good, and bytes are dropped only when the
catalogue does not need them. `ImplementsCatalog` is the refinement, with
`state`, `owner` and `bytes` computed from `row` and `objects`.

Assumption: two uploads draw different storage keys (the key holds user and clock in
nanoseconds). `NoDanglingRow` excepts `unacked` images: when an insert commits and
reports an error, the clean-up does delete the objects of a live row. That is a
limit of the code, kept as a hazard.

### AuthTokens

State: `rt` (table `refresh_tokens`), `role`, `jwts` (access tokens at large),
`req` (request slots, one statement a step), `clock`; histories `redeemed`,
`handed`, `lastAdmin`, and `unrevoked` (tokens whose revoking UPDATE failed, an
error the code drops). Actions: `CheckPassword`,
`LookUp`, `RevokeOld`, `ReadRoleAndSign`, `InsertToken`, `RevokeForLogout`, `SetRole`, `Tick`, and
`Break`: the connection ends, and the statements still to come with it. A request is *refused* by a verdict
on what it presented, or *failed* by a statement. Login reads the role before it compares the password, and
signs it afterwards: time may pass in between, `CheckTime` at most (a comparison by bcrypt is bounded by
the processor only, so the constant is an assumption on the machine). Refresh
tokens are the clock in nanoseconds, so two requests may draw the same one and
the UNIQUE constraint refuses the second. `ExchangesOverlap` bounds what the
missing atomicity of check and revocation can do: a token may be exchanged more
than once, but only by requests that overlap, so never more often than there are
requests at once (`redeemed` counts without a bound). Registration, which touches no token, is an operation of `AccountPages`;
passwords are right or wrong.

### WebSession (extends AuthTokens)

Composes the server with one client: `store` (both tokens and the user), `call`
(the overlapping calls of the page, each a continuation of the interceptor),
`leaving` (a page load of `/login` was asked for); the history `cutOff` names the tokens
whose exchange a page load cut off, and `loggedOut` those that were given back. A JavaScript turn is one
step. `Reloads` distinguishes the web client, which leaves by a page load, from
the mobile client, which stays in its screen. Any call may fail without an answer (`Settle`, `RefreshLost`,
`LoginLost`, `LogoutLost`): it never reaches the server, or the server goes on and its answer is dropped (`Drop`), whatever it is at.
The catch block of the interceptor (`client.ts:45`) does not ask why a refresh failed: a refusal, a failing statement and an
error of the network all empty the store. So `LogOutHasCause` says what is left of the promise: a usable token
is thrown away only at the end of a refresh that was overtaken by another call, or that got no verdict on its token. `UsesServer` says that the composition is
one of the clients AuthTokens allows for, so that what is proved of the server holds
of the two together. `PairedTokens` compares the accounts of the two tokens; the user stored beside them is
the one of `TwoTabs`, where a refresh may be answered after another login. One tab is modelled here, several
in `TwoTabs`.

### TagMarks (abstract: MarkBoard)

State: `image`, `tagId` (name to id), `marks` (`image_tags`), `told` (answers
"added" less answers "removed"), `req`. One action per statement of toggle, add,
remove, create, delete, and the changes of images that cascade or hide. The
`INSERT` of AddTags leaves out the key column `user_id` and so never succeeds
(`Link` changes nothing), exactly as in the code. `MarkBoard` is the promise: toggling is
atomic and answers truthfully.

### PrintSync

State: `filename`, `img`, `carrier` (tagged images), `export` (the content of each file,
with torn files and error pages), `job` (the ticker's run and manual runs). A row of the result is an image
with the name it had when the query ran; `Rename` may change it meanwhile.
Actions: `Download`, `OpenFile` (truncate), `FillFile`, `ListExports` (a failing ReadDir leaves part of the directory
unlisted), `RemoveFile`, each failing where the code goes on in spite of it, `BreakOff` (a result that ends early), `Crash`, and
`Stall`: `admin_service.go:82` is a plain `http.Get`, which has no time-out, so a download may hang for any time
(`Resume`), or for ever, and the only goroutine of the ticker with it. `ExportSettles` names that case: once nothing changes,
the directory is brought back for good or the ticker is stalled. The image URL is fetched over
HTTP, so with the local storage fallback, whose URLs have no host, every download of
an export fails; the model is of the S3 deployment.

### RateLimit

State: `count` and `ttl` of one key, `req`, and the histories `served` (what was let
through, by age) and `lost` (in this life of the key its EXPIRE was lost, or the reply of the INCR that made it). `Count` (INCR),
`SetExpiry` (EXPIRE), `Judge`, `Tick`, and the failures: `Bypass` (INCR fails, the request is served uncounted),
`LoseReply` (INCR takes effect and reports an error, or is sent again by the client library: nobody
sees the 1 that asks for the EXPIRE) and `ExpiryFails`. The count saturates at
`MaxCount`, which is beyond `Limit`: the code compares it with 1 and `Limit` only. `BurstBounded` counts what was
counted: requests that were served because Redis was down are beyond any limit.

### UploadQueue

State: `files` (the cards, a set, for their ids are in the order of the list), `uploading`, `doneCount`, `loop` (runs of
`handleUpload` with the ids they have still `todo`, the least of which is `Current`), `fading` (the ids the fading button
still holds), `visit`, the server's `rows`, `jumps` (timers that will open the
gallery); histories `sent`, `again` (visits with a click on the fading button)
and `unheard` (cards stored whose answer was lost). Actions: `AddFiles`, `RemoveFile`, `ClearAll`,
`Click`, `ClickAgain`, `FadeOut`, `Send`, `Succeed`, `Fail`, `Finish`, `Leave`,
`Return`, `Jump`. After `Leave` the loop goes on, its setters without effect.

### QueryCache

What the pages use of the query client, on one entry of its cache: an answer, and
at most one fetch, first `asked`, then `answered` with what the server had at that moment, then landed.
`Observed` is a mount or a new key, `Renewed` an invalidation, which throws
away the fetch under way unless it is the first one of the entry. External: the library is not in
the repository; the operators say what the pages rely on.

### Listings

How every list of the server is ordered, `Descending`: newest first, a higher number being newer. The n-th row is the
one with n - 1 newer ones, so that what a page holds is a matter of counting, and no recursion over the list
is needed to reason about it.

### GalleryPage

One user browses pages of all images or their own, filters, ticks, drags, renames,
deletes one or many (a batch is one call that deletes image by image), opens an image, deletes it there and comes
back. State: the page (`screen`, `key`, `selecting`, `selected`, `override`), the
cached `list` of every key, the calls `op`, and what is on the server. `HonestList`: a list at rest is the server's
unless an answered change was not followed by a fetch (`overtaken`, by the keys
that are not invalidated or a fetch that failed). `TicksMatchMode`, `PageInRange`.
What a user does is one of the rigid `Users`, so that no behaviour needs all of it at once.

### ImageDetail

The page of an image, on the web and on the phone: overlapping tag clicks of two
statements each (`Unmark`, `Mark`), adding a tag of one's own, deleting, leaving and
returning, with the image deleted elsewhere. `LitTagsTellClicks` relates the lit tags to the
parity of the clicks; `AddedTagsOffered`.

### Comments

State: `rows`, and for every client its box (`draft`), its list, and its calls. The
handlers are one statement a step: `Insert`, or `NoImage`; `CheckOwner`, `DeleteRow`. The clients: `Type`, `Submit`
by button or Enter (`CommentsSection.tsx`), `Comment` on the phone, which empties the
box at once, `AskDelete` of rows that are shown or `AskDeleteById` of any. `PostedOnce`, `NoTextLost`,
`OwnChangesShown` name their exceptions by histories; `DeletedByRight` is the action property.

### AdminPages

An administrator walks between dashboard, users, images and tags (on the phone: one
screen of two tabs), searches, turns pages, chooses roles, deletes, creates tags with
dots or custom colours, while calls are under way. Each page invalidates its own
lists only (`Invalidated`). A request may fail without effect (`RequestFails`; most of these calls do not even say so),
take effect and lose its answer (`LoseAnswer`), and a fetch may fail with its retry (`FetchFails`). `AsAsked`: at rest a page shows the
rows as the server has them, whatever failed, and what was last asked for where the request neither
failed nor overlapped another; `EmptyOnlyAfterDeletion`.

### AccountPages

Routes and guards (`ProtectedRoute`, `AdminRoute`), the links each page offers, login,
registration, both log-outs, and the profile with its list, whose key does not
name the user. Accounts follow one another in one tab; answers arrive after their page was
left. `GuardsHold`, `OwnListShown`, `SessionAsAsked`, `BusyTellsSubmission`, `FrontPageNeedsUser`.

### LandingPage

The front page: cloud and grid with the view that fades out, the tag filter, the
list and its count (two statements of the server), and the tags that only users
may ask for. `FrontPageHonest`, `PicksOfTheTag`.

### Figures

What profile and dashboard compute, against definitions of what they claim: uploads
by day with a change of clock, types by size, sizes as text, the quota's ring, curves
and bars in their boxes. `Sample` is rigid; the chart of uploads is a small state machine, for its tooltip outlives its data.

### MobileLists, MobileUpload, MobileShell

The endless list of the front page and of the gallery (`Effect` joins a page after rendering); the
upload of one form, `StoreNext` by `StoreNext`, with refusals, unreadable files and time-outs, after which a second try may
run beside the server's work on the first (`rest` and `serving` tell the requests apart);
and the shell: the session in memory and its copy in AsyncStorage with unawaited
`writes`, the stack of screens, the timer of 50 ms, `Kill` and `Hydrate`. Its `holder` and `wanted` are the `user` and
the last wish, which AccountPages names `user` and `intent`; `Accounts` declares who may be logged in to either client.

### TwoTabs

Several tabs over one `localStorage` and one table of tokens: `SetAuth` and `ClearAuth` write the
whole entry, `Reload` reads it. A tab may log out, and in as somebody else, while its refresh is under way: the answer is then
stored beside the user of that moment (`client.ts:41`), or, when there is none, ends in the catch block. A 401 in a tab without a token clears the storage of
all (`NoToken`). `TabsAgree` says what holds without
any `storage` event: a stored token lives unless its successor is on the way or was lost, a tab
loses its token only to another tab or with a lost answer, and tokens belong to the user beside them, but for those the history
`mixed` names, which were asked for before another login in that tab.

### Monitor

`collectLoop` (`Start`, `Minute`, `Insert`, `DeleteOld`, `Stop` between any two) and `GetHistory`. A moment is a
number; comparing the texts "date time" and "dateTtime" is comparing days, strictly.

### Screens

GalleryPage, ImageDetail, AdminPages, MobileLists, LandingPage and Monitor side by side, as the instances
`Gallery`, `Detail`, `Office`, `Feed`, `Landing` and `Host`, each with variables and constants of its own (`gList`, `OfficeThings`):
they share nothing but the rows of the server, which each models as far as it shows them. `Screens` is the conjunction of
their specifications and `ScreensAreTrue` of their safety properties; this is what is proved.

### MCPages

One run visits Screens, `Comments`, `TwoTabs`, `MobileUpload`, `AccountPages`, `MobileShell` and
`Figures` in turn: `visit` is rigid and says which part a behaviour is of, and the variables of
the others are left blank. Only `Figures` is instantiated here, all else is extended, so that the properties checked are those
that are proved. Of `FiguresAreTrue`, the types of the part visited are a conjunct.

## 3. The runs

| Run (module) | Properties | What it shows |
|---|---|---|
| `lc_faults` (MCImageLifecycle) | TypeOK, NoDanglingRow, NoOrphanObject, QuotaOvershootBounded, NeverUndercounts, ErrorPageOnlyAfterDelete, ImplementsCatalog | S3, two requests, all five kinds of failure: rows keep their bytes, only named failures orphan objects or lose charges, the quota is exceeded by one file per rival at most, and the service implements the catalogue |
| `lc_local` (MCImageLifecycle) | DeletedObjectsGo, RequestsAnswered | local files, forms and batches of two, an admin without quota, failing statements, disconnects: every request is answered and deleted bytes leave (its safety is that of the theorems, which hold for both storages) |
| `auth_race` (MCAuthTokens) | NoSharedToken, RedeemedIsRevoked, ExchangesOverlap, StaleRoleBounded, RevokedForGood | racing logins, refreshes and logouts, equal time stamps, failing statements, broken connections, demotions while a password is compared |
| `web_session` (MCWebSession) | LogoutSticks, PairedTokens, AtRestTokenLives, LogOutHasCause | two accounts, web or mobile, two overlapping calls that may fail at any point, failing statements |
| `web_live` (MCWebSession) | UsesServer, CallsSettle | the web client is a client of AuthTokens, and every call ends, through refreshes, retries and page loads |
| `tag_marks` (MCTagMarks) | TogglesCount, MarksAttached, ImplementsBoard | two racing requests, tags and images vanishing, failing statements |
| `sync` (PrintSync) | CalmRunExact, ExportSettles | the ticker and a manual run of two tags, all failures: an undisturbed run is exact, and the directory heals unless a download of the ticker never ends |
| `rate_limit` (RateLimit) | BurstBounded, EveryKeyExpires, RefusalEnds | racing requests, failing Redis, lost replies, lost EXPIRE |
| `upload_queue` (UploadQueue) | HonestCards, SentOnce, SpinnerHonest, UploadEnds | three cards, two visits, two loops, lost answers, second clicks |
| `pages` (MCPages) | ScreensAreTrue, FiguresAreTrue, NothingLostNorDoubled, AccountsHold, ShellHolds, TabsAgree, CommentsHonest, DeletedByRight | a visit to each page, screen, pair of tabs or the monitor: lists and figures settle on the server's rows, controls tell their state, typed and picked things are kept and not doubled, guards and sessions hold, comments go by right |
| `web_needless_logout` (MCWebSession) | NoNeedlessLogout, *violated* | `docs/api.md:13` promises that no new login is needed; the slower of two refreshes logs the user out |
| `tag_links` (MCTagMarks) | AddedTagsLinked, *violated* | `docs/api.md:367` adds tags to an image; the INSERT leaves out a key column and can never succeed |

A type invariant that has no line of its own in the table is the first conjunct of
a property that has: `AuthTypeOK` of NoSharedToken, `WebTypeOK` of LogoutSticks, `TypeOK` of CalmRunExact, HonestCards, MarksAttached and BurstBounded, and the
types of all parts of FiguresAreTrue.

The properties of `pages`, the named properties they consist of, and for each of
these the plausible bugs that break it:

| Property | Conjunct (module) | Broken by |
|---|---|---|
| ScreensAreTrue | HonestList, PageInRange, TicksMatchMode (GalleryPage) | Succeed_NoInvalidate; NextPage_OffByOne; ToggleSelect_KeepsMode |
| | LitTagsTellClicks, AddedTagsOffered (ImageDetail) | Unmark_Only, Toggled_KeepsFetch; Added_ImageOnly |
| | AsAsked, EmptyOnlyAfterDeletion (AdminPages) | CreateTag_DotOnly, Succeed_KeepsLists, Invalidated_ByTable; Search_KeepsPage |
| | JoinedInOrder, ShiftsExplained (MobileLists) | HandleRefresh_KeepsPage, OnEndReached_KnowsTotal |
| | FrontPageHonest, PicksOfTheTag (LandingPage) | FilterKey_NoTag |
| | HistoryReaches (Monitor) | Since_SameDay, Old_Recent |
| FiguresAreTrue | DaysCounted, TypesRanked, SizesTold, RingTellsQuota, CurvesInBox, TooltipOfChart (Figures) | Keys_FromYesterday; Before_ByCount; FormatFileSize_Floor; Percent_NoCap; Labelled_PastEnd; Land_UnderTip |
| CommentsHonest | PostedOnce, NoTextLost, OwnChangesShown (Comments) | Comment_KeepsDraft, Created_KeepsBox; Refuse_ClearsBox; Deleted_NoRefresh |
| NothingLostNorDoubled | NoPictureLost, StoredTwiceOnlyIfSentAgain (MobileUpload) | RefuseNext_AsSuccess, OnError_ClearsFiles; Upload_NotPending, OnSuccess_KeepsFiles |
| AccountsHold | GuardsHold, SessionAsAsked, FrontPageNeedsUser, OwnListShown, BusyTellsSubmission (AccountPages) | AdminRoute_Missing; LogoutSettled_OnSuccess; RefuseTags_Ignored; Mount_Cached; Rejected_StaysBusy |
| ShellHolds | TabsNeedLogin, SessionKept (MobileShell) | GuardTabs_OnLogout; SetUser_MemoryOnly, PhoneLoggedOut_StaysOnError |
| TabsAgree | StoredTokenLives, LostToAnotherTab, TokensOfTheirUser (TwoTabs) | RefreshOk_AccessOnly; RefreshOk_StoredUser |
| DeletedByRight | (Comments) | CheckOwner_AnyUser |

**Where code and texts differ.** Beside the two runs above, modelling met these,
each stated in the models by the property that does hold instead:

* `docs/configuration.md:62` gives a storage quota; two uploads that pass the check
  together exceed it. `QuotaOvershootBounded` gives the bound.
* `backend/internal/domain/user.go:16` calls `storage_used` the bytes in use; a
  deletion before the charge leaves it too high for good. `NeverUndercounts` is
  the half that holds.
* `docs/api.md:352` says deletion removes the files; a failing storage leaves them
  (`NoOrphanObject`, `DeletedObjectsGo` name the exceptions).
* `docs/api.md:121` says the old refresh token is revoked; overlapping refreshes
  exchange it more than once (`ExchangesOverlap`).
* `backend/internal/domain/user.go:22` says that logging out marks the token revoked;
  logging out in the page header (`AppLayout.tsx:25`) does not call the server.
* `frontend/src/api/client.ts:41` asserts `user!`, which may be null after a log-out
  during the refresh (`LogoutSticks`).
* `backend/internal/handler/image_handler.go:231` refuses to tag private images, though nothing makes an image
  private: no handler writes `is_public`, so it is TRUE in every row of the models (toggling a mark would not look at it).
* `frontend/src/pages/profile/ProfilePage.tsx:152` announces a trend of 30 days; the loop under it
  takes 7 (`DaysCounted` of Figures states what is computed).
* `backend/internal/service/image_service.go:518` removes files no longer tagged; a
  failed download, or a second run, makes it remove good copies (`CalmRunExact`).
* `docs/architecture.md:170`, `docs/api.md:96` describe the rate limit; fixed windows
  let twice the limit through (`BurstBounded`), and a lost EXPIRE, or the lost reply of the first INCR, leaves a key that
  never expires, against `docs/architecture.md:175` (`EveryKeyExpires`).
* `frontend/src/pages/upload/UploadPage.tsx:245` sends files one by one; a click on
  the fading button starts a second loop (`SentOnce`, `SpinnerHonest`).
* `frontend/src/App.tsx:3` calls the front page a public gallery without login; it asks
  for `/api/v1/tags`, which `router.go:108` puts behind Auth, so a visitor gets a 401 and
  is taken to `/login`, even one who is typing in that form already
  (`FrontPageNeedsUser` of AccountPages states what does hold).
* `monitor/main.go` offers the last 24 hours; the beginning of a range is written with
  a `T` where SQLite writes a blank, and the texts are compared, so that the day
  of the beginning is left out whole: "24 hours" are those since midnight UTC
  (`HistoryReaches`).
* `image_handler.go:47` passes over a file it cannot open and answers success (`NoPictureLost`).

**What else the models show of the pages.** None of these contradicts a text; each is an
exception a property names.

* Gallery: after a drag all other pages show nothing and new images stay hidden, for the
  override keeps the ids of one page; a tag or the mode keeps the page number, so that
  an empty page may be shown (`PageInRange`, `narrowed`). After an upload the page
  invalidates a key no query has.
* Images: a charge that comes after the refund stays, and so does that of an image hidden by an administrator; a file that is
  added again after a lost answer is stored twice. The books and the cards are right in the other direction only
  (`NeverUndercounts`, `HonestCards`).
* Comments: what is typed while a comment is being sent is dropped by the web page, and
  what is refused by the phone; Enter posts twice (`waited`, `refused`, `insisted`).
* Sessions: a log-out whose answer is late logs out whoever is logged in by then
  (`crossed`); a wrong password while logged out is a 401, whose page load
  takes the message away; the profile may show the list a predecessor asked for
  (`inherited`); one tab's refused refresh clears the storage of all, and so does a refresh that
  only failed, or a 401 in a tab that is logged out (`LogOutHasCause`, `NoToken`); a refresh that is answered after another
  login stores the tokens of one user beside the name of the other (`mixed`).
* Administration: a role chosen on one page is not fetched again by another, deleting
  by a row that is out of date does not delete the tag that was made again, and deleting
  the last rows of the last page leaves an empty table (`missed`, `unsure`, `strayed`); a request that fails
  leaves the row as it was, in most pages without a word (`unsure`).
* Front page: a view that fades out can still be clicked and shows the images of the old
  filter (`PicksOfTheTag`); count and rows are two statements (`torn`).
* Profile and dashboard: days are multiples of 24 hours, so a change of clock drops or joins one;
  only the newest 100 images count; a size just under a unit is written as 1024.0 of the smaller one;
  a tooltip outlives the data under it; the buttons for a range change nothing, for
  the server always answers for 30 days.
* Phone: pictures beyond ten, and those picked during an upload that succeeds, are dropped silently;
  a second try after a time-out stores again what the server has stored or is about to (`again`);
  an image is listed twice after an upload and skipped after a deletion; a page that
  fails ends the list until it is pulled; the way back from the front page leads to
  the tabs after a log-out (`wentBack`).

**Bounds.** Two request slots because every defect of a check-then-act needs one
interloper, and every property speaks of one image, token, mark, key or card and
those that touch it. Two images, two or three tokens, two ids of a tag: enough
for one to be deleted and another, or itself, to be made anew. `MaxFiles`,
`MaxChanges`, `MaxManual`, `MaxFaults`, `MaxClock`, `MaxVisits`, `MaxEntries` cap
the environment, never the code; `MaxCount` is where the counter saturates; each is
named at its constant. In `lc_faults` sizes 1 to 4 lie below, at and above the quota (2)
and the size limit (3). `MaxClock` and `AccessLife` let an access token expire
while its refresh token lives, and `CheckTime` a login take as long as that, in `auth_race`.
The three tokens of `web_session` are enough for a login and two rotations, or two logins and one. Where the instance may hide something, the proofs
of section 4 remove the bound. Symmetry is used only in runs that check no liveness.

In `pages` every part has its own bounds, in `MCPages` and `pages.cfg`: pages of two
rows over three images in the gallery, so that there is a full page, a short one and one beyond the last, tables of one row over two images;
two calls at a time, in haste, or one at leisure; one change elsewhere
(`LandingPage`), one lost answer (`Comments`, `TwoTabs`), one kill (`MobileShell`), two requests of at most two
pictures, each picture picked once (`MobileUpload`), one refresh at a time in each tab (`TwoTabs`), days of two moments (`Monitor`). What a user may do besides is
a rigid choice among the sets `Users`, `Looks`, `Talks`, `Duties`, `Visits` and `Samples`, each
of which puts together the operations that meet in the same state; all of them at once would multiply
states without a new meeting, and the theorems hold for every such set. The endless list joins pages of one row, of three stored images and
one that comes, so that an offset shifts by a whole page. `Figures` enumerates its samples: all hours around the ends of days with a
clock change anywhere, all partitions of five images into types with
ties and zero, all sizes to beyond two units, quotas at each rounding edge.

**Deadlock.** Checked everywhere but in the `web_*`, `upload_queue` and `pages` runs: a page
whose user does nothing rests, and so does one whose bound on tokens or cards is
used up.

**Fairness.** `ImageLifecycle`: weak fairness of each running handler
(the Go scheduler runs goroutines; statements and the calls of the S3 client return or fail: they are assumed not to hang).
`PrintSync`: the same for the steps of a run, and for the ticker (`time.NewTicker`), but for the download: its `http.Get` has no
time-out and the ticker's context no end, so it may stall, and nothing makes it `Resume`. `WebSession`: weak fairness of reactions
to what has arrived, of the server's handlers, and of the requested page load. Calls of the client end within 30 seconds
(`client.ts:12`), but the refresh within the interceptor is a bare `axios.post` (`client.ts:37`), whose end is owed to the
reverse proxy (60 seconds by nginx's default) or, for the phone, which asks the server directly, to the connection: that it ends is an
assumption of `CallsSettle`. `RateLimit`: time passes and
a counted request goes on. `UploadQueue`: a request is answered or times out, again with that
assumption where its token is refreshed first. `pages` assumes no fairness: its properties
speak of pages at rest. Nothing is assumed of users: clicks, arrivals and
failures are never fair.

## 4. The proofs

| Theorem (module) | Says |
|---|---|
| `TypeCorrect` (ImageLifecycle_proofs) | TypeOK for any users, images, requests and failures |
| `DanglingFree`, `OrphanFree`, `ErrorPagesExplained` (same) | NoDanglingRow, NoOrphanObject and ErrorPageOnlyAfterDelete likewise, under every combination of failures |
| `QuotaNearlyKept`, `BytesPaidFor` (same) | QuotaOvershootBounded and NeverUndercounts: the sums over all rows and requests |
| `ServiceImplementsCatalog` (same) | the whole refinement of ImageCatalog: initial states and every step |
| `TokensNotShared`, `ExchangedIsDead`, `RevokedStaysRevoked`, `ExchangesAlwaysOverlap`, `RolesAreRecent` (Session_proofs) | NoSharedToken, RedeemedIsRevoked, RevokedForGood, ExchangesOverlap, StaleRoleBounded for any number of accounts, tokens and racing requests |
| `PageUsesServer` (same) | UsesServer: every step of the page is a step of AuthTokens or leaves it alone |
| `LogoutsStick`, `StoreHoldsPairs`, `RestingTokenLives`, `LogOutsHaveCauses` (same) | LogoutSticks, PairedTokens, AtRestTokenLives and LogOutHasCause for any number of overlapping calls, both clients, failing statements and calls |
| `TogglesAddUp`, `AlwaysAttached` (TagMarks_proofs) | TogglesCount, MarksAttached for any number of requests, users, tags and images |
| `TagMarksImplementBoard` (TagMarks_proofs) | the whole refinement of MarkBoard |
| `CalmRunsAreExact` (Views_proofs) | CalmRunExact for any images, names, tags and runs, whatever the directory held |
| `KeysExpire`, `BurstsBounded` (RateLimit_proofs) | EveryKeyExpires, BurstBounded for any limit, window and number of racing requests |
| `SpinnerAlwaysHonest`, `NothingSentTwice`, `CardsAlwaysHonest` (UploadQueue_proofs) | SpinnerHonest, SentOnce, HonestCards for any number of runs, files and visits |
| `TabsAlwaysAgree` (Pages_proofs) | TabsAgree for any number of tabs and accounts, log-outs and logins at any time |
| `CommentsAlwaysHonest`, `CommentsDeletedByRight` (Pages_proofs) | CommentsHonest and DeletedByRight for any number of clients, texts and overlapping calls |
| `PicturesKept` (Pages_proofs) | NothingLostNorDoubled for any pictures, refusals, time-outs and requests, several at work at once |
| `AccountsAlwaysHold`, `ShellAlwaysHolds` (Pages_proofs) | AccountsHold and ShellHolds for any accounts, overlapping calls, page loads, screens, writes and kills |
| `ScreensAlwaysTrue` (Views_proofs) | ScreensAreTrue, that is the next six together |
| `GalleryTrue` (same) | HonestList, PageInRange and TicksMatchMode for any images, page size, users' habits and overlapping calls |
| `DetailTrue` (same) | LitTagsTellClicks and AddedTagsOffered for any tags, web or phone, and any number of overlapping clicks |
| `OfficeTrue` (same) | AsAsked and EmptyOnlyAfterDeletion for any users, images and tags, any size of the tables, and calls that overlap, fail or lose their answers |
| `FeedTrue` (same) | JoinedInOrder and ShiftsExplained for any images, filter and page size |
| `LandingTrue` (same) | FrontPageHonest and PicksOfTheTag for any images, tag and limit |
| `MonitorKeepsHistory` (same) | HistoryReaches for any length of a day and any ranges no longer than what is kept |

They rest only on the named ASSUMEs of the modules (model values differ from the sets they stand
beside, bounds are naturals, the set of requests is finite, a text is typed by one user only and the
comments there at the beginning are numbered; those of Screens are below), which TLC evaluates
in every run, and on what the models assume (distinct storage keys).

* *Images.* `NoDanglingRow` is not inductive: it says nothing of a request
  that is about to insert a row, or about to delete objects. The invariant
  adds (`HeldImage`, `OwnInv`) that a request holds an image and a user when its
  step needs them, that the image of an upload in progress is held by that request
  alone and its objects are in the store from the moment it may insert, and that a
  request which deletes objects holds an image whose row is gone or never came to be. Each
  action then disturbs at most its own image. With `OwnInv`, `NoOrphanObject` is inductive: an
  object that appears, or whose row goes, is in the hands of the request that did it. And a row that
  a download has read (`FetchesRows`) is still there, with its original, or was deleted.
* *Sums.* A sum over a finite set is a fold, and facts about folds are proved by induction, which the
  prover cannot instantiate; but strict inclusion orders the finite sets well, so that a false claim has a
  least counterexample, and that is all `SumTheorems` needs. What a step changes of one entry it changes
  of the sum (`SumChange`).
* *Quota.* `SizesFit` adds that what is admitted is no larger than the largest file; the admission of one file then
  leaves at most that much for each other request. `BooksInv` adds the ownership of images (`OwnInv`): a row
  that a request removes is removed with the size the request will refund, and the floor at 0
  of the refund never gives less than it should, because the books were balanced before.
* *Catalogue.* For the refinement, an image whose INSERT took effect and reported an error
  counts as never published. InsertRow is `Publish` or nothing, DeleteRow `Erase` or nothing,
  ForceDelete `Hide` or nothing; a call of the storage is `Store` or `Drop` of an image that
  the catalogue does not show, which is what `OwnInv` says of the request that makes it.
* *Tokens.* A row and the count of the answers that carried its token are written together
  (`Counted`), and a request that revokes has seen the row (`Presented`): a token whose row is
  there is never drawn again. That a token exchanged is dead needs the request that is about
  to answer: who has signed holds a dead token (`Rotated`). `ExchangesOverlap` counts requests: each
  answer was given by a request that had found the token live before it died, and no request
  finds it so afterwards. For the roles, a signature is founded (`Founded`): whoever carries the
  admin role was admin when it was read, at most `CheckTime` before it was signed, and it expires a life later.
* *Page.* What a call and its slot of the server are doing fits together (`CallsMatch`), and what the
  store holds and the calls present was handed out (`TokensIssued`); hence the page is a client of
  AuthTokens and all that is proved there holds here. A pair on its way is live, of one account, and nobody else has
  either half (`PairsFresh`). A stored token that is not live is being exchanged or given back, or its exchange was cut
  off by the page load (`StoreLives`): at rest it lives. Past the look-up a presented token is of no use
  (`TokensSpent`), so a refused refresh that empties a store with a usable token was overtaken; what
is left are the refreshes that failed without a verdict, which the property names.
  Looking for this invariant, TLC showed with three calls and five tokens that a page load may cut off the exchange of
  the very token that stays in the store; AtRestTokenLives names that by the history `cutOff`.
* *Marks.* `IInv == TypeOK /\ IdsFresh /\ TogglesCount /\ Attached`. `IdsFresh`
  (an id belongs to one name and none is ahead of the sequence) is what keeps a
  new tag from inheriting marks. For the refinement, each statement is shown to
  be a step of the board or to leave it alone; a toggle's step on the board is
  its DELETE when that removed a row, else its INSERT when that succeeded.
* *Export.* A run that is not disturbed is the only one (`Alone`), and its rows are those the tables have
  now. While it copies, the names it
  has kept are those of the rows it has copied and their files are right, but for the
  one being written (`Keeping`); when it sweeps, a name nothing wants has no file or is still to
  be removed (`Sweeping`).
* *Rate limiter.* `EveryKeyExpires` is inductive given `TypeOK`: the request that
  found the key absent is the only one that may set its expiry, and stays until it has, or `lost` says that there is no
  such request or that it was in vain. For
  `BurstBounded`, the requests in the window belong to at most two lives of the key: some `e` parts them
  (`Lives`), what was counted at most `e` ticks ago in this life, the rest in the one before, and neither is more than the
  limit. The present life is no older than the window because the key is given a whole window
  when it is made.
* *Upload page.* Runs know the visit they began in and begin only on the page (`VisitsKnown`), and at
  most one is of this visit while the button was clicked once (`OneRun`). Runs of different visits have
  different cards (`Separate`); what a run has still to send was neither sent nor stored (`Ahead`); and
  a card's status is what its run is doing with it (`CardsTell`). The progress is no more than the cards
  that are stored (`Counts`), which are those on the page and those that were cleared away.
* *Tabs.* Each token has one owner (`AllOwned`), requests ask with a token their tab has held
  (`Asking`), an answer carries one that nobody else was given, of the owner of the one it replaces (`Answered`); hence the stored token
  lives (`StoredTokenLives`), and a tab loses its own to another tab or to a lost answer
  (`LostToAnotherTab`).
* *Comments.* Ids are given once, in order, and the author of a row never changes; the owner that a
  Delete has read is thus still the owner of what it deletes (`Permitted`). A text that nobody insisted on
  is in one call at most and not stored before it (`SentFresh`); the box of the web page holds what is being
  sent, or what was typed meanwhile (`BoxWaits`); and a text is in its box, stored, refused or on its way
  (`Kept`). A list, or the answer that is about to become one, shows what its client did but for
  what the client has not heard of (`ListsTell`), which makes it fetch again.
* *Upload of the phone.* A picture is chosen once, so it is not twice in a selection (`Selected`). While the
  phone waits, each picture of its form is stored, passed over or still with the server, which may work on
  earlier requests beside it, whose pictures count as failed (`ServerAt`); and what the server has left was stored before, or is left of
  another request as well, only if it was sent again after an error (`SentBefore`).
* *Sessions of the pages and of the phone.* Unless calls of the session overlapped, one is under way at most, for what
  was asked for last (`LastAsked`, `AskedLast`). A button waits on the page that is shown, for one submission
  (`FormWaits`), so the page that is left may forget it. The profile waits for its own user's list, or the list
  counts as inherited (`ListOf`): nobody comes or goes while it stays. On the phone the last write, done or not, is the session
  (`Written`), which is what a process started anew reads.
* *Screens.* The assumptions of Screens: the images and other things of an instance are finitely many and known by numbers
  (a higher one is newer: ids of a sequence and `created_at`), a page has room for a row, what stands for "no answer yet" is not an
  answer, there is a user to be listed (the administrator who is looking), and no range of the monitor exceeds what it keeps
  (`monitor/main.go:76-79`, `:117`). Each of the properties speaks of a page at rest, and says nothing of the way there;
  what is inductive is that the entry shown is `Current`: its answer is what the server has,
  or a fetch under way is about to bring that, whether it was served already or not. A call that has changed
  the server breaks this until it reports, so `GalleryCurrent`, `ImageCurrent`, `TagsCurrent` and `OfficeCurrent` hold while no such
  call is under way, and its report renews the entry, or is named by the history of the page (`overtaken`, `missed`). That a
  renewal throws away what an older fetch had been told (QueryCache) is what makes the step go through. Beside it, each page needs
  how its calls relate to what the user wants: in the detail page a lit tag and the clicks on it agree in parity with
  what the calls under way will do (`MarksTellClicks`); in the administration a thing that was asked for once is what was wished,
  or a call that will make it so is under way (`OfficeWishesMet`, `OfficeCallsWish`), or its request failed (`unsure`).
* *Page numbers.* That a page is not beyond the last needs what the answers the page has at hand say of the total: as long as nothing was
  deleted and nothing narrowed, every one of them, stale or not, is right (`GalleryLists`, `GalleryPaged`, `OfficePaged`).
* *Endless list.* What is joined is described without reference to how: no image is twice unless something came, all that
  is left of it is among the newest rows, up to the depth read; unless something went, it is closed upwards and misses nothing but what came
  (`FeedGood`). This holds of the list as it is and of the list with the answer on its way joined to it (`FeedComing`). That pages cut
  from lists of different moments fit follows by counting newer images (Listings), where a definition by
  recursion would need an induction over data.
* *Monitor.* A row that was collected is still there or is older than every range that can be asked for (`HostInv`).

Only model-checked: liveness (`DeletedObjectsGo`, `RequestsAnswered`,
`CallsSettle`, `ExportSettles`, `RefusalEnds`, `UploadEnds`), because fairness and ENABLED are out
of the prover's reach; `FiguresAreTrue`, whose figures are computed by folds, sorting and recursion over data (days, types, charts), so
that what they return for every input is an induction the prover cannot do, with the types of the parts; and the two runs that show a violation.

## 5. Not modelled

* Presentation: styles, animation, the geometry of the 3D gallery, the cursor, motion hooks, greetings, exact
  strings and formats that no state depends on, the clipboard.
* `cors.go`, security headers, `logger.go`, `recovery.go`, the shape of answers and error codes, the health
  endpoints: they keep no state.
* `nginx.conf`, the compose file and the scripts: deployment. The general rate limit of the proxy is nginx's own.
* Decoding of images (a file is decodable or not) and hashing of passwords.
* The view counter: nothing reads it but the number on the page.
* The orders of a list. The gallery offers *oldest* and *name*, which the server does not know
  (it knows `file_size` and `view_count`, which nobody asks for): every list comes newest first.
* The figures the monitor measures and the page that draws them; what it keeps and answers is in Monitor.
* `MyUploadsScreen`: no navigation leads to it.
* Reading the environment, connecting to the stores, creating the bucket.

`PROJECT.json` gives the reason for each component.

## 6. Plan

Done: the service (ImageLifecycle, AuthTokens, TagMarks, PrintSync, RateLimit, Comments), the two clients'
sessions (WebSession, TwoTabs), the upload page (UploadQueue), the other pages and screens and the monitor (composed in
Screens and MCPages), two abstract specifications with their refinements, and the proofs above.

Left: the composition of UploadQueue with RateLimit (the file that meets the limit of an hour fails, and the loop goes on).
