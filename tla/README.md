# Verification of campus-service-platform

TLA+ models of the Go backend, the TLC runs that check them on small
instances, and TLAPS proofs of what matters most for every size. All paths
below are relative to the repository. Every action is a translation of code;
`PROJECT.json` ("map") names the lines.

## The system

Two stateless backend pods (`cmd/server`, `deploy/k8s/40-backend.yaml`) serve
HTTP and share MySQL, Redis and Kafka. Each pod also runs two consumer loops,
one per topic. A separate process on the host, `cmd/deployd`, builds and rolls
out. Go code reaches the shared stores by single calls; only a few sequences
are transactions, Lua scripts or pipelines, so most of what can go wrong lies
between two calls.

| component | code | state | operations | hard part | what makes it correct |
|---|---|---|---|---|---|
| flash sale | `internal/service/seckill.go`, `scripts/lua/seckill.lua` | `tb_seckill_voucher.stock`, `tb_voucher_order`; Redis `seckill:stock:*`, `seckill:order:*`, `icr:order:*` | publish a voucher, buy, create the order | three stores, no transaction across them | one order per user, no oversale, books balance, the answered order appears |
| order queue | `internal/mq/mq.go`, `cmd/server/main.go` | topics `seckill.order`, `seckill.order.dlt`, group offsets, retry counters | publish, fetch, retry, dead-letter, commit, shut down | redelivery, crashes, rebalances, late commits | nothing is committed that is not settled |
| order number | `NextOrderId` | Redis counter per day | take a number | clock and day key are read once, the counter later | numbers are unique |
| shop cache | `internal/service/shop.go` | `tb_shop`; `cache:shop:*`, `lock:shop:*` | detail, rebuild, save, update | reader fills what an update has just deleted; the lock expires under its owner | an entry is a row that was stored; staleness ends |
| shop GEO index | `internal/service/shop.go` | `shop:geo:*` | nearby query with lazy backfill, save, update | index follows a row read earlier; backfill looks at emptiness only | the index agrees with the table when the calls are done |
| type list | `QueryShopTypeList` | list `shop_type:` | read, fill by RPUSH | two fillers; a reader in the middle of a fill | the types in order, each once, none missing before the last |
| blogs, likes | `internal/service/blog.go` | `tb_blog.liked`, `blog:liked:*` | publish, toggle, list | ZSCORE, UPDATE and ZADD are three calls | the column counts the set |
| feed | `internal/service/blog.go` | `feed:*` sorted sets | fan-out, scroll by score and offset | equal scores, publishing while scrolling, fans that join meanwhile | a fan has the blog; no blog twice, none skipped |
| follows | `internal/service/blog.go` | `tb_follow`, `follows:*` | follow, unfollow, common | two stores; no unique index on the pair | the set is the table |
| session | `internal/service/auth.go`, `internal/middleware/auth.go` | `login:code:*`, `login:token:*`, `tb_user` | send code, login, refresh, authorize | find-or-create; HSET on an expired token | a session has an owner and an end, and shows the stored nickname |
| profile, sign-in | `internal/service/user.go` | `tb_user_info`, bitmap `sign:*` | update, upsert, sign, count | count-then-insert | what a save was told holds |
| RAG ingestion | `internal/rag/ingest`, `internal/rag/store`, `internal/httpapi/rag.go` | documents, chunks, tasks, knowledge-base counts; a semaphore of 2 per pod | upload, process, delete document or base | deletes while a document is processed; a pod that dies in between | no chunk without a document, counts are right, a document ends in done or failed |
| RAG chat | `internal/rag/chat` | sessions, logs, `message_count` | ask, list, delete session | read-modify-write over a slow LLM call | count equals logs; nothing in a deleted session |
| RAG evaluation | `internal/rag/eval` | runs, cases | run | error returns half way; the base goes meanwhile | done means all cases are stored |
| RAG chunking | `internal/rag/chunker/chunker.go` | none that lasts: an open chunk, a stack of titles | split by template | what is noted early is used late; limits, overlap, repeated headers | nothing is lost, titles and position are those of the text |
| RAG parsing of Markdown | `internal/rag/parser/text.go` | an open paragraph, an open table, the code flag | parse | each kind of line closes different things | no line is lost, code and tables stay whole |
| RAG retrieval, other parsers, embedding, LLM | `internal/rag/*` | none | pure or HTTP | numbers, text | not modelled, see below |
| deploy dashboard | `cmd/deployd/main.go` | jobs, the tag file | run, list | concurrent jobs share one tag file | a rollout uses the image its job built |

Components call each other in one direction: HTTP handlers call services,
services call the stores; the queue is the only asynchronous link
(`SeckillVoucher` -> Kafka -> `Consumer.Run` -> `CreateOrderIdempotent`), and
the shop rebuild and the ingestion worker are the only goroutines that outlive
a request. State is shared only through MySQL, Redis and Kafka, except for the
ingestion semaphore and deployd's job table.

## Modules

### Seckill: flash sale and order queue

`Seckill.tla` models the sale from publishing a voucher to the order row.

| model | code |
|---|---|
| `SaveVoucher`, `PreloadStock`, `PreloadFails` | `AddSeckillVoucher`: one transaction, then the SET |
| `TakeNumber` | `NextOrderId`: the INCR; the number stands for the whole id |
| `RunScript` (`ScriptAnswer`, `ScriptEffect`) | `seckill.lua`, atomic in Redis |
| `Publish`, `PublishTwice`, `PublishFails` | `PublishSeckillOrder`, including the writer's own retry and a lost acknowledgement |
| `RequestCut` | death of the process serving the call |
| `Fetch`, `InsertOrder`, `DuplicateOrder`, `InsertFails`, `DeductStock`, `DeductFails`, `DeadLetter`, `DeadLetterFails`, `GiveUp`, `Commit`, `CommitFails` | `Consumer.Run`, `processWithRetry`, `CreateOrderIdempotent`; `cons[p][t]` is the loop's program counter, message and number of tries |
| `Rebalance`, `Stop`, `Exit`, `Crash` | consumer group and pods |

Decisions the model takes:
- A voucher has a partition of its own per topic: the key is the voucher id
  and the balancer hashes it.
- kafka-go and the coordinator are external. A reassigned partition resumes at
  the committed offset; a loop that holds a message goes on with it and may
  commit it late; the coordinator stores that offset whoever owns the
  partition. This is the weakest guarantee the reader gives.
- MySQL, Redis and the Kafka logs keep what they acknowledged. A call may fail
  with or without effect. Each failure, stop, crash, rebalance or duplicate
  send spends one unit of the budget `MaxFaults`; failures caused by the
  cancelled root context are free.
- `Stop` cancels the root context (SIGTERM). From then on database calls and
  commits fail at once, but the dead-letter write, on `context.Background()`,
  works. `main` does not wait for the loops: `Exit` may happen at any point.
- A message whose JSON is broken, a failing FetchMessage and a nil publisher
  are left out. Begin and end time of a voucher are stored and never compared
  by `SeckillVoucher`, so they are not in the model.

`FlashSale.tla` is the abstract sale: open, reserve (once per user, while
stock lasts), fulfil (only a reservation, once). `Seckill` implements it with
`open` the vouchers whose Redis key exists, `reserved` the Redis sets and
`fulfilled` the users with an order row.

### Shop: detail cache and GEO index

`Shop.tla` models a call as a process whose steps are the single MySQL and
Redis calls of its handler, together with the rebuild goroutine the handler
may leave behind. `call[c]` holds what the call has read so far, which is what
the code keeps in local variables.

| model | code |
|---|---|
| `GetDetail`, `Load`, `Fill`, `MarkMissing` | `QueryShopById`: GET, and on a miss SELECT, then SET of the detail or of the null marker |
| `LockShop`, `Reload`, `Refill`, `Unlock` | `rebuildShopCacheAsync`: SETNX, SELECT, SET, the deferred DEL |
| `SaveShop`, `StoreDetail`, `List` | `SaveShop` |
| `ReadOld`, `UpdateRow` (`Merge`), `Evict`, `Unlist` (`Moves`), `List` | `UpdateShop` |
| `Nearby`, `Scan`, `Backfill` | `QueryShopByType` with `backfillShopGeo`, one GEOADD at a time |
| `Expire`, `NullExpires`, `LockExpires`, `LockExpiresEarly` | the logical expiry stored in the value, the two TTLs |
| `Crash` | a pod dies with any set of its calls |

Decisions the model takes:
- A row is its type and one value `place` that stands for position and all
  other columns: the properties only tell equal rows from different ones.
- A hit that is fresh, a null marker and a lock that is held answer and change
  nothing, so they are no steps of their own. The search itself and paging
  only read.
- A call that fails with its error ignored, a rebuild slower than its lock and
  a crash each spend one unit of `MaxFaults`.
- `slow` is an observation: how many rebuilds of each shop outlived their
  lock. `FewRebuilds` is stated with it, so that no other failure excuses a
  rebuild too many; that there may be more than one at all is the finding of
  `shop_single`.
- `overlapped` is an observation, not program state: the shops for which a
  writer met another call. The code has no locking, so the exact agreement of
  stores is claimed only outside it; what holds for overlapping calls is
  `CacheHeals`.

### Ingest: documents of the knowledge bases

`Ingest.tla` models uploads, the workers and the deletes. For each document
there is a worker (`proc[Worker(d)]`, which starts as the upload handler) and
one delete handler (`proc[Deleter(d)]`).

| model | code |
|---|---|
| `CheckBase`, `CreateDoc` | `UploadDoc`: GetKB, then the INSERT and Submit |
| `Acquire`, `Leave` | the channel `sem` of `Submit`, and its deferred release |
| `CreateTask`, `Parse`, `Split`, `Clear`, `Encode`, `Insert`, `Fail`, `Finish` | `Process`; `Mark` is its closure `update` |
| `CountChunks`, `StoreCount` | `UpdateKBCounts`, a count and a later UPDATE |
| `GetDoc`, `DeleteDoc`, `DeleteKB` | the handlers with their transactions |
| `Crash`, `Cut` | a pod dies with workers and queue; a delete is cut off |

Decisions the model takes:
- What parser, splitter and embedding service answer is any outcome, free of
  charge: `Fail` follows from a document as easily as from an outage. A failed
  database call is a fault and may have had its effect.
- The two UPDATEs of `Mark` are one step. Only a transaction that removes both
  rows could come between them, with the same result; a failure of either is
  in the step.
- `InsertChunks` is one transaction (CreateInBatches opens one).
- `doc_count` is counted and stored with `chunk_count` and left out. A document
  is uploaded once and deleted at most once by its own handler.
- `raced` and `met` are observations: documents removed under their worker,
  and bases that changed between a count and its storing.

### Likes, Follows, Feed: blogs

| model | code |
|---|---|
| `ReadScore`, `Count` (`Delta`), `Mark`, `CutToggle` | `UpdateLike`: ZSCORE, UPDATE, ZADD or ZREM |
| `StoreFollow`, `MarkFollow`, `CutFollow` | `Follow`: INSERT or DELETE, then SADD or SREM |
| `StorePost`, `ReadFans`, `Push`, `EndPost`, `FailPost` | `SaveBlog`: INSERT, SELECT of the fans, the pipeline of ZADDs |
| `ServeAsk` (`RevRange`, `TrailingEqual`) | `QueryBlogOfFollow` |
| `SendAsk`, `ReceiveAsk`, `FailAsk` | `queryBlogsOfFollow`, `onScroll` and the click on the tab in `front/html/hmdp/info.html` |

- `Likes` keeps for each call what ZSCORE said. The column is unsigned in
  `db/hmdp.sql`, so the UPDATE below zero fails. `tangled` is an observation:
  posts where two toggles of one user met or a toggle was cut off.
- `tb_follow` has no unique index on the pair: `rows` counts equal rows, a
  DELETE takes all. `torn` observes pairs whose calls overlapped or were cut.
- `Feed` extends `Follows`, because fans come and go while a blog is
  published. `witness` observes who followed all through the publishing, and
  who never did.
- The page is part of the model: what comes twice or is skipped depends on the
  parameters it keeps from the last answer. `isReachBottom` does not keep
  requests apart, so several may be under way. `Lag` is how far the browser's
  clock is behind the server's, since a refresh asks from the browser's clock.
  `late` observes blogs pushed behind the reader, `blurred` lists made from
  overlapping requests or after a refresh that failed.

### ShopTypes: the list of types

`ShopTypes` has a reader per request: `ReadList`, `MissList`, `FailRead`,
`LoadTypes`, `PushType`, `LosePush`, `StopFilling`, `AnswerLoaded` are the
calls of `QueryShopTypeList`, and `DecorateTypes` is what `js/common.js` makes
of the answer. Two readers that find the list empty both fill it; the page
drops the repeats. Nothing in the repository writes `tb_shop_type`.

### Session: logins

| model | code |
|---|---|
| `SendCode`, `FindUser`, `Register`, `WriteSession`, `CutLogin` | `SendCode`, `Login`: find or create the user, HSET and EXPIRE of a new token |
| `ReadSession`, `Extend`, `FailExtend`, `Refuse` | `TokenRefresh`: HGETALL, EXPIRE; `LoginAuth` and the 401 of `common.js` |
| `Handle`, `UpdateUser`, `RefreshSession`, `CutRefresh` | PUT `/user/profile`: UPDATE of `tb_user`, HSET of the hash |
| `SessionTick` | keys expire; a request takes at most `MaxAge` ticks, less than `Life` |

A tab keeps one token. `missed` observes tokens whose EXPIRE came too late or
failed, `mixed` users whose nickname was changed while another session or
request of theirs was there. Requests that only read the session are all
alike: `ReadSession` without a nickname.

### Profile, OrderId, RagChat, RagEval, Deploy

| model | code |
|---|---|
| `Profile`: `CountRows`, `InsertRow`, `UpdateRow` (`Updated`), `FailSave` | `UpsertUserInfo`; `user_id` is the primary key, so the second INSERT fails. A field names the call that wrote it |
| `OrderId`: `ReadClock`, `Incr`, `Compose` | `NextOrderId`; `DayOf` is the day of a second, `W` stands for 2^32. Pods may read any second in any order |
| `RagChat`: `CreateSession`, `GetSession`, `AnswerNothing`, `Answer`, `CreateChatLog`, `FailLog`, `CountMessage`, `CutCount`, `Drop`, `DeleteSession`, `DeleteChatBase` | `Ask`: the session is read, the model answers, the log row is stored, `message_count` becomes one more than what was read; the two deletes are transactions |
| `RagEval`: `CreateEvalRun`, `ScoreCase`, `InsertEvalCases`, `UpdateEvalRun` (`Finished`), `FailEval`, `DeleteEvalBase` | `Run` of the evaluation with each error return, and `DeleteKB` |
| `Deploy`: `StartJob`, `WriteTag`, `Compile`, `BuildImage`, `ImportImage`, `ReadTag`, `SetImage`, `WaitRollout`, `FailJob`, `PassSecond` | `runJob` and the scripts of `bashScript`, line by line; `set -e` ends a script at its first error |

A statement that returns an error has had its effect or not: the INSERT and the
UPDATE of `FailSave`, the row, the cases and the UPDATE of `FailEval`, each with
both outcomes. In `Profile` and `RagEval` the label `cut` is a failed call whose
error is that of the last UPDATE; the caller hears the same as of `failed`, and
only a call that is cut may have left fields, or a run that is done.

Observations: `crossed` (sessions two calls were answering, or that were
deleted under a call) and `blotted` (a write failed) in `RagChat`; `caught`
(runs whose base was deleted under them) in `RagEval`; `clashed` (jobs beside
which a build ran) and `broken` (a build failed after writing its tag) in
`Deploy`. In each case the code has nothing that keeps the calls apart, and
the property says what holds everywhere else.

### Chunker and Markdown: from a document to chunks

These two are algorithms. Each is written as the loop it is, one action per
case of the loop body, so that what is open between two blocks or two lines is
state that the properties can speak of.

| `Chunker` | `internal/rag/chunker/chunker.go` |
|---|---|
| `Title`, `Image`, `Item`, `BigTable`, `Body`, `Join`, `Overflow`, `EndNaive` | `chunkNaiveOpts`: the cases of its loop, the loop over pieces, the last flush |
| `Flushed`, `Marked`, `Fits`, `Tails` | the closure `flush`, the titles and position noted for it, the limit, `tailTokens` |
| `PushTitle`, `Path`, `Clamp` | `sectionBuffer` |
| `SplitPiece` (`AddParagraph`, `AddText`, `Done`), `SplitTable` | `splitPiece` with `splitSentences`, `splitTable` |
| `TableOnly`, `One` | `chunkTableOnly`, `chunkOne` |
| `Question`, `Answer`, `SkipTable`, `EndQA` (`PairFlushed`, `Glue`) | `chunkQA` and its fall back to the naive template |

- A text is paragraphs of sentences, a sentence is a name and its number of
  tokens, possibly 0 (a rule, punctuation). `Tokenize` sees to it that counts
  add up over what joins sentences. Whether a block begins like a question or
  an answer is a mark of the block.
- An overlap is not text but a number of tokens: `tailTokens` takes
  characters, and one Chinese character more may be two tokens. Any number
  from 0 to that limit, or no overlap, is possible.
- `Glue` keeps what is said on one line as sentences of its own. The code joins
  them without a break where the first has no end mark (`chunker.go:298`), so a
  Chinese character on each side makes one token more than the sum. Which side of
  the limit such an answer is on may differ by that token; no property speaks of
  the boundary itself.
- Blocks are of the kinds the parsers make; levels above 6 come from .docx
  styles. No parser makes images today, the templates pass over them.

`Markdown.tla` is `markdownParser.Parse`: `Fence`, `Code`, `Heading`, `Row`,
`ListItem`, `Blank`, `Plain` are the kinds of line in the order the code tests
for them, `EndParse` is what follows the loop, `Flush` the two closures. Lines
are named by their number. Offsets, which the code calls estimates, are left
out. `CodeAfterTable` names the documents for which order and tables are not
claimed: a fence does not close the table before it.

## Runs

| run | bounds | shows |
|---|---|---|
| `seckill_safe` | 1 voucher of 2 units, 2 pods, 1 retry; 3 requests of up to 3 users and 1 fault, 2 requests of one user and 2 faults, or 2 of two users and 3 faults | `TypeOK`, `OneOrderPerUser`, `NoOversell`, `OrderMatchesAnswer`, `StockNeverDeductedTwice`, `BooksBalanceWithoutFaults`, `CommittedIsSettled`, `ImplementsFlashSale` |
| `seckill_live` | 1 user, 1 request, 2 pods, 1 retry, 2 faults | `AnsweredOrderIsStored` |
| `seckill_drift` (violation) | 1 of each, 1 retry, 1 fault | `BooksBalance` fails |
| `seckill_lost` (violation) | 1 of each, 1 retry, 3 faults | `FailedReachesDLT` fails |
| `shop_safe` | 2 shops of 2 types and 2 places, one older than the index, 2 calls, 2 writes, no fault | `CacheAgrees`, `GeoAgrees` |
| `shop_single` (violation) | 1 shop, 2 calls, no write, 1 fault | `OneRebuild` fails |
| `shop_heals` | 1 shop that is not there yet, 2 places, 3 calls, 2 writes, 1 fault | `TypeOK`, `CacheHeals`, `FewRebuilds` |
| `shop_nearby` (violation) | 2 shops, one older than the index, 1 call, 1 write, no fault | `NearbyComplete` fails |
| `ingest_all` | 2 documents of 2 and 1 chunks in 1 base, 1 slot, 2 pods, 1 fault | `TypeOK`, `StatusTellsChunks`, `OrphansNeedRace`, `CountsAgree`, `UploadsSettle` |
| `ingest_orphans` (violation) | 1 document, no fault | `DeletedChunksStayDeleted` fails |
| `social_all` | see below | `TypeOK`, `LikesAgree`, `FollowsAgree`, `FanOut`, `ScrollOrder`, `ScrollComplete`, `TypesInOrder` |
| `platform_all` | see below | `TypeOK`, `SessionsAreWhole`, `ExtendedSessionsLast`, `SessionShowsNick`, `SavesTellTrue`, `UniqueIds`, `LogsAgree`, `RunsTellTrue`, `RolloutsTellTrue`, `NothingLost`, `ChunksArePlaced`, `CutsKeep`, `LinesKept`, `BlocksAreWhole` |

`seckill_safe` has three parts, chosen in the first state of `MCSale`. In
`crowd` three requests of three users, of two, or of one want two units, with one
fault; in `again` one user asks twice and two faults happen; in `faults` two
users ask and three do, enough for a crash in the middle of a message,
redelivery to the other pod and a late commit behind the next message. The third
request only begins in the crowd. Who asks is listed up to the names of users
and requests.

`social_all` and `platform_all` check several modules that share no state. The
variable `part` is chosen in the first state and says which of them runs; the
others stay as they began, so the state spaces add instead of multiplying, and
each property is checked on all behaviours of its own module.

| part | bounds, and why they suffice |
|---|---|
| likes | 2 users, 2 posts (one with an old like that Redis does not know), 2 calls at once, 4 calls, 1 cut: both users toggle, take back and toggle again |
| follows | 2 fans of 1 author, 2 calls at once, 3 calls, 1 cut: a follow stored twice, and an unfollow |
| publish | 1 blog, 3 follows or unfollows by 2 fans between any of its steps, 1 fault |
| scroll | 3 blogs in 3 milliseconds, so that two share one, pages of 2, 2 requests at once, 4 requests, 1 fault, `Lag` 1 |
| long | 4 blogs with different scores, one request at a time, no fault: a full page, a second one, and blogs pushed between them |
| types | 3 types, 3 readers, 2 faults |
| session | 1 phone, 2 tabs, 2 tokens, 2 requests at once of 3, a session of 2 ticks in 3, 1 fault: a token expires under a request, and two devices change one nickname |
| profile | 3 first saves with any of 2 fields each, 2 faults: two UPDATEs that were made and told as failed, beside a third call |
| order id | 3 calls, midnight between the seconds 1 and 2, `W` = 4 |
| chat | 2 sessions, 2 calls at once, 4 calls, 1 fault |
| eval | 2 runs, of 2 cases and 1, 2 faults, the base deleted at any time |
| deploy | 3 jobs of any kind, 3 seconds, 1 fault |
| chunk | documents of 1 to 3 blocks of 14 kinds, 5 templates, chunks of 4 tokens, an overlap of 1 character |
| markdown | documents of up to 5 lines of 6 kinds |

In the parts scroll and long the fans are read right after the row is stored
and blogs do not end: the reader sees publishing only through its pushes, and
the steps between are the subject of the part publish. Both conditions of
`ScrollOrder` are needed: TLC refutes the formula without `~blurred` and
without `Distinct`. Symmetry is over calls, readers,
tokens, requests and jobs; users, fans and tabs are told apart by the initial
states or by one another.

Shop: two calls are enough for `shop_safe`, because every inconsistency the
code can produce is one call writing what another has made old; two writes make
the value that comes back old differ from two newer ones. That run has no fault,
because its properties speak of behaviours without one. One shop in `shop_heals`, since
shops share no key but the index, which that run does not ask about; it begins
without a row, so that a reader may store the null marker over a shop saved
meanwhile, and the second write updates the shop. Its three calls are those of
`FewRebuilds`: a rebuild that outlives its lock, the next one, whose lock the
first deletes, and the third it lets in; one slow rebuild allows two at once,
and the third call is there to break that bound. `NamedSpec` calls the place a
shop is saved with `x1`: every behaviour is one of these up to the names of the
two places.
Ingest: one slot makes the second document wait when both are on one pod, two
pods let both workers run at once; the capacity of 2 in the code is a
constant of the model. One base, because no call touches two.

Chunk: with 4 tokens a text of 7 is cut into paragraphs and sentences and one
of 5 cannot be cut; the kinds hold each such text, titles of level 1, 2 and 7,
and tables that fit, that do not, and that have no rows. Three blocks are
enough for a title, a text and what overflows it. The overlap of 40 percent is
clamped to 30, one character. Markdown: five lines hold a table, a code block
with a line in it, and a row again.

Properties that belong together are named parts of one: `LikesAgree` is
`ColumnCountsSet` and `UnlikeWorks`, `TypesInOrder` is `ShownIsPrefix` and
`FilledIsWhole`, `LogsAgree` is `CountMatchesLogs` and `LogsNeedSession`,
`SavesTellTrue` is `SavedFieldsStay`, `FieldsWereSent`, `SavesDoNotMix` and
`OneSaveWins`, `RunsTellTrue` is `DoneIsComplete`, `AnsweredIsDone` and
`CasesNeedRun`, `RolloutsTellTrue` is `RolloutUsesOwnBuild` and `RolloutFindsImage`,
`ChunksArePlaced` is `HeadingsAreAncestors` and `StartsWhereItSays`, `CutsKeep`
is `ChunksFit`, `RowsKeepHeader` and `PairsWhole`, `BlocksAreWhole` is
`CodeIsWhole` and `TablesAreRuns`.

One retry instead of three keeps the shape (a try, another try, out of tries).
One voucher is enough: vouchers share nothing but the counter. Symmetry is
over pods and over the users and requests all parts of `seckill_safe` have;
the third of each, which only the crowd uses, keeps its name. No run with
liveness has symmetry.
Deadlock is not checked: when all calls have answered and the queues are empty
the system rests.

Fairness: weak fairness on each consumer loop, a `for` in a goroutine of its
own that blocks only in calls, and on the exit of a stopping pod, which
`main` reaches after at most ten seconds. Nothing is assumed of requests.
`AnsweredOrderIsStored` is checked with two faults: with two units a loop can
exhaust its tries but not also lose the dead letter. That a third fault
can lose the order is what `seckill_lost` shows.

`FairSpec` of `Shop`: handlers and goroutines go on (weak fairness), time
passes so that TTLs and the logical expiry arrive (weak fairness), and somebody
keeps asking for the shop (strong fairness on `GetDetail`). The last one is an
assumption about users: the cache is repaired only by a reader.
`FairSpec` of `Ingest`: a handler that has found the base and the worker's
goroutine go on, and the semaphore lets those in that wait (weak fairness,
since only finitely many are ahead). Deletes and failures are never forced.

Likes, follows, the feed, sessions and the rest have no process that is bound
to go on: a user or a page repeats a call or does not. No liveness is stated
for them.

## Findings

- `seckill_drift`: the INSERT and the UPDATE of `CreateOrderIdempotent` are
  separate; a failure between them loses the deduction for ever, because the
  retry takes the duplicate for done (`seckill.go:166`).
- `seckill_lost`: a failed dead-letter write is only logged and the message is
  committed (`mq.go:143`).
- `shop_nearby`: one `SaveShop` before the first search makes the GEO key
  non-empty, so the backfill never runs and the imported shops are not found
  (`shop.go:285`).
- `shop_single`: the lock of a rebuild lives ten seconds and is deleted by
  whoever finishes, so a slow rebuild runs beside the next one, while
  `specs/shop/spec.md:26` has only one query the row and rewrite the cache
  (`shop.go:87`).
- `ingest_orphans`: a worker inserts the chunks of a document or base that was
  deleted meanwhile; retrieval goes on reading them (`ingest.go:134`).
- A page that scrolls may show a blog twice when blogs share a millisecond:
  `os` counts the equal scores of the last page only, although the request may
  itself have skipped some (`blog.go:209`). `ScrollOrder` holds only with its
  condition `Distinct`; no run of its own.
- Two first saves of a profile may both count no row; the primary key refuses
  the INSERT of the second with a server error (`user.go:192`), which
  `docs/qa-bugs.md` B11 lists as repaired for a first save. No run of its own.
- Three comments of `chunker.go` promise more than the code does, without runs
  of their own: a table that fits is joined with the text around it (line 193
  has every table be a chunk); a sentence longer than a chunk is kept whole
  (line 353 has pieces up to the limit); the template of one chunk never cuts
  (line 327 has it cut at the limit). `CutsKeep` names the last two as
  exceptions and fails without them.

## Proofs

`SeckillProofs.tla` proves, for all sets of users, vouchers, requests and
pods, every stock, and every bound on retries and faults:
`Spec => []TypeOK`, `[]OneOrderPerUser`, `[]OrderMatchesAnswer`, `[]NoOversell`,
`[]CommittedIsSettled`, `[]StockNeverDeductedTwice`,
`[]BooksBalanceWithoutFaults`, and that `Seckill` implements `FlashSale`. It uses the three assumptions `Seckill` states on its constants
(`StockAssumption`, `PodsAssumption`, `BoundsAssumption`).

None of them but the first is inductive. The invariant `SaleInv` adds:
- `InFlight`: a busy loop holds an offset its partition contains;
- `ClaimInv`: whatever carries an order (a request past the script, a message
  in either log, a row) belongs to a member of the Redis set, and all carriers
  of the same user and voucher carry the same number. The argument is that the
  script lets a user through once, so at most one request ever claims the pair,
  and everything after it is a copy;
- `StockInv`: Redis stock plus reserved users is the published stock, so the
  set never outgrows it; order rows map one to one to its members.

`SaleInv` is checked action by action; the temporal step is by PTL. The rest
builds on it:
- the refinement (`FlashSaleImplemented`): initial states map to initial states;
  a script that lets a request through is a sale, an INSERT of a row stores a
  sold order that is not stored yet (`ClaimInv`), publishing puts a voucher on
  sale, and every other step leaves the mapped variables alone;
- `NumberInv`: a number is given once, and whatever is or may become a row
  carries the number its call took. OrderExists compares numbers only, so this
  is why a duplicate is the message itself and not another order;
- `DeliveryInv`, for `CommittedIsSettled`: whatever is committed is settled
  (`CommittedInv`); what the owner of a partition has fetched is settled or in
  its hands (`PositionInv`); and whoever works on a message, also one who lost
  the partition long ago, has nothing unsettled before it (`LoopInv`), which is
  why a stale commit loses nothing;
- `BooksInv`: MySQL stock plus rows is at least the published stock plus the
  loops between INSERT and UPDATE, and equal to it until the first fault.
  Messages lie in the partition of their voucher, so that a loop deducts from
  the voucher whose row it inserted.

`ShopProofs.tla` proves `[]TypeOK`, `[]FewRebuilds`, `[]CacheAgrees` and
`[]GeoAgrees` for all sets of shops,
types and positions and any finite number of calls (`CallsAssumption`,
`AbsentAssumption`, `BoundsAssumption`). `TypeOK` is not inductive: a call that
is about to store a detail must carry a whole row, which `TypeInv` adds.
`FewRebuilds` needs to know where the lock is: `RebuildInv` says that the
rebuilds of a shop are at most those that outlived their lock (`slow`), plus one
while the lock is held. Taking the lock adds its holder; finishing removes a
rebuild and the lock, whoever holds it; only a lock that expires under its owner
leaves the rebuild without it (`SlowStep`), and is counted.
`CleanInv` serves the other two: of a shop that is not overlapped a writer is
alone with it, what a call carries of the row over its suspensions is the row,
and cache and index say what the row says or there is a writer on its way to
them.

`IngestProofs.tla` proves `[]TypeOK`, `[]StatusTellsChunks`,
`[]OrphansNeedRace` and `[]CountsAgree` for any finite set of documents of any size and any number
of bases, pods, slots and failures (`DocsAssumption`, `SizeAssumption`,
`FaultsAssumption`). The invariant `PipelineInv` follows a document through its
worker: `Owned`, as long as no delete met it, row and base are there from the
upload on; `Told`, from the insert on the chunks are there as long as the row
is, before the insert there are none, and only a worker that is through shows
done or failed. Steps are split by whose document they are about
(`OthersUntouched`), then by action. `CountInv` says of a base that nothing met
that an actor about to store a count holds the right one, and that the stored
count is right or somebody still owes one.

`SocialProofs.tla` proves `[]ColumnCountsSet`, `[]UnlikeWorks`,
`[]FollowsAgree`, `[]FanOut`, `[]ScrollOrder`, `[]ScrollComplete` and
`[]TypesInOrder`, for any finite sets of users and calls and any number of posts. `LikesInv` adds to the equation (`Balanced`) that on a post
that is not tangled a user toggles once at a time and what ZSCORE said stays
true until the call's own ZADD or ZREM (`Alone`): only then does each ZADD add
a member and each ZREM take one. `UnlikeWorks` then is counting: those who are
about to take a like back are members, one call each (a pigeonhole), so the
column has enough. `FollowsInv` says of a pair that is not torn that at most
one call is between row and set, and is about to write what the row says.
`PublishInv` follows a blog: witnesses judge it until its fans are read, and
afterwards each has it or will.
`ScrollInv` follows the page: what it shows is a stretch of the feed (`Stretch`:
falling, and with every blog due between its ends), its parameters ask for what
comes right below (`Below`), and the request or answer in flight is such a
stretch too, from the refresh or from below the page; it joins stretches end to
end. It needs that only one request has the page (`SingleInv`) and that a score
once pushed stays (`PushOnce`). That a page of ZREVRANGEBYSCORE is such a stretch
is proved from `Rank`, how many of the reader's blogs come before one: ranks go
down with the scores, and the pages are the ranks from `offset` on.
`TypesInv` says that whatever has come into the list, all that precede it in the
table came before (`Followed`); then the first occurrences, which is what
`decorateTypes` keeps, are a prefix of the table, and the whole of it once a
filler is through. The types of all four hold in `MCSocial`, the composition
that the run checks (`SocialTypes`): a step is one of its part
(`PartsAreFeed`, with `PartsAssumption`: `a1` is an author, `f1` a fan, and there
are three posts), so what each module keeps is kept. The type of the feed needs
`FeedLimits`: no request and no page has a time more than one past the
clock's last, and requests and faults stay counted.
`RevRange` and `DecorateTypes` are written by rank and by
place, without a fold, for these proofs: a position of the result is counted,
not reached by induction.

`SessionProofs.tla` proves the types, `[]SessionsAreWhole`,
`[]ExtendedSessionsLast` and `[]SessionShowsNick` for any numbers of phones,
tabs, tokens and requests, and any times with `MaxAge < Life`
(`SessionTimes`). `SessionInv` adds that a token of a tab or a request is
spent, and that a request that was extended in time finds a hash whose TTL and
its own age make at least `Life` together; that is why HSET never makes up a
hash.

`PlatformProofs.tla` proves `[]UniqueIds` for any clocks and days (counts of
one day differ, and a count below `W` never reaches into the seconds),
`[]SavesTellTrue`, `[]RunsTellTrue`, `[]RolloutUsesOwnBuild` and
`[]RolloutFindsImage`. `ProfileInv` adds to what callers were told that a call
that updates has a row, and that while the database works nobody is past its
INSERT before there is one and somebody is on its way or through afterwards
(`OnTheWay`); the three things a statement may do to the row, with or without an
error, are the lemmas `RowStays`, `RowMade` and `RowUpdated`. `EvalInv` follows
each call: what its row and cases are at each label, a call whose base went
apart. The last of the four needs that a tag, wherever it is kept, has
an image in the cluster or a build that is still making it (`AllBacked`), and
that no build runs beside a job that did not clash (`Apart`). Of chat sessions it
proves `[]CountMatchesLogs` and `[]LogsNeedSession`: in a session that is not
crossed at most one call is under way and has read the count that is stored.
It also puts the eight modules of `MCPlatform` together and proves `[]TypeOK` of
that run's own specification (`PlatformTypes`), from the invariants of
`SessionProofs`, `ChunkerProofs` and `MarkdownProofs` and its own.

`MarkdownProofs.tla` proves `[]CodeIsWhole`, `[]TablesAreRuns` and
`[]LinesKept` for documents of any length. `MarkdownInv` ties the loop's flag to the document:
the next line is code exactly when an odd number of fences came before it
(`ReadLineCoded`: a fence changes that, no other line does), while the flag is
set the last line is in the open paragraph, and an open table ends with the
last line unless code came after a table. Then a line of code always joins the
line before it, and what is together stays so, since blocks are only added.
For `LinesKept` the document is its parts, the blocks and then what is open:
flushing moves a part to another place (`Regrouped`), and a line joins a part
that only empty ones follow (`OneMore`). A paragraph is never open behind an open
table unless code came after a table (`LinesInv`); that is the one case in which
a flush may change the order. `LimitInv` (no block is without lines) and the
lines being those of the document make the types.

`ChunkerProofs.tla` proves `[]NothingLost` for every document, template, token
limit and overlap (`ConfigAssumption`, `KindsAssumption`). The model's loops
over a text and `FlattenSeq` itself are recursive functions: a function that is
given step by step exists (`Recursion`), and what every step keeps holds of its
last value (`StepByStep`); both come from the natural numbers being well
founded. By them what a cut text holds, its pieces and the open one (`Held`), is
what went into it, for `splitPiece` and `splitTable` (`SplitPieceKeeps`,
`SplitTableKeeps`). `TextInv` then says that the chunks' own text, the open chunk
and the pieces that are left are the text of the blocks read (`Total`, `Read`).
For the question template it says this of the pairs (`PairsKept`), with what was
said since the first question in place of what is due; the two agree at the end
when there was a question, and when there was none nothing has been written and
reading begins again.

It proves `[]ChunksArePlaced` and `[]CutsKeep` from `TextInv` and three more
invariants, and with `TextsAssumption`: no parser makes a block without text, and
a table's line that is empty is a sentence of no tokens. Without it a piece
could be empty, and a chunk that begins with it would be placed nowhere.
- `PlaceInv`, for where a chunk says it is. The stack of titles has exactly
  those over the next block, each at its level (`StackIs`): a title removes
  deeper ones, which are those it closes (`PushedIs`). What was noted of the
  open chunk is right for the text it has so far (`OpenIsPlaced`), and what was
  noted for text still to come is right for the last block, which all that is
  left is of (`LeftIsPlaced`). The mark may be set anew while the chunk counts
  no tokens though it has text: that is why a position may lie behind sentences
  of no tokens, and nothing else (`MarkedPlaced`).
- `CutInv`, for sizes and headers. Pieces fit or are one sentence (`Fitting`,
  kept by every loop of `splitPiece`); pieces of a table have their header and
  fit, or are one row (`SplitTableCuts`). The open chunk can be closed as it is
  (`OpenIsCut`): it has at most the tokens that were counted, which is
  `PlaceInv`'s, so a piece that was let in leaves it within the limit and the
  overlap.
- `WholeInv`, for pairs. Each question read so far has a pair with all that was
  said after it, the last one in what is open (`PairsAnswer`); at the end a pair
  that fits is one chunk.

The types of the chunker (`ChunkTypes`) need `FormInv`: what is noted, on the
stack, in the mark and in chunks, is of this document, overlaps are what the
configuration allows, and no pair is without text, whatever was glued to it.

Only model-checked: the refuted statements of the violation runs, which are
findings, and liveness (`AnsweredOrderIsStored`, `CacheHeals`,
`UploadsSettle`), which is out of the prover's reach. Every invariant of a
passing run is the conclusion of a theorem.

## Plan

Done, in the order of what users lose money or data by first: `Seckill` with
`FlashSale`, `Shop`, `Ingest`; then `Likes`, `Follows`, `Feed`, `ShopTypes` in
one run; `Session`, `Profile`, `OrderId`, `RagChat`, `RagEval`, `Deploy` in
another; `Chunker` and `Markdown`, which feed `Ingest`; the proofs listed above,
of every invariant that a run checks.

## Not modelled

- Retrieval scores, citation alignment, embedding and metrics: floating-point
  arithmetic on vectors.
- LLM and embedding clients: HTTP, no state of their own. Parsers other than
  Markdown: text and CSV are one split each, HTML, JSON, Office and PDF walk a
  tree that a library has parsed.
- Tags and summaries of documents (`knowledge.go`): words counted and sorted.
- `Chunker` is not composed with `Ingest`, which needs of it only a number of
  chunks, any number.
- Sign-in (`Sign` sets one bit, `SignCount` counts set bits up to today) and
  `AddPlainVoucher`, `QueryVoucherOfShop`, hot lists, details and common
  follows: single calls, or calls that only read. `formatPrice`, uploads of
  images: formatting and files.
- deployd's list of jobs, their output, git-pull, and deploy-all, which is
  git-pull and one job of each service.
- Configuration, DTO formatting, build info, the evaluation CLI, nginx and the
  deployment files, except where `main` or the number of pods matters to a
  model.
- The front end but for the pages named above. Nearly all of the repository's
  JavaScript (47112 of 47634 lines) is vendored Vue and Element; the rest
  formats values and draws. The parts that keep state between requests, the
  scrolling feed, the list of types and the token, are in `Feed`, `ShopTypes`
  and `Session`. The scripts `pw_sources*.js` and `fetch_charter.js` fetch web
  pages once.
- Exempted by observations, since the code does nothing against them: the hash
  without id that HSET makes of an expired token, the nickname on a user's
  other devices, blogs newer than the browser's clock (`Lag`), overlapping or
  failed requests of the feed, the tag file of a build that failed.
- HTTP handlers that bind parameters and call one service.
