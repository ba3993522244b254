-------------------------------- MODULE Feed --------------------------------
(***************************************************************************)
(* Publishing a blog into the feeds of the author's fans, and scrolling    *)
(* through a feed: SaveBlog and QueryBlogOfFollow of                       *)
(* internal/service/blog.go with the page front/html/hmdp/info.html.  The  *)
(* fans come and go as in Follows.                                         *)
(*                                                                         *)
(* A feed is a sorted set: a blog's score is the server's clock, in        *)
(* milliseconds, when its push was made up.  The page keeps the list it    *)
(* shows and the parameters of its next request; requests may overlap, for *)
(* isReachBottom is reset by any scroll event away from the bottom.        *)
(***************************************************************************)
EXTENDS Follows, Sequences, SequencesExt

CONSTANTS
    MaxPosts,    \* bound: blogs, with the ids 1, 2, ... of the table
    MaxClock,    \* bound: milliseconds
    Lag,         \* how far the browser's clock is behind the server's
    PageSize,    \* rds.FeedPageCount
    Reader,      \* the fan whose page is modelled
    Flights,     \* requests the page may have under way
    MaxAsks,     \* bound: requests of the page
    MaxFeedFaults \* bound: failed pushes and failed reads

ASSUME ReaderAssumption == Reader \in Fans
ASSUME AuthorsAssumption == Authors # {}
ASSUME FeedBounds ==
    /\ MaxPosts \in Nat /\ MaxClock \in Nat \ {0} /\ MaxAsks \in Nat /\ MaxFeedFaults \in Nat
    /\ Lag \in Nat /\ PageSize \in Nat \ {0}

VARIABLES
    clock,     \* the server's clock, from 1
    post,      \* [blogs -> where SaveBlog is]
    feed,      \* [Fans -> [blogs -> score, 0 when absent]]
    page,      \* blogs2 and params of info.html
    ask,       \* [Flights -> request of the page]
    witness,   \* observation: [blogs -> who has followed always, or never,
               \* between the row of the blog and the reading of the fans]
    late,      \* observation: blogs that entered the feed behind the reader
    blurred,   \* observation: the list came from overlapping requests or
               \* follows a refresh that failed
    asks,      \* requests so far
    feedFaults \* faults so far

publishVars == <<clock, post, feed, witness>>
scrollVars == <<page, ask, blurred, asks>>
feedVars == <<followVars, publishVars, scrollVars, late, feedFaults>>

Blogs == 1..MaxPosts
Scores == 0..MaxClock
NoAsk == [pc |-> "idle"]
NoPost == [pc |-> "draft", author |-> CHOOSE a \in Authors : TRUE, score |-> 0, todo |-> {}]

PostType == [pc : {"draft", "stored", "push", "done", "failed"},
             author : Authors, score : Scores, todo : SUBSET Fans]

FeedTypeOK ==
    /\ clock \in 1..MaxClock
    /\ post \in [Blogs -> PostType]
    /\ feed \in [Fans -> [Blogs -> Scores]]
    /\ page.list \in Seq(Blogs) /\ page.minTime \in Int /\ page.minTime <= MaxClock + 1
    /\ page.offset \in Nat /\ page.top \in Int /\ page.top <= MaxClock + 1
    /\ \A k \in Flights : ask[k].pc \in {"idle", "sent", "served"}
    /\ witness \in [Blogs -> [always : SUBSET Fans, never : SUBSET Fans]]
    /\ late \subseteq Blogs
    /\ blurred \in BOOLEAN
    /\ asks \in 0..MaxAsks
    /\ feedFaults \in 0..MaxFeedFaults

FeedInit ==
    /\ FollowsInit
    /\ clock = 1
    /\ post = [b \in Blogs |-> NoPost]
    /\ feed = [f \in Fans |-> [b \in Blogs |-> 0]]
    /\ page = [list |-> <<>>, minTime |-> 0, offset |-> 0, top |-> 0]
    /\ ask = [k \in Flights |-> NoAsk]
    /\ witness = [b \in Blogs |-> [always |-> {}, never |-> {}]]
    /\ late = {}
    /\ blurred = FALSE
    /\ asks = 0
    /\ feedFaults = 0

Tick ==
    /\ clock < MaxClock
    /\ clock' = clock + 1
    /\ UNCHANGED <<followVars, post, feed, witness, scrollVars, late, feedFaults>>

-----------------------------------------------------------------------------
(* SaveBlog *)

\* INSERT INTO tb_blog: the next id.
StorePost(b, a) ==
    /\ post[b].pc = "draft"
    /\ \A earlier \in 1..(b - 1) : post[earlier].pc # "draft"
    /\ post' = [post EXCEPT ![b].pc = "stored", ![b].author = a]
    /\ witness' = [witness EXCEPT ![b] = [always |-> FansOf(a), never |-> Fans \ FansOf(a)]]
    /\ UNCHANGED <<followVars, clock, feed, scrollVars, late, feedFaults>>

\* Mutant: the fans are taken from the sets of follows.
ReadFanSets(b) ==
    /\ post[b].pc = "stored"
    /\ post' = [post EXCEPT ![b].pc = "push", ![b].score = clock,
                            ![b].todo = {f \in Fans : post[b].author \in follows[f]}]
    /\ UNCHANGED <<followVars, clock, feed, witness, scrollVars, late, feedFaults>>

\* SELECT the fans, then the clock: what the pipeline will do.
ReadFans(b) ==
    /\ post[b].pc = "stored"
    /\ post' = [post EXCEPT ![b].pc = "push", ![b].score = clock,
                            ![b].todo = FansOf(post[b].author)]
    /\ UNCHANGED <<followVars, clock, feed, witness, scrollVars, late, feedFaults>>

\* One ZADD of the pipeline.
Push(b, f) ==
    /\ post[b].pc = "push"
    /\ f \in post[b].todo
    /\ feed' = [feed EXCEPT ![f][b] = post[b].score]
    /\ post' = [post EXCEPT ![b].todo = @ \ {f}]
    /\ late' = IF f = Reader /\ post[b].score <= page.top THEN late \cup {b} ELSE late
    /\ UNCHANGED <<followVars, clock, witness, scrollVars, feedFaults>>

\* Exec returns: no command of the pipeline reported an error.
EndPost(b) ==
    /\ post[b].pc = "push"
    /\ post[b].todo = {}
    /\ post' = [post EXCEPT ![b].pc = "done"]
    /\ UNCHANGED <<followVars, clock, feed, witness, scrollVars, late, feedFaults>>

\* The fans cannot be read, a command fails or the connection goes: the row
\* stays, some fans have the blog, the author is told that it failed.
FailPost(b) ==
    /\ feedFaults < MaxFeedFaults
    /\ post[b].pc \in {"stored", "push"}
    /\ post' = [post EXCEPT ![b].pc = "failed", ![b].todo = {}]
    /\ feedFaults' = feedFaults + 1
    /\ UNCHANGED <<followVars, clock, feed, witness, scrollVars, late>>

\* Follows move on while a blog is stored and its fans are not read yet.
Move ==
    /\ FollowsNext
    /\ witness' = [b \in Blogs |->
         LET fans == {f \in Fans : rows'[<<f, post[b].author>>] > 0}
         IN  IF post[b].pc # "stored" THEN witness[b]
             ELSE [always |-> witness[b].always \cap fans, never |-> witness[b].never \ fans]]
    /\ UNCHANGED <<clock, post, feed, scrollVars, late, feedFaults>>

-----------------------------------------------------------------------------
(* QueryBlogOfFollow *)

Before(f, b, c) ==
    \/ feed[f][b] > feed[f][c]
    \/ feed[f][b] = feed[f][c] /\ b > c

\* How many of the blogs come before b.
Rank(f, blogs, b) == Cardinality({c \in blogs : Before(f, c, b)})

\* ZREVRANGEBYSCORE feed:{f} max 0 LIMIT offset PageSize: equal scores by member.
RevRange(f, max, offset) ==
    LET within == {b \in Blogs : feed[f][b] \in 1..max}
        n == Min({PageSize, Cardinality(within) - offset})
    IN  [i \in 1..n |-> CHOOSE b \in within : Rank(f, within, b) = offset + i - 1]

\* Mutant: os is never counted.
NoOffset(f, s) == 0

\* Mutant: os counts every blog of the page.
CountAll(f, s) == Len(s)

\* os: how many blogs at the end of this page have its lowest score.
TrailingEqual(f, s) == Cardinality({i \in DOMAIN s : feed[f][s[i]] = feed[f][Last(s)]})

\* onScroll and handleClick: a refresh, or the next page with the parameters
\* of the last answer.  A request sent alone is `alone` until another is sent.
SendAsk(k, clear) ==
    LET others == {j \in Flights : ask[j] # NoAsk}
        now == clock + 1 - Lag
        lastId == IF clear THEN now ELSE page.minTime
        offset == IF clear THEN 0 ELSE page.offset
    IN  /\ asks < MaxAsks
        /\ ask[k] = NoAsk
        /\ clear \/ page.minTime > 0
        /\ ask' = [j \in Flights |->
             IF j = k THEN [pc |-> "sent", clear |-> clear, lastId |-> lastId, offset |-> offset,
                            list |-> <<>>, alone |-> others = {}]
             ELSE IF j \in others THEN [ask[j] EXCEPT !.alone = FALSE]
             ELSE NoAsk]
        /\ page' = IF clear THEN [page EXCEPT !.minTime = now, !.offset = 0, !.top = now] ELSE page
        /\ blurred' = (blurred \/ others # {})
        /\ asks' = asks + 1
        /\ UNCHANGED <<followVars, publishVars, late, feedFaults>>

\* The server reads the feed.
ServeAsk(k) ==
    LET s == RevRange(Reader, ask[k].lastId, ask[k].offset)
    IN  /\ ask[k].pc = "sent"
        /\ ask' = [ask EXCEPT ![k].pc = "served", ![k].list = s,
                     ![k].lastId = IF s = <<>> THEN 0 ELSE feed[Reader][Last(s)],
                     ![k].offset = IF s = <<>> THEN 0 ELSE TrailingEqual(Reader, s)]
        /\ late' = IF ask[k].clear THEN {} ELSE late
        /\ UNCHANGED <<followVars, publishVars, page, blurred, asks, feedFaults>>

\* Redis fails, which the code answers like an empty feed, or the answer is lost.
FailAsk(k) ==
    /\ feedFaults < MaxFeedFaults
    /\ ask[k].pc = "sent"
    /\ ask' = [ask EXCEPT ![k].pc = "served", ![k].list = <<>>]
    /\ feedFaults' = feedFaults + 1
    /\ UNCHANGED <<followVars, publishVars, page, late, blurred, asks>>

\* then(): an answer without data is dropped; a refresh replaces the list, the
\* next page goes at its end; the parameters are those of the answer.
ReceiveAsk(k) ==
    LET a == ask[k]
    IN  /\ a.pc = "served"
        /\ page' = IF a.list = <<>> THEN page
                   ELSE [page EXCEPT !.list = IF a.clear THEN a.list ELSE @ \o a.list,
                                     !.minTime = a.lastId, !.offset = a.offset]
        /\ blurred' = IF a.clear THEN a.list = <<>> \/ ~a.alone ELSE blurred
        /\ ask' = [ask EXCEPT ![k] = NoAsk]
        /\ UNCHANGED <<followVars, publishVars, late, asks, feedFaults>>

-----------------------------------------------------------------------------
SaveBlog(b) ==
    \/ \E a \in Authors : StorePost(b, a)
    \/ ReadFans(b)
    \/ \E f \in Fans : Push(b, f)
    \/ EndPost(b)
    \/ FailPost(b)

Scroll(k) ==
    \/ \E clear \in BOOLEAN : SendAsk(k, clear)
    \/ ServeAsk(k)
    \/ FailAsk(k)
    \/ ReceiveAsk(k)

FeedNext ==
    \/ Tick
    \/ Move
    \/ \E b \in Blogs : SaveBlog(b)
    \/ \E k \in Flights : Scroll(k)

FeedSpec == FeedInit /\ [][FeedNext]_feedVars

-----------------------------------------------------------------------------
\* When the author is told that a blog is out, everyone who has followed all
\* through the publishing has it in the feed, and no one has who has not; a
\* follow or unfollow in between decides only for its own fan.
FanOut ==
    \A b \in Blogs : post[b].pc = "done" =>
        /\ \A f \in witness[b].always : feed[f][b] > 0
        /\ \A f \in witness[b].never : feed[f][b] = 0

Distinct(f) ==
    \A b, c \in Blogs : b # c /\ feed[f][b] = feed[f][c] => feed[f][b] = 0

\* What the page shows comes newest first and nothing comes twice, whatever is
\* published while the user scrolls; requests that overlapped, a refresh that
\* failed, and blogs of the same millisecond are the exceptions.
ScrollOrder ==
    ~blurred /\ Distinct(Reader) =>
        \A i, j \in DOMAIN page.list :
            i < j => feed[Reader][page.list[i]] > feed[Reader][page.list[j]]

\* Nor does scrolling skip a blog: from the instant the last refresh asked for
\* down to the last blog shown, the list has every blog of the feed that was
\* not pushed behind the reader.
ScrollComplete ==
    /\ ~blurred /\ Distinct(Reader) /\ page.list # <<>>
    /\ \A k \in Flights : ask[k] # NoAsk => ~ask[k].clear
    => \A b \in Blogs \ late :
         feed[Reader][b] \in feed[Reader][Last(page.list)]..page.top => Contains(page.list, b)

=============================================================================
