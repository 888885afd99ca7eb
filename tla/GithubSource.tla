----------------------------- MODULE GithubSource -----------------------------
(***************************************************************************)
(* The github source (connectors/github/src/{source,graphql}.ts): a poll   *)
(* asks one feed after another for what is newer than the checkpoint, and  *)
(* the new checkpoint is the time at which it made the last event.         *)
(*                                                                         *)
(* GitHub's time stamps are whole seconds ("...05Z"), a checkpoint has     *)
(* milliseconds ("...05.250Z"), and both are compared as text, in which    *)
(* "Z" comes after ".": an item counts as newer than any checkpoint of its *)
(* own second.  A tick of the model is half a second.                      *)
(***************************************************************************)
EXTENDS Naturals, FiniteSets, SequencesExt

CONSTANTS
  Feeds,       \* the feeds configured, in the order in which they are asked
  MaxNow,      \* bound on time, in ticks
  MaxItems,    \* bound on the items on GitHub
  Interval     \* between the beginnings of two polls, which do not overlap

ASSUME GithubAssumption ==
  /\ Feeds \in Seq({"pulls", "comments", "issues", "runs", "suites"})
  /\ MaxNow \in Nat \ {0} /\ MaxItems \in Nat
  /\ Interval \in Nat /\ Interval >= 2

VARIABLES
  now,
  items,       \* what happened, in order: [feed, at]; reviews are of one pull request
  since,       \* the checkpoint
  begun,       \* when the last poll began
  asking,      \* the feeds still to be asked, Done outside polls
  batch,       \* the items that have become events
  latest,      \* the checkpoint of a poll so far
  prCache,     \* updated_at of the pull request, in seconds, 0 if not cached
  budget,      \* what the rate limit leaves: "ok", "low", "out"
  reported,    \* observer: the items reported
  overlooked   \* observer: items a poll may have missed, and why it may

githubVars == <<now, items, since, begun, asking, batch, latest, prCache,
                budget, reported, overlooked>>

Done == <<"done">>
Second(t) == t \div 2
Known == DOMAIN items

GithubSourceTypeOK ==
  /\ now \in 1..MaxNow
  /\ items \in Seq([feed : ToSet(Feeds), at : 1..MaxNow]) /\ Len(items) <= MaxItems
  /\ since \in 0..now /\ latest \in 0..now /\ begun \in 0..now
  /\ IsSuffix(asking, Feeds) \/ asking = Done
  /\ batch \subseteq Known /\ overlooked \subseteq Known
  /\ prCache \in 0..Second(now)
  /\ budget \in {"ok", "low", "out"}
  /\ reported \subseteq Known

GithubSourceInit ==
  /\ now = 1
  /\ items = <<>>
  /\ since = 0
  /\ begun = 0
  /\ asking = Done
  /\ batch = {}
  /\ latest = 0
  /\ prCache = 0
  /\ budget = "ok"
  /\ reported = {}
  /\ overlooked = {}

GithubTick ==
  /\ now < MaxNow
  /\ now' = now + 1
  /\ UNCHANGED <<items, since, begun, asking, batch, latest, prCache, budget, reported, overlooked>>

\* In the middle of a poll, perhaps too late for it; or in the second in
\* which the pull request was cached.
ItemAppears(f) ==
  /\ Len(items) < MaxItems
  /\ items' = Append(items, [feed |-> f, at |-> now])
  /\ overlooked' = IF asking # Done \/ (f = "pulls" /\ Second(now) = prCache)
                   THEN overlooked \cup {Len(items) + 1} ELSE overlooked
  /\ UNCHANGED <<now, since, begun, asking, batch, latest, prCache, budget, reported>>

\* checkRateLimit(): a wait if nothing is left, until the limit is reset.
Waited == IF budget = "out" THEN "ok" ELSE budget

PollAsks ==
  /\ asking = Done
  /\ now >= begun + Interval
  /\ asking' = Feeds
  /\ begun' = now
  /\ batch' = {}
  /\ latest' = since
  /\ budget' = Waited
  /\ UNCHANGED <<now, items, since, prCache, reported, overlooked>>

-----------------------------------------------------------------------------
(* The feeds.                                                              *)

\* Fault: an item of the checkpoint's second is not newer.
NewerStrictly(at, cp) == Second(at) > Second(cp)
Newer(at, cp) == Second(at) >= Second(cp)
Of(f) == {i \in Known : items[i].feed = f}
UpdatedAt == IF Of("pulls") = {} THEN 0
             ELSE Second(items[CHOOSE i \in Of("pulls") : \A j \in Of("pulls") : j <= i].at)
\* Some feeds come in one piece; others page by page, newest first, up to a
\* page with nothing new on it.  A page has one item.
Whole(f) == {i \in Of(f) : Newer(items[i].at, since)}
Paged(f) == {i \in Of(f) : \A j \in Of(f) : j >= i => Newer(items[j].at, since)}
\* Reviews of a pull request that has not changed are skipped.
Reviews == IF prCache # 0 /\ prCache = UpdatedAt THEN {} ELSE Whole("pulls")
Fresh(f) == IF f = "pulls" THEN Reviews
            ELSE IF f \in {"issues", "runs"} THEN Paged(f) ELSE Whole(f)

HasBudget == budget = "ok"
\* advanceCheckpoint(): events bear the time at which they are made.
Advanced(fresh) == IF fresh = {} THEN latest ELSE now

FeedAnswers ==
  /\ asking \notin {Done, <<>>}
  /\ Head(asking) \in {"runs", "suites"} => HasBudget
  /\ LET f == Head(asking) IN
       /\ batch' = batch \cup Fresh(f)
       /\ latest' = Advanced(Fresh(f))
       /\ prCache' = IF f = "pulls" /\ UpdatedAt >= Second(since) THEN UpdatedAt ELSE prCache
  /\ asking' = Tail(asking)
  /\ budget' \in {"ok", "low", "out"}
  /\ UNCHANGED <<now, items, since, begun, reported, overlooked>>

\* Workflow runs and check suites are left out if they fail, and if the rate
\* limit is low.
FeedSkipped ==
  /\ asking \notin {Done, <<>>}
  /\ Head(asking) \in {"runs", "suites"}
  /\ asking' = Tail(asking)
  /\ overlooked' = overlooked \cup Of(Head(asking))
  /\ UNCHANGED <<now, items, since, begun, batch, latest, prCache, budget, reported>>

\* What a poll that goes no further passes over: feeds it has not asked, if
\* the checkpoint advances, and reviews, if they are dropped but cached.
CutShort(feeds, dropped) ==
  overlooked' = overlooked \cup (dropped \cap Of("pulls")) \cup UNION {Of(f) : f \in feeds}

\* 429, or 403 with nothing left: partial results.
PollLimited ==
  /\ asking \notin {Done, <<>>}
  /\ reported' = reported \cup batch
  /\ since' = latest
  /\ budget' = "out"
  /\ CutShort(IF latest = since THEN {} ELSE ToSet(asking), {})
  /\ asking' = Done
  /\ UNCHANGED <<now, items, begun, batch, latest, prCache>>

\* 401 or 403: the poll returns nothing.  Another error: it throws.
PollFails ==
  /\ asking \notin {Done, <<>>}
  /\ CutShort({}, batch)
  /\ asking' = Done
  /\ UNCHANGED <<now, items, since, begun, batch, latest, prCache, budget, reported>>

\* evictStaleCache() drops a pull request that is a month old; whether this one
\* is, is left open.
Evicted == {prCache, 0}

PollReturns ==
  /\ asking = <<>>
  /\ reported' = reported \cup batch
  /\ since' = latest
  /\ asking' = Done
  /\ prCache' \in Evicted
  /\ UNCHANGED <<now, items, begun, batch, latest, budget, overlooked>>

\* shutdown(), and a restart with the checkpoint
RestartGithub ==
  /\ asking = Done
  /\ prCache # 0
  /\ prCache' = 0
  /\ UNCHANGED <<now, items, since, begun, asking, batch, latest, budget, reported, overlooked>>

GithubSourceNext ==
  \/ GithubTick \/ PollAsks \/ FeedAnswers \/ FeedSkipped
  \/ PollLimited \/ PollFails \/ PollReturns \/ RestartGithub
  \/ \E f \in ToSet(Feeds) : ItemAppears(f)

GithubSourceSpec == GithubSourceInit /\ [][GithubSourceNext]_githubVars

-----------------------------------------------------------------------------
(* Properties.                                                             *)

(***************************************************************************)
(* What happens on GitHub is reported or ahead of the checkpoint.  Only    *)
(* these may be lost: what appears while a poll is under way, reviews in   *)
(* the second in which their pull request is cached or in a poll that      *)
(* fails after the cache is written, and feeds that are skipped or not     *)
(* reached although the checkpoint advances (poll, hasBudget).             *)
(***************************************************************************)
NothingOverlooked ==
  asking = Done => \A i \in Known \ (overlooked \cup reported) : Newer(items[i].at, since)
=============================================================================
