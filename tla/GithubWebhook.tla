---------------------------- MODULE GithubWebhook ----------------------------
(***************************************************************************)
(* The github-webhook source (connectors/github-webhook/src/source.ts):    *)
(* it waits for a comment to settle before it reports an edit, and asks    *)
(* GitHub now and then for comments whose webhooks did not arrive.  The    *)
(* buffer file is Webhooks' and is never full here.                        *)
(***************************************************************************)
EXTENDS Naturals, FiniteSets, SequencesExt

CONSTANTS
  Comment,       \* comments of one kind, with one id each
  MaxText,       \* bound on the versions of a comment
  Pass,          \* reconciliations that may overlap: the interval does not wait
  MaxSeen,       \* MAX_SEEN_CACHE_SIZE
  PruneTarget,   \* SEEN_CACHE_PRUNE_TARGET
  Filters        \* values of `events` to consider, {} if it is not configured

ASSUME GithubWebhookAssumption ==
  /\ MaxText \in Nat /\ MaxSeen \in Nat
  /\ PruneTarget \in 1..MaxSeen

-----------------------------------------------------------------------------
(* normalizeWebhookPayload(): what becomes of a webhook that is not about  *)
(* a comment.  A filter entry is a pair, for "event.action".               *)

Notice == [event : {"pull_request_review", "pull_request", "workflow_run",
                    "issues", "check_suite", "push"},
           action : {"opened", "closed", "ready_for_review", "labeled",
                     "assigned", "completed", "other"}]

Entries(n) ==
  CASE n.event = "pull_request_review" -> {<<n.event, "review_submitted">>}
    [] n.event = "pull_request" /\ n.action = "closed" ->
         {<<n.event, "closed">>, <<n.event, "merged">>}
    [] n.event = "pull_request" /\ n.action \in {"opened", "ready_for_review"} ->
         {<<n.event, n.action>>}
    [] n.event = "issues" /\ n.action \in {"opened", "labeled", "assigned"} ->
         {<<n.event, n.action>>}
    [] n.event \in {"workflow_run", "check_suite"} -> {<<n.event, "completed">>}
    [] OTHER -> {}

Unwanted(n) == \/ n.event = "workflow_run" /\ n.action # "completed"
               \/ n.event = "check_suite" /\ n.action # "completed"
Passes(wanted, n) == wanted = {} \/ Entries(n) = {} \/ Entries(n) \cap wanted # {}
CommentPasses(wanted) == wanted = {} \/ <<"issue_comment">> \in wanted

NoticeEvents(wanted, n) ==
  IF Passes(wanted, n) /\ ~Unwanted(n) THEN {<<"notice">>} ELSE {}

-----------------------------------------------------------------------------
VARIABLES
  filter,      \* allowedEvents
  onDisk,      \* is buffer_dir configured?
  text,        \* the version of a comment on GitHub, 0 if there is none
  debounce,    \* editDebounceMap: the edit that waits, 0 if none
  pool,        \* pendingEvents, or the events in the buffer file
  marked,      \* seenCommentIds, oldest mark first
  fetching,    \* of a pass of reconciliation: the comment it found missing and
               \* asks GitHub about, None if there is none
  lastEdit,    \* observer: the edit of a comment that was received last
  handed       \* observer: comments whose last edit a poll took, or that went
               \* with the process or its memory

hookVars == <<filter, onDisk, text, debounce, pool, marked, fetching,
              lastEdit, handed>>
github == <<filter, onDisk, text>>

None == <<>>
Snapshots == Comment \X (1..MaxText)

GithubWebhookTypeOK ==
  /\ filter \in Filters /\ onDisk \in BOOLEAN
  /\ text \in [Comment -> 0..MaxText]
  /\ debounce \in [Comment -> 0..MaxText]
  /\ pool \subseteq Snapshots \cup {<<"notice">>}
  /\ ToSet(marked) \subseteq Comment /\ IsInjective(marked) /\ Len(marked) <= MaxSeen
  /\ fetching \in [Pass -> Snapshots \cup {None}]
  /\ lastEdit \in [Comment -> 0..MaxText]
  /\ handed \subseteq Comment

GithubWebhookInit ==
  /\ filter \in Filters /\ onDisk \in BOOLEAN
  /\ text = [c \in Comment |-> 0]
  /\ debounce = [c \in Comment |-> 0]
  /\ pool = {} /\ marked = <<>>
  /\ fetching = [r \in Pass |-> None]
  /\ lastEdit = [c \in Comment |-> 0]
  /\ handed = {}

-----------------------------------------------------------------------------
CommentChanges(c) ==
  /\ text[c] < MaxText
  /\ text' = [text EXCEPT ![c] = @ + 1]
  /\ UNCHANGED <<filter, onDisk, debounce, pool, marked, fetching, lastEdit, handed>>

Unmarked(c) == IF c \in ToSet(marked)
               THEN RemoveAt(marked, CHOOSE i \in DOMAIN marked : marked[i] = c) ELSE marked
\* Fault: nothing is ever pruned.
MarkForever(c) == Append(Unmarked(c), c)
\* markCommentSeen() and pruneSeenCache()
Mark(c) ==
  LET all == Append(Unmarked(c), c)
  IN IF Len(all) <= MaxSeen THEN all ELSE SubSeq(all, Len(all) - PruneTarget + 1, Len(all))

\* The webhook for a version of a comment, whenever it arrives, if it does:
\* an edit waits for others.
HandleComment(c, v) ==
  /\ v <= text[c]
  /\ CommentPasses(filter)
  /\ marked' = Mark(c)
  /\ IF v = 1
     THEN pool' = pool \cup {<<c, v>>} /\ UNCHANGED <<debounce, lastEdit, handed>>
     ELSE /\ debounce' = [debounce EXCEPT ![c] = v]
          /\ lastEdit' = [lastEdit EXCEPT ![c] = v]
          /\ handed' = handed \ {c}
          /\ UNCHANGED pool
  /\ UNCHANGED <<github, fetching>>

\* Another webhook.  Looking up a pull request may fail without consequence.
HandleNotice(n) ==
  /\ ~(NoticeEvents(filter, n) \subseteq pool)
  /\ pool' = pool \cup NoticeEvents(filter, n)
  /\ UNCHANGED <<github, debounce, marked, fetching, lastEdit, handed>>

\* The debounce timer of a comment fires.
EditSettles(c) ==
  /\ debounce[c] > 0
  /\ debounce' = [debounce EXCEPT ![c] = 0]
  /\ pool' = pool \cup {<<c, debounce[c]>>}
  /\ UNCHANGED <<github, marked, fetching, lastEdit, handed>>

LastEdits == {c \in Comment : <<c, lastEdit[c]>> \in pool}

PollTakes ==
  /\ pool # {}
  /\ pool' = {}
  /\ handed' = handed \cup LastEdits
  /\ UNCHANGED <<github, debounce, marked, fetching, lastEdit>>

-----------------------------------------------------------------------------
(* reconcileComments().  A pass that has begun goes on through shutdown()  *)
(* and a reload.                                                           *)

\* One of the comments a pass has listed, as it was then, is looked up in
\* seenCommentIds.
PassMisses(r, c, v) ==
  /\ fetching[r] = None
  /\ v <= text[c]
  /\ CommentPasses(filter)
  /\ c \notin ToSet(marked)
  /\ fetching' = [fetching EXCEPT ![r] = <<c, v>>]
  /\ UNCHANGED <<github, debounce, pool, marked, lastEdit, handed>>

\* The issue is there, or what can be said without it.
EmitMissed(r) ==
  /\ fetching[r] # None
  /\ LET c == fetching[r][1] IN
       /\ marked' = Mark(c)
       /\ pool' = pool \cup {fetching[r]}
  /\ fetching' = [fetching EXCEPT ![r] = None]
  /\ UNCHANGED <<github, debounce, lastEdit, handed>>

\* It cannot be written, or has no issue.
PassFails(r) ==
  /\ fetching[r] # None
  /\ fetching' = [fetching EXCEPT ![r] = None]
  /\ UNCHANGED <<github, debounce, pool, marked, lastEdit, handed>>

-----------------------------------------------------------------------------
Debounced == {s \in Snapshots : debounce[s[1]] = s[2]}

\* Fault: edits that wait are dropped.
ShutdownDrops ==
  /\ debounce' = [c \in Comment |-> 0]
  /\ pool' = IF onDisk THEN pool ELSE {}
  /\ handed' = IF onDisk THEN handed ELSE handed \cup LastEdits
  /\ marked' = <<>>
  /\ UNCHANGED <<github, fetching, lastEdit>>

\* shutdown(): pendingEvents is emptied before the edits that wait go there,
\* where a reload, which initialises the same object again, finds them.
ShutdownHook ==
  /\ debounce' = [c \in Comment |-> 0]
  /\ pool' = (IF onDisk THEN pool ELSE {}) \cup Debounced
  /\ handed' = IF onDisk THEN handed ELSE handed \cup LastEdits
  /\ marked' = <<>>
  /\ UNCHANGED <<github, fetching, lastEdit>>

\* The process ends, with or without shutdown(), and starts again.
CrashHook ==
  /\ debounce' = [c \in Comment |-> 0]
  /\ pool' = IF onDisk THEN pool ELSE {}
  /\ handed' = handed \cup {c \in Comment : debounce[c] > 0}
                      \cup (IF onDisk THEN {} ELSE LastEdits)
  /\ marked' = <<>>
  /\ fetching' = [r \in Pass |-> None]
  /\ UNCHANGED <<github, lastEdit>>

GithubWebhookNext ==
  \/ \E c \in Comment : CommentChanges(c) \/ EditSettles(c)
  \/ \E s \in Snapshots : HandleComment(s[1], s[2])
  \/ \E n \in Notice : HandleNotice(n)
  \/ PollTakes
  \/ \E r \in Pass : EmitMissed(r) \/ PassFails(r)
                     \/ \E s \in Snapshots : PassMisses(r, s[1], s[2])
  \/ ShutdownHook \/ CrashHook

GithubWebhookSpec == GithubWebhookInit /\ [][GithubWebhookNext]_hookVars

-----------------------------------------------------------------------------
(* Properties.                                                             *)

(***************************************************************************)
(* The last edit of a comment that was received waits or has been handed   *)
(* on, through reloads and whatever reconciliation does meanwhile; it goes *)
(* only with a process that dies, or with pendingEvents                    *)
(* (debounceEditedComment, shutdown: "so they are not lost").              *)
(***************************************************************************)
EditsSettle ==
  \A c \in Comment : lastEdit[c] > 0 /\ c \notin handed =>
    debounce[c] = lastEdit[c] \/ <<c, lastEdit[c]>> \in pool
=============================================================================
