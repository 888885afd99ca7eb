----------------------------- MODULE LinearSource -----------------------------
(***************************************************************************)
(* The linear source (connectors/linear/src/{source,graphql}.ts): a poll   *)
(* fetches page after page of the issues updated since the checkpoint, and *)
(* reports how they differ from stateCache, which a file keeps over        *)
(* restarts.  An issue is one field here, that takes two values.           *)
(***************************************************************************)
EXTENDS Naturals, FiniteSets

CONSTANTS Issue,        \* issues, each a page of its own
          MaxChanges    \* bound on the changes made to issues
ASSUME LinearAssumption == MaxChanges \in Nat

VARIABLES
  actual,      \* the field of an issue in Linear, Unknown before it exists
  changes,     \* changes made, up to MaxChanges
  ahead,       \* issues updated since the checkpoint
  pages,       \* issues still to come in the poll under way
  linearPc,    \* "idle", "polling", "handing" (runtime handles the events)
  late,        \* issues updated since the last event of the poll was made
  news,        \* the events of the poll: what they say of an issue
  stateCache,
  cacheFile,
  cold,        \* between the shutdown() and the init() of a reload
  told,        \* observer: what the events handled say of an issue
  excused      \* observer: issues whose last change may go unnoticed, and why

linearVars == <<actual, changes, ahead, pages, linearPc, late, news,
                stateCache, cacheFile, cold, told, excused>>

Unknown == "unknown"
Value == {"todo", "done"}
NoIssue == [i \in Issue |-> Unknown]
Issues == [Issue -> Value \cup {Unknown}]

LinearTypeOK ==
  /\ {actual, news, stateCache, cacheFile, told} \subseteq Issues
  /\ changes \in 0..MaxChanges
  /\ linearPc \in {"idle", "polling", "handing"}
  /\ pages \subseteq Issue /\ late \subseteq Issue /\ excused \subseteq Issue
  /\ ahead \subseteq Issue /\ cold \in BOOLEAN

LinearInit ==
  /\ actual = NoIssue
  /\ changes = 0
  /\ ahead = {} /\ pages = {} /\ late = {}
  /\ linearPc = "idle"
  /\ news = NoIssue /\ stateCache = NoIssue /\ cacheFile = NoIssue
  /\ cold = FALSE
  /\ told = NoIssue
  /\ excused = {}

\* An issue is made or changed.  A poll under way may be past it, and make an
\* event later, which puts the checkpoint past it too.
IssueChanges(i) ==
  /\ changes < MaxChanges
  /\ changes' = changes + 1
  /\ \E v \in Value \ {actual[i]} : actual' = [actual EXCEPT ![i] = v]
  /\ ahead' = ahead \cup {i}
  /\ late' = late \cup {i}
  /\ excused' = IF linearPc = "polling" THEN excused \cup {i} ELSE excused
  /\ UNCHANGED <<pages, linearPc, news, stateCache, cacheFile, cold, told>>

\* executeBatchQuery(): what was updated since the checkpoint.
Queried == ahead

LinearPoll ==
  /\ linearPc = "idle"
  /\ ~cold
  /\ linearPc' = "polling"
  /\ pages' = Queried
  /\ news' = NoIssue
  /\ late' = {}
  /\ UNCHANGED <<actual, changes, ahead, stateCache, cacheFile, cold, told, excused>>

\* Fault: the cache keeps what it held.
PageUncached(i) ==
  /\ linearPc = "polling"
  /\ i \in pages
  /\ pages' = pages \ {i}
  /\ news' = IF stateCache[i] = actual[i] THEN news ELSE [news EXCEPT ![i] = actual[i]]
  /\ late' = IF stateCache[i] = actual[i] THEN late ELSE {}
  /\ stateCache' = IF stateCache[i] = Unknown THEN [stateCache EXCEPT ![i] = actual[i]]
                   ELSE stateCache
  /\ UNCHANGED <<actual, changes, ahead, linearPc, cacheFile, cold, told, excused>>

\* processIssueChanges().  An issue that is not cached is reported if it is
\* new; an old one was known before the cache lost it.
Page(i) ==
  /\ linearPc = "polling"
  /\ i \in pages
  /\ pages' = pages \ {i}
  /\ stateCache' = [stateCache EXCEPT ![i] = actual[i]]
  /\ LET reported == IF stateCache[i] = Unknown THEN told[i] = Unknown
                     ELSE stateCache[i] # actual[i] IN
       /\ news' = IF reported THEN [news EXCEPT ![i] = actual[i]] ELSE news
       /\ late' = IF reported THEN {} ELSE late
       /\ excused' = IF reported \/ told[i] = actual[i] \/ stateCache[i] # Unknown THEN excused
                     ELSE excused \cup {i}
  /\ UNCHANGED <<actual, changes, ahead, linearPc, cacheFile, cold, told>>

\* A comment makes an event as well.
PageHasComments ==
  /\ linearPc = "polling"
  /\ late # {}
  /\ late' = {}
  /\ UNCHANGED <<actual, changes, ahead, pages, linearPc, news, stateCache, cacheFile, cold, told, excused>>

Reporting == {i \in Issue : news[i] # Unknown}

\* 429, 401, 403 or another error: the events are dropped, the cache stays.
PageFails ==
  /\ linearPc = "polling"
  /\ pages # {}
  /\ linearPc' = "idle"
  /\ pages' = {}
  /\ excused' = excused \cup Reporting
  /\ UNCHANGED <<actual, changes, ahead, late, news, stateCache, cacheFile, cold, told>>

\* The new checkpoint is the time of the last event, if there is one; the file
\* is written, or that fails.
LinearPollReturns ==
  /\ linearPc = "polling"
  /\ pages = {}
  /\ linearPc' = "handing"
  /\ ahead' \in {late} \cup (IF Reporting = {} THEN {ahead} ELSE {})
  /\ cacheFile' \in {stateCache, cacheFile}
  /\ UNCHANGED <<actual, changes, pages, late, news, stateCache, cold, told, excused>>

\* The runtime has processed the events.
LinearHandled ==
  /\ linearPc = "handing"
  /\ linearPc' = "idle"
  /\ told' = [i \in Issue |-> IF i \in Reporting THEN news[i] ELSE told[i]]
  /\ excused' = excused \ {i \in Reporting : news[i] = actual[i] /\ stateCache[i] = actual[i]}
  /\ UNCHANGED <<actual, changes, ahead, pages, late, news, stateCache, cacheFile, cold>>

\* shutdown() of a reload saves the cache and clears it.  A poll under way
\* goes on with the empty one, and writes it over the file.
LinearShutdown ==
  /\ ~cold
  /\ cold' = TRUE
  /\ cacheFile' = stateCache
  /\ stateCache' = NoIssue
  /\ UNCHANGED <<actual, changes, ahead, pages, linearPc, late, news, told, excused>>

\* init() after it
LinearLoads ==
  /\ cold
  /\ cold' = FALSE
  /\ stateCache' = cacheFile
  /\ excused' = excused \cup {i \in Reporting : cacheFile[i] # news[i]}
  /\ UNCHANGED <<actual, changes, ahead, pages, linearPc, late, news, cacheFile, told>>

\* The process dies and starts again.
LinearCrash ==
  /\ linearPc' = "idle"
  /\ pages' = {}
  /\ cold' = FALSE
  /\ stateCache' = cacheFile
  /\ excused' = excused \cup Reporting \cup {i \in Issue : stateCache[i] # cacheFile[i]}
  /\ news' = NoIssue
  /\ UNCHANGED <<actual, changes, ahead, late, cacheFile, told>>

LinearNext ==
  \/ \E i \in Issue : IssueChanges(i) \/ Page(i)
  \/ LinearPoll \/ PageHasComments \/ PageFails \/ LinearPollReturns
  \/ LinearHandled \/ LinearShutdown \/ LinearLoads \/ LinearCrash

LinearSpec == LinearInit /\ [][LinearNext]_linearVars

-----------------------------------------------------------------------------
(* Properties.                                                             *)

(***************************************************************************)
(* What Linear says of an issue has been reported, or the next poll lists  *)
(* it, over reloads, restarts and lost files.  Only these changes may go   *)
(* unnoticed until the issue changes again: one made while a poll is under *)
(* way, one whose events a failed poll or a crash dropped after stateCache *)
(* took it, and one that the cache had forgotten.                          *)
(***************************************************************************)
ChangesTold ==
  linearPc = "idle" => \A i \in Issue \ excused : told[i] = actual[i] \/ i \in ahead
=============================================================================
