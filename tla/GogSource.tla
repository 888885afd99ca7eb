------------------------------ MODULE GogSource ------------------------------
(***************************************************************************)
(* The gog source (connectors/gog/src/source.ts) reports mail: by search   *)
(* if a query is configured, otherwise from Gmail's history.  It marks     *)
(* mail as seen when it makes an event of it, and keeps the marks in a     *)
(* file.  Mails are numbered as they arrive, so a number is a historyId.   *)
(* The file's limit of 5000 marks is not reached.                          *)
(***************************************************************************)
EXTENDS Naturals, FiniteSets

CONSTANTS
  MaxMail,      \* bound on the mails that arrive
  MaxPerPoll,   \* max_per_poll
  GogPoll,      \* polls that may overlap
  Queries       \* {TRUE} or {FALSE}: is a query configured?  Or both

ASSUME GogAssumption ==
  MaxMail \in Nat /\ MaxPerPoll \in Nat \ {0} /\ Queries \subseteq BOOLEAN

VARIABLES
  query,         \* is a query configured?
  arrived,       \* mails that have arrived
  old,           \* of them, those older than five minutes
  checkpoint,    \* Blank, Search or a historyId
  from,          \* of a poll: the checkpoint it began with, Off outside polls
  todo,          \* of a poll: the mails in the history that it has still to make
  found,         \* of a poll: its events
  returned,      \* the polls that have returned: the runtime handles their events
  seenIds,
  seenCache,     \* the file
  shut,          \* between the shutdown() and the init() of a reload
  mailReported,  \* observer: mails whose events the runtime has handled
  excusedMail,   \* observer: mails marked by a bootstrap or lost in a crash
  highWater      \* observer: mails that had arrived at the first bootstrap

gogVars == <<query, arrived, old, checkpoint, from, todo, found, returned,
             seenIds, seenCache, shut, mailReported, excusedMail, highWater>>
mails == <<query, arrived, old>>

\* Checkpoints without a historyId, and no value at all
Blank == MaxMail + 1
Search == MaxMail + 2
NoId == {Blank, Search}
Off == MaxMail + 3

GogTypeOK ==
  /\ query \in Queries
  /\ arrived \in 0..MaxMail /\ old \in 0..arrived
  /\ checkpoint \in NoId \cup (0..arrived)
  /\ from \in [GogPoll -> NoId \cup (0..arrived) \cup {Off}]
  /\ returned \subseteq {q \in GogPoll : from[q] # Off /\ todo[q] = {}}
  /\ \A q \in GogPoll : todo[q] \cup found[q] \subseteq 1..arrived
  /\ seenIds \cup seenCache \cup mailReported \cup excusedMail \subseteq 1..arrived
  /\ shut \in BOOLEAN
  /\ highWater \in (0..arrived) \cup {Off}

\* A checkpoint with a historyId can only be given: no poll makes the first.
GogInit ==
  /\ query \in Queries
  /\ arrived = 0 /\ old = 0
  /\ checkpoint \in {Blank, 0}
  /\ from = [q \in GogPoll |-> Off]
  /\ todo = [q \in GogPoll |-> {}] /\ found = [q \in GogPoll |-> {}]
  /\ returned = {}
  /\ seenIds = {} /\ seenCache = {} /\ shut = FALSE
  /\ mailReported = {} /\ excusedMail = {} /\ highWater = Off

MailArrives ==
  /\ arrived < MaxMail
  /\ arrived' = arrived + 1
  /\ UNCHANGED <<query, old, checkpoint, from, todo, found, returned, seenIds,
                 seenCache, shut, mailReported, excusedMail, highWater>>

MailAges ==
  /\ old < arrived
  /\ old' = old + 1
  /\ UNCHANGED <<query, arrived, checkpoint, from, todo, found, returned, seenIds,
                 seenCache, shut, mailReported, excusedMail, highWater>>

GogAsks(q) ==
  /\ from[q] = Off
  /\ ~shut
  /\ from' = [from EXCEPT ![q] = checkpoint]
  /\ UNCHANGED <<mails, checkpoint, todo, found, returned, seenIds, seenCache, shut,
                 mailReported, excusedMail, highWater>>

AskingGog(q) == from[q] # Off /\ q \notin returned /\ found[q] = {} /\ todo[q] = {}
Newest(S) == {m \in S : Cardinality({n \in S : n >= m}) <= MaxPerPoll}

\* pollSearch()
SearchAnswers(q) ==
  /\ AskingGog(q)
  /\ query
  /\ found' = [found EXCEPT ![q] = Newest(1..arrived) \ seenIds]
  /\ seenIds' = seenIds \cup Newest(1..arrived)
  /\ seenCache' = seenIds'
  /\ checkpoint' = Search
  /\ returned' = returned \cup {q}
  /\ UNCHANGED <<mails, from, todo, shut, mailReported, excusedMail, highWater>>

\* pollHistory() without a historyId, or with one that Gmail has forgotten:
\* the mail of the last minutes is marked, and the checkpoint says Search
\* from then on.
Bootstrap(q) ==
  /\ AskingGog(q)
  /\ ~query
  /\ LET recent == Newest({m \in 1..arrived : m > old}) IN
       /\ seenIds' = seenIds \cup recent
       /\ excusedMail' = excusedMail \cup recent
  /\ seenCache' = seenIds'
  /\ checkpoint' = Search
  /\ highWater' = IF highWater = Off THEN arrived ELSE highWater
  /\ returned' = returned \cup {q}
  /\ UNCHANGED <<mails, from, todo, found, shut, mailReported>>

\* pollHistory() with one: the first mail of the history is looked up.
HistoryAnswers(q) ==
  /\ AskingGog(q)
  /\ ~query /\ from[q] \notin NoId
  /\ from[q] < arrived
  /\ todo' = [todo EXCEPT ![q] = from[q] + 1 .. arrived]
  /\ UNCHANGED <<mails, checkpoint, from, found, returned, seenIds, seenCache, shut,
                 mailReported, excusedMail, highWater>>

Lowest(S) == CHOOSE m \in S : \A n \in S : m <= n
LastOf(q) == todo[q] = {Lowest(todo[q])}

\* Fault: a mail that cannot be fetched is marked all the same.
MadeOrNot(q, m) == {found[q] \cup {m}, found[q]}
\* A mail is passed over if it is marked, unless another poll marks it while
\* this one fetches it.
Made(q, m) == IF m \in seenIds THEN {found[q] \cup {m}, found[q]} ELSE {found[q] \cup {m}}

\* The next mail of the history.  After the last one the file is written.
HistoryTakes(q) ==
  /\ todo[q] # {}
  /\ LET m == Lowest(todo[q]) IN
       /\ todo' = [todo EXCEPT ![q] = @ \ {m}]
       /\ \E made \in Made(q, m) : found' = [found EXCEPT ![q] = made]
       /\ seenIds' = seenIds \cup {m}
       /\ IF LastOf(q)
          THEN /\ checkpoint' = m
               /\ seenCache' = seenIds'
               /\ returned' = returned \cup {q}
          ELSE UNCHANGED <<checkpoint, seenCache, returned>>
  /\ UNCHANGED <<mails, from, shut, mailReported, excusedMail, highWater>>

\* 401, 403, 429, or nothing new: the checkpoint is what it was.  Or the poll
\* throws.
GogFails(q) ==
  /\ AskingGog(q)
  /\ checkpoint' \in {checkpoint, from[q]}
  /\ from' = [from EXCEPT ![q] = Off]
  /\ UNCHANGED <<mails, todo, found, returned, seenIds, seenCache, shut,
                 mailReported, excusedMail, highWater>>

GogHandled(q) ==
  /\ q \in returned
  /\ mailReported' = mailReported \cup found[q]
  /\ returned' = returned \ {q}
  /\ found' = [found EXCEPT ![q] = {}]
  /\ from' = [from EXCEPT ![q] = Off]
  /\ UNCHANGED <<mails, checkpoint, todo, seenIds, seenCache, shut, excusedMail, highWater>>

\* shutdown() of a reload saves the marks and clears them: a poll under way
\* goes on without, and may write the file again.
GogShutdown ==
  /\ ~shut
  /\ shut' = TRUE
  /\ seenCache' = seenIds
  /\ seenIds' = {}
  /\ UNCHANGED <<mails, checkpoint, from, todo, found, returned, mailReported,
                 excusedMail, highWater>>

GogLoads ==
  /\ shut
  /\ shut' = FALSE
  /\ seenIds' = seenCache
  /\ UNCHANGED <<mails, checkpoint, from, todo, found, returned, seenCache,
                 mailReported, excusedMail, highWater>>

GogCrash ==
  /\ excusedMail' = excusedMail \cup UNION {found[q] : q \in GogPoll}
  /\ from' = [q \in GogPoll |-> Off]
  /\ todo' = [q \in GogPoll |-> {}] /\ found' = [q \in GogPoll |-> {}]
  /\ returned' = {}
  /\ seenIds' = seenCache
  /\ shut' = FALSE
  /\ UNCHANGED <<mails, checkpoint, seenCache, mailReported, highWater>>

GogNext ==
  \/ MailArrives \/ MailAges \/ GogShutdown \/ GogLoads \/ GogCrash
  \/ \E q \in GogPoll :
       \/ GogAsks(q) \/ SearchAnswers(q) \/ Bootstrap(q) \/ HistoryAnswers(q)
       \/ HistoryTakes(q) \/ GogFails(q) \/ GogHandled(q)

GogSpec == GogInit /\ [][GogNext]_gogVars

-----------------------------------------------------------------------------
(* Properties.                                                             *)

InHand == UNION {found[q] : q \in GogPoll}
Behind == seenIds \cup seenCache \cup (IF checkpoint \in NoId THEN {} ELSE 1..checkpoint)

(***************************************************************************)
(* Mail that is marked as seen, in memory or in the file, and mail before  *)
(* the checkpoint's historyId has been reported, or its event is on the    *)
(* way: otherwise nothing would ever report it.  Bootstraps and crashes    *)
(* are excepted (pollHistory, pollSearch, saveSeenCache).                  *)
(***************************************************************************)
NoMailPassedOver == Behind \subseteq mailReported \cup InHand \cup excusedMail

(***************************************************************************)
(* "This establishes the high-water mark so only genuinely new emails are  *)
(* emitted on subsequent polls" (source.ts:163): mail that arrives after   *)
(* the first bootstrap is not marked as seen without an event.             *)
(***************************************************************************)
NewMailIsEmitted ==
  highWater # Off => \A m \in seenIds : m > highWater => m \in mailReported \cup InHand
=============================================================================
