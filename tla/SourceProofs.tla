---------------------------- MODULE SourceProofs -----------------------------
(***************************************************************************)
(* The polling sources: what changed in Linear, Google mail and GitHub is  *)
(* told, whatever fails and wherever the process dies; schedules are kept. *)
(***************************************************************************)
EXTENDS LinearSource, GogSource, GithubSource, CronSource, SequenceTheorems,
        WellFoundedInduction, TLAPS

-----------------------------------------------------------------------------
(* Induction over the naturals.                                            *)

\* A set of naturals has a least member, a set of positions a last one.
LEMMA LeastNat ==
  ASSUME NEW T \in SUBSET Nat, T # {}
  PROVE  \E m \in T : \A n \in T : m <= n
<1> DEFINE R == {ss \in Nat \X Nat : ss[1] < ss[2]}
<1>1. IsWellFoundedOn(R, Nat)
  BY NatLessThanWellFounded DEF OpToRel
<1> HIDE DEF R
<1>2. PICK m \in T : \A n \in T : <<n, m>> \notin R
  BY <1>1, WFMin
<1>3. \A n \in T : ~ (n < m)
  BY <1>2 DEF R
<1> QED
  BY <1>3

LEMMA LastOfRange ==
  ASSUME NEW n \in Nat, NEW S \in SUBSET (1..n), S # {}
  PROVE  \E m \in S : \A i \in S : i <= m
<1> DEFINE T == {n - i : i \in S}
<1>1. T \subseteq Nat /\ T # {}
  <2>1. \A i \in S : n - i \in Nat
    OBVIOUS
  <2> QED
    BY <2>1
<1>2. PICK k \in T : \A j \in T : k <= j
  BY <1>1, LeastNat
<1>3. PICK m \in S : k = n - m
  BY <1>2
<1>4. ASSUME NEW i \in S PROVE i <= m
  <2>1. n - m <= n - i
    BY <1>2, <1>3
  <2> QED
    BY <2>1
<1> QED
  BY <1>4

-----------------------------------------------------------------------------
(* Linear.                                                                 *)

\* What will have been told of an issue once the events of the poll under way
\* are handled
Latest(i) == IF linearPc # "idle" /\ news[i] # Unknown THEN news[i] ELSE told[i]

\* stateCache holds what was told last, or has forgotten the issue.
CacheTold == \A i \in Issue \ excused : stateCache[i] \in {Unknown, Latest(i)}

\* So does the file that a reload is going to read, but of the issues that the
\* poll under way reports.
FileTold ==
  cold => \A i \in Issue \ excused : news[i] = Unknown => cacheFile[i] \in {Unknown, told[i]}

\* Where the last change of an issue is: told, in an event, or still to be read
ChangesHeld ==
  \A i \in Issue \ excused :
    /\ linearPc = "idle" => /\ told[i] = actual[i] \/ i \in ahead
                            /\ news[i] # Unknown => told[i] = news[i]
    /\ linearPc = "polling" => IF news[i] # Unknown THEN news[i] = actual[i]
                               ELSE told[i] = actual[i] \/ i \in pages
    /\ linearPc = "handing" => i \in ahead \/ Latest(i) = actual[i]

\* A page that is still to come has not been reported on, and an issue that
\* was updated exists.
PagesToCome ==
  /\ pages \subseteq {i \in ahead : linearPc = "polling" /\ news[i] = Unknown}
  /\ ahead \cup late \subseteq {i \in Issue : actual[i] \in Value}

LinearInv == LinearTypeOK /\ CacheTold /\ FileTold /\ ChangesHeld /\ PagesToCome


LEMMA LinearInvInit == LinearInit => LinearInv
<1> SUFFICES ASSUME LinearInit PROVE LinearInv
  OBVIOUS
<1>1. \A i \in Issue : NoIssue[i] = Unknown
  BY DEF NoIssue
<1>2. NoIssue \in Issues
  BY DEF NoIssue, Issues
<1>3. LinearTypeOK
  <2>1. {actual, news, stateCache, cacheFile, told} = {NoIssue}
    BY DEF LinearInit
  <2>2. changes \in 0..MaxChanges
    BY LinearAssumption DEF LinearInit
  <2> QED BY <1>2, <2>1, <2>2 DEF LinearInit, LinearTypeOK
<1>4. CacheTold /\ FileTold /\ ChangesHeld /\ PagesToCome
  BY <1>1 DEF LinearInit, CacheTold, FileTold, ChangesHeld, PagesToCome, Latest
<1> QED BY <1>3, <1>4 DEF LinearInv

LEMMA IssueChangesKeeps ==
  ASSUME LinearInv, NEW i \in Issue, IssueChanges(i)
  PROVE  LinearInv'
<1>1. PICK v \in Value \ {actual[i]} : actual' = [actual EXCEPT ![i] = v]
  BY DEF IssueChanges
<1>2. LinearTypeOK'
  BY <1>1, LinearAssumption DEF LinearInv, LinearTypeOK, IssueChanges, Issues
<1>3. excused \subseteq excused' /\ \A j \in Issue : Latest(j)' = Latest(j)
  BY DEF IssueChanges, Latest
<1>4. CacheTold' /\ FileTold'
  BY <1>3 DEF LinearInv, IssueChanges, CacheTold, FileTold
<1>5. PagesToCome'
  BY <1>1 DEF LinearInv, LinearTypeOK, Issues, IssueChanges, PagesToCome
<1>6. ChangesHeld'
  BY <1>1, <1>3 DEF LinearInv, LinearTypeOK, IssueChanges, ChangesHeld, Issues
<1> QED BY <1>2, <1>4, <1>5, <1>6 DEF LinearInv

LEMMA LinearPollKeeps == ASSUME LinearInv, LinearPoll PROVE LinearInv'
<1>1. \A i \in Issue : NoIssue[i] = Unknown
  BY DEF NoIssue
<1>2. NoIssue \in Issues
  BY DEF NoIssue, Issues
<1>3. LinearTypeOK'
  BY <1>2 DEF LinearInv, LinearTypeOK, LinearPoll, Queried
<1>4. \A i \in Issue : Latest(i)' = Latest(i)
  BY <1>1 DEF LinearPoll, Latest
<1>5. CacheTold' /\ FileTold' /\ PagesToCome'
  BY <1>1, <1>4 DEF LinearInv, LinearTypeOK, LinearPoll, CacheTold, FileTold, PagesToCome, Queried
<1>6. ChangesHeld'
  BY <1>1 DEF LinearInv, LinearPoll, ChangesHeld, Queried
<1> QED BY <1>3, <1>5, <1>6 DEF LinearInv

LEMMA PageKeeps ==
  ASSUME LinearInv, NEW i \in Issue, Page(i)
  PROVE  LinearInv'
<1> DEFINE tells == IF stateCache[i] = Unknown THEN told[i] = Unknown
                    ELSE stateCache[i] # actual[i]
<1>1. /\ linearPc = "polling" /\ i \in pages /\ pages' = pages \ {i}
      /\ stateCache' = [stateCache EXCEPT ![i] = actual[i]]
      /\ news' = IF tells THEN [news EXCEPT ![i] = actual[i]] ELSE news
      /\ late' = IF tells THEN {} ELSE late
      /\ excused' = IF tells \/ told[i] = actual[i] \/ stateCache[i] # Unknown THEN excused
                    ELSE excused \cup {i}
      /\ UNCHANGED <<actual, changes, ahead, linearPc, cacheFile, cold, told>>
  BY DEF Page
<1>2. LinearTypeOK'
  BY <1>1 DEF LinearInv, LinearTypeOK, Issues
<1>3. news[i] = Unknown /\ Latest(i) = told[i] /\ actual[i] # Unknown
  BY <1>1 DEF LinearInv, PagesToCome, Latest, Value, Unknown
<1>4. ASSUME NEW j \in Issue, j # i
      PROVE  /\ news'[j] = news[j] /\ stateCache'[j] = stateCache[j]
             /\ Latest(j)' = Latest(j) /\ (j \in pages' <=> j \in pages)
             /\ (j \in excused' <=> j \in excused)
  BY <1>1, <1>4 DEF Latest
<1>5. ASSUME i \notin excused'
      PROVE  Latest(i)' = actual[i] /\ stateCache'[i] = actual[i] /\ i \notin excused
             /\ IF news'[i] # Unknown THEN news'[i] = actual[i] ELSE told[i] = actual[i]
  <2>1. stateCache'[i] = actual[i] /\ i \notin excused
    BY <1>1, <1>5 DEF LinearInv, LinearTypeOK, Issues
  <2>2. CASE tells
    BY <1>1, <1>5, <1>3, <2>1, <2>2 DEF LinearInv, LinearTypeOK, Issues, Latest, CacheTold
  <2>3. CASE ~tells
    <3>1. told[i] = actual[i]
      BY <1>1, <1>3, <1>5, <2>1, <2>3 DEF LinearInv, CacheTold
    <3> QED BY <1>1, <1>3, <2>1, <2>3, <3>1 DEF Latest
  <2> QED BY <2>2, <2>3
<1>6. CacheTold'
  BY <1>4, <1>5 DEF LinearInv, CacheTold
<1>7. FileTold'
  BY <1>1, <1>4, <1>3, <1>5 DEF LinearInv, FileTold
<1>8. ChangesHeld'
  BY <1>1, <1>4, <1>5 DEF LinearInv, ChangesHeld
<1>9. PagesToCome'
  BY <1>1, <1>4 DEF LinearInv, LinearTypeOK, PagesToCome
<1> QED BY <1>2, <1>6, <1>7, <1>8, <1>9 DEF LinearInv

LEMMA PageHasCommentsKeeps == ASSUME LinearInv, PageHasComments PROVE LinearInv'
  BY DEF LinearInv, LinearTypeOK, CacheTold, FileTold, ChangesHeld, PagesToCome, Latest, PageHasComments

LEMMA PageFailsKeeps == ASSUME LinearInv, PageFails PROVE LinearInv'
<1>1. LinearTypeOK' /\ PagesToCome'
  BY DEF LinearInv, LinearTypeOK, PageFails, PagesToCome, Reporting
<1>2. ASSUME NEW i \in Issue, i \notin excused'
      PROVE  i \notin excused /\ news[i] = Unknown /\ Latest(i)' = Latest(i)
  BY <1>2 DEF PageFails, Reporting, Latest
<1>3. CacheTold' /\ FileTold'
  BY <1>2 DEF LinearInv, CacheTold, FileTold, PageFails
<1>4. ChangesHeld'
  BY <1>2 DEF LinearInv, ChangesHeld, PageFails, PagesToCome
<1> QED BY <1>1, <1>3, <1>4 DEF LinearInv

LEMMA LinearPollReturnsKeeps == ASSUME LinearInv, LinearPollReturns PROVE LinearInv'
<1>1. LinearTypeOK' /\ PagesToCome'
  BY DEF LinearInv, LinearTypeOK, LinearPollReturns, PagesToCome
<1>2. \A i \in Issue : Latest(i)' = Latest(i)
  BY DEF LinearPollReturns, Latest
<1>3. CacheTold'
  BY <1>2 DEF LinearInv, CacheTold, LinearPollReturns
<1>4. FileTold'
  BY DEF LinearInv, FileTold, CacheTold, LinearPollReturns, Latest
<1>5. ChangesHeld'
  BY DEF LinearInv, ChangesHeld, LinearPollReturns, Latest
<1> QED BY <1>1, <1>3, <1>4, <1>5 DEF LinearInv

LEMMA LinearHandledKeeps == ASSUME LinearInv, LinearHandled PROVE LinearInv'
<1>1. told' \in Issues /\ \A i \in Issue : told'[i] = IF news[i] # Unknown THEN news[i] ELSE told[i]
  BY DEF LinearInv, LinearTypeOK, Issues, LinearHandled, Reporting
<1>2. LinearTypeOK' /\ PagesToCome'
  BY <1>1 DEF LinearInv, LinearTypeOK, LinearHandled, PagesToCome
<1>3. ASSUME NEW i \in Issue, i \notin excused'
      PROVE  i \notin excused \/ (news[i] # Unknown /\ news[i] = actual[i] /\ stateCache[i] = actual[i])
  BY <1>3 DEF LinearHandled, Reporting
<1>4. \A i \in Issue : Latest(i) = told'[i] /\ Latest(i)' = told'[i]
  BY <1>1 DEF LinearHandled, Latest
<1>5. CacheTold' /\ FileTold'
  BY <1>1, <1>3, <1>4 DEF LinearInv, CacheTold, FileTold, LinearHandled
<1>6. ChangesHeld'
  BY <1>1, <1>3, <1>4 DEF LinearInv, ChangesHeld, LinearHandled
<1> QED BY <1>2, <1>5, <1>6 DEF LinearInv

\* A reload: what the cache holds goes to the file and comes back.
LEMMA LinearReloadKeeps ==
  ASSUME LinearInv, LinearShutdown \/ LinearLoads
  PROVE  LinearInv'
<1>1. \A i \in Issue : NoIssue[i] = Unknown
  BY DEF NoIssue
<1>2. NoIssue \in Issues
  BY DEF NoIssue, Issues
<1>3. LinearTypeOK' /\ PagesToCome'
  BY <1>2 DEF LinearInv, LinearTypeOK, LinearShutdown, LinearLoads, PagesToCome, Reporting
<1>4. \A i \in Issue : Latest(i)' = Latest(i)
  BY DEF LinearShutdown, LinearLoads, Latest
<1>5. CASE LinearShutdown
  <2>1. CacheTold' /\ FileTold'
    BY <1>1, <1>4, <1>5 DEF LinearInv, LinearShutdown, CacheTold, FileTold, Latest
  <2>2. ChangesHeld'
    BY <1>4, <1>5 DEF LinearInv, LinearShutdown, ChangesHeld
  <2> QED BY <1>3, <2>1, <2>2 DEF LinearInv
<1>6. CASE LinearLoads
  <2>1. ASSUME NEW i \in Issue, i \notin excused'
        PROVE  i \notin excused /\ (news[i] # Unknown => cacheFile[i] = news[i])
    BY <1>6, <2>1 DEF LinearLoads, Reporting
  <2>2. CacheTold'
    BY <1>4, <1>6, <2>1 DEF LinearInv, LinearLoads, CacheTold, FileTold, ChangesHeld, Latest,
                            LinearTypeOK
  <2>3. FileTold'
    BY <1>6 DEF LinearLoads, FileTold
  <2>4. ChangesHeld'
    BY <1>4, <1>6, <2>1 DEF LinearInv, LinearLoads, ChangesHeld
  <2> QED BY <1>3, <2>2, <2>3, <2>4 DEF LinearInv
<1> QED BY <1>5, <1>6

LEMMA LinearCrashKeeps == ASSUME LinearInv, LinearCrash PROVE LinearInv'
<1>1. \A i \in Issue : NoIssue[i] = Unknown
  BY DEF NoIssue
<1>2. NoIssue \in Issues
  BY DEF NoIssue, Issues
<1>3. LinearTypeOK' /\ PagesToCome'
  BY <1>2 DEF LinearInv, LinearTypeOK, LinearCrash, PagesToCome, Reporting
<1>4. ASSUME NEW i \in Issue, i \notin excused'
      PROVE  i \notin excused /\ news[i] = Unknown /\ stateCache'[i] = stateCache[i]
             /\ news'[i] = Unknown
  BY <1>1, <1>4 DEF LinearCrash, Reporting
<1>5. CacheTold' /\ FileTold'
  BY <1>4 DEF LinearInv, CacheTold, FileTold, LinearCrash, Latest
<1>6. ChangesHeld'
  BY <1>4 DEF LinearInv, LinearTypeOK, ChangesHeld, LinearCrash, PagesToCome, Latest
<1> QED BY <1>3, <1>5, <1>6 DEF LinearInv

LEMMA LinearInvStep == LinearInv /\ [LinearNext]_linearVars => LinearInv'
<1>1. ASSUME LinearInv, UNCHANGED linearVars PROVE LinearInv'
  BY <1>1 DEF linearVars, LinearInv, LinearTypeOK, CacheTold, FileTold, ChangesHeld, PagesToCome,
              Latest
<1> QED BY <1>1, IssueChangesKeeps, PageKeeps, LinearPollKeeps, PageHasCommentsKeeps, PageFailsKeeps,
           LinearPollReturnsKeeps, LinearHandledKeeps, LinearReloadKeeps, LinearCrashKeeps
        DEF LinearNext

(***************************************************************************)
(* For any set of issues: what Linear says of one has been reported, or the*)
(* next poll lists it, except for the changes that the property names      *)
(* (poll, processIssueChanges, executeBatchQuery).                         *)
(***************************************************************************)
THEOREM LinearTellsChanges == LinearSpec => []ChangesTold
<1>1. LinearInv => ChangesTold
  BY DEF LinearInv, ChangesHeld, ChangesTold
<1> QED BY <1>1, LinearInvInit, LinearInvStep, PTL DEF LinearSpec

(***************************************************************************)
(* The cache never disagrees with what was told: a known issue is compared *)
(* with the value of its last event, unless its last change is one of those*)
(* that may go unnoticed (processIssueChanges, saveStateCache).            *)
(***************************************************************************)
THEOREM LinearCacheTold == LinearSpec => []CacheTold
<1>1. LinearInv => CacheTold
  BY DEF LinearInv
<1> QED BY <1>1, LinearInvInit, LinearInvStep, PTL DEF LinearSpec

(***************************************************************************)
(* The types of the linear source's state are invariant.                   *)
(***************************************************************************)
THEOREM LinearTyped == LinearSpec => []LinearTypeOK
<1>1. LinearInv => LinearTypeOK
  BY DEF LinearInv
<1> QED BY <1>1, LinearInvInit, LinearInvStep, PTL DEF LinearSpec

-----------------------------------------------------------------------------
(* Google mail.                                                            *)

Accounted == mailReported \cup InHand \cup excusedMail

(***************************************************************************)
(* The history of a poll is read in the order of its mails, from the       *)
(* checkpoint on; so whatever is before the mails still to be made is      *)
(* accounted for, as is whatever is before the checkpoint it began with.   *)
(***************************************************************************)
HistoryInOrder ==
  \A q \in GogPoll :
    /\ from[q] \in 1..MaxMail => 1..from[q] \subseteq Accounted
    /\ todo[q] # {} => /\ from[q] # Off
                       /\ \E a, b \in 1..arrived : a <= b /\ todo[q] = a..b
    /\ \A n \in todo[q] : (1..n) \ todo[q] \subseteq Accounted

GogInv ==
  /\ DOMAIN todo = GogPoll /\ DOMAIN found = GogPoll
  /\ GogTypeOK
  /\ NoMailPassedOver
  /\ HistoryInOrder

LEMMA GogInvInit == GogInit => GogInv
<1> SUFFICES ASSUME GogInit PROVE GogInv
  OBVIOUS
<1>1. GogTypeOK
  <2>1. 0..0 = {0} /\ 0 \in 0..MaxMail
    BY GogAssumption
  <2>2. checkpoint \in NoId \cup (0..arrived)
    BY <2>1 DEF GogInit, NoId
  <2>3. from \in [GogPoll -> NoId \cup (0..arrived) \cup {Off}]
    BY DEF GogInit
  <2>4. \A q \in GogPoll : todo[q] \cup found[q] \subseteq 1..arrived
    BY DEF GogInit
  <2> QED BY <2>1, <2>2, <2>3, <2>4 DEF GogInit, GogTypeOK
<1>2. Behind = {}
  BY GogAssumption DEF GogInit, Behind, NoId, Blank, Search
<1>3. HistoryInOrder
  BY GogAssumption DEF GogInit, HistoryInOrder, Off
<1> QED BY <1>1, <1>2, <1>3 DEF GogInv, GogInit, NoMailPassedOver

\* A step that loses no event, and marks only what is accounted for, keeps the
\* mail accounted for.
LEMMA GogAccountKeeps ==
  ASSUME GogInv, Accounted \subseteq Accounted', seenIds' \cup seenCache' \subseteq Accounted',
         checkpoint' \in NoId \/ (checkpoint' \in Nat /\ 1..checkpoint' \subseteq Accounted')
  PROVE  NoMailPassedOver'
  BY DEF NoMailPassedOver, Behind, Accounted

\* A poll that stays where it is stays in order.
LEMMA OrderKeeps ==
  ASSUME GogInv, Accounted \subseteq Accounted', arrived \in Nat, arrived' \in {arrived, arrived + 1},
         \A q \in GogPoll : \/ from'[q] = from[q] /\ todo'[q] = todo[q]
                            \/ from'[q] \notin 1..MaxMail /\ todo'[q] = {}
                            \/ /\ from'[q] \in 1..MaxMail => 1..from'[q] \subseteq Accounted'
                               /\ todo'[q] = {}
  PROVE  HistoryInOrder'
  BY DEF GogInv, HistoryInOrder

\* What happens to the mail, or to the module, loses no event.
LEMMA SurroundingsKeep ==
  ASSUME GogInv, MailArrives \/ MailAges \/ GogShutdown \/ GogLoads
  PROVE  GogInv'
<1> USE GogAssumption
<1>1. Accounted' = Accounted
  BY DEF MailArrives, MailAges, GogShutdown, GogLoads, Accounted, InHand
<1>2. GogTypeOK'
  <2>1. CASE MailArrives
    <3>1. arrived \in Nat /\ arrived' = arrived + 1 /\ 0..arrived \subseteq 0..arrived'
          /\ 1..arrived \subseteq 1..arrived' /\ arrived' \in 0..MaxMail
      BY <2>1 DEF MailArrives, GogInv, GogTypeOK
    <3> QED BY <2>1, <3>1 DEF GogInv, GogTypeOK, MailArrives
  <2>2. CASE MailAges
    BY <2>2 DEF GogInv, GogTypeOK, MailAges
  <2>3. CASE GogShutdown \/ GogLoads
    BY <2>3 DEF GogInv, GogTypeOK, GogShutdown, GogLoads, mails
  <2> QED BY <2>1, <2>2, <2>3
<1>3. HistoryInOrder'
  BY <1>1, OrderKeeps DEF GogInv, GogTypeOK, MailArrives, MailAges, GogShutdown, GogLoads, mails
<1>4. Behind' \subseteq Behind
  BY DEF Behind, MailArrives, MailAges, GogShutdown, GogLoads, NoId, Blank, Search
<1> QED BY <1>1, <1>2, <1>3, <1>4 DEF GogInv, NoMailPassedOver, Accounted, MailArrives, MailAges,
                                      GogShutdown, GogLoads

\* A poll that begins, fails or whose events are handled
LEMMA PollEndsKeep ==
  ASSUME GogInv, NEW q \in GogPoll, GogAsks(q) \/ GogFails(q) \/ GogHandled(q)
  PROVE  GogInv'
<1> USE GogAssumption
<1>1. Accounted \subseteq Accounted'
  <2>1. CASE GogAsks(q) \/ GogFails(q)
    BY <2>1 DEF GogAsks, GogFails, Accounted, InHand
  <2>2. CASE GogHandled(q)
    BY <2>2 DEF GogHandled, Accounted, InHand, GogInv
  <2> QED BY <2>1, <2>2
<1>2. checkpoint' \in NoId \cup (0..arrived) /\ from' \in [GogPoll -> NoId \cup (0..arrived) \cup {Off}]
  BY DEF GogInv, GogTypeOK, GogAsks, GogFails, GogHandled, AskingGog
<1>3. GogTypeOK'
  BY <1>2 DEF GogInv, GogTypeOK, GogAsks, GogFails, GogHandled, AskingGog, mails, Off
<1>4. checkpoint' \in NoId \/ (checkpoint' \in Nat /\ 1..checkpoint' \subseteq Accounted')
  BY <1>1, <1>2 DEF GogInv, GogTypeOK, HistoryInOrder, NoMailPassedOver, Behind, Accounted,
                    GogAsks, GogFails, GogHandled, AskingGog, NoId, Blank, Search, Off
<1>5. NoMailPassedOver'
  <2>1. seenIds' \cup seenCache' \subseteq Accounted'
    BY <1>1 DEF GogInv, NoMailPassedOver, Behind, Accounted, GogAsks, GogFails, GogHandled
  <2> QED BY <1>1, <1>4, <2>1, GogAccountKeeps
<1>6. HistoryInOrder'
  <2>1. from'[q] \in 1..MaxMail => 1..from'[q] \subseteq Accounted'
    BY <1>1 DEF GogInv, GogTypeOK, NoMailPassedOver, Behind, Accounted, GogAsks, GogFails, GogHandled,
                NoId, Blank, Search, Off
  <2>2. todo'[q] = {}
    BY DEF GogInv, HistoryInOrder, GogTypeOK, GogAsks, GogFails, GogHandled, AskingGog
  <2>3. \A p \in GogPoll : p # q => from'[p] = from[p] /\ todo'[p] = todo[p]
    BY DEF GogInv, GogTypeOK, GogAsks, GogFails, GogHandled
  <2>4. arrived \in Nat /\ arrived' = arrived
    BY DEF GogInv, GogTypeOK, GogAsks, GogFails, GogHandled, mails
  <2> QED BY <1>1, <2>1, <2>2, <2>3, <2>4, OrderKeeps
<1>7. DOMAIN todo' = GogPoll /\ DOMAIN found' = GogPoll
  BY DEF GogInv, GogAsks, GogFails, GogHandled
<1> QED BY <1>3, <1>5, <1>6, <1>7 DEF GogInv

LEMMA AnswersKeep ==
  ASSUME GogInv, NEW q \in GogPoll, SearchAnswers(q) \/ Bootstrap(q)
  PROVE  GogInv'
<1> USE GogAssumption
<1>1. \A S : Newest(S) \subseteq S
  BY DEF Newest
<1>2. found[q] = {} /\ arrived' = arrived /\ from' = from /\ todo' = todo /\ arrived \in Nat
  BY DEF SearchAnswers, Bootstrap, AskingGog, mails, GogInv, GogTypeOK
<1>3. Accounted \subseteq Accounted'
  <2>1. \A p \in GogPoll : found[p] \subseteq found'[p]
    BY <1>2 DEF SearchAnswers, Bootstrap, GogInv
  <2>2. InHand \subseteq InHand'
    BY <2>1 DEF InHand
  <2> QED BY <2>2 DEF SearchAnswers, Bootstrap, Accounted
<1>4. GogTypeOK'
  <2>1. \A p \in GogPoll : todo'[p] \cup found'[p] \subseteq 1..arrived
    BY <1>1 DEF SearchAnswers, Bootstrap, GogInv, GogTypeOK
  <2>2. seenIds' \cup seenCache' \cup mailReported' \cup excusedMail' \subseteq 1..arrived
    BY <1>1 DEF SearchAnswers, Bootstrap, GogInv, GogTypeOK
  <2>3. returned' \subseteq {p \in GogPoll : from'[p] # Off /\ todo'[p] = {}}
    BY <1>2 DEF SearchAnswers, Bootstrap, GogInv, GogTypeOK, AskingGog
  <2> QED BY <1>2, <2>1, <2>2, <2>3 DEF SearchAnswers, Bootstrap, GogInv, GogTypeOK, mails, NoId
<1>5. seenIds' \cup seenCache' \subseteq Accounted'
  <2>1. seenIds \subseteq Accounted'
    BY <1>3 DEF GogInv, NoMailPassedOver, Behind, Accounted
  <2>2. CASE SearchAnswers(q)
    <3>1. found'[q] = Newest(1..arrived) \ seenIds
      BY <2>2 DEF SearchAnswers, GogInv
    <3>2. found'[q] \subseteq Accounted'
      BY DEF Accounted, InHand
    <3> QED BY <2>1, <2>2, <3>1, <3>2 DEF SearchAnswers
  <2>3. CASE Bootstrap(q)
    BY <2>1, <2>3 DEF Bootstrap, Accounted
  <2> QED BY <2>2, <2>3
<1>6. NoMailPassedOver'
  BY <1>3, <1>5, GogAccountKeeps DEF SearchAnswers, Bootstrap, NoId
<1>7. HistoryInOrder'
  BY <1>2, <1>3, OrderKeeps
<1> QED BY <1>2, <1>4, <1>6, <1>7 DEF GogInv, SearchAnswers, Bootstrap

LEMMA HistoryAnswersKeeps ==
  ASSUME GogInv, NEW q \in GogPoll, HistoryAnswers(q)
  PROVE  GogInv'
<1> USE GogAssumption
<1>1. Accounted' = Accounted /\ arrived' = arrived /\ arrived \in 0..MaxMail
      /\ from[q] \in 0..arrived /\ from[q] < arrived
      /\ todo' = [todo EXCEPT ![q] = from[q] + 1 .. arrived]
  BY DEF HistoryAnswers, Accounted, InHand, mails, GogInv, GogTypeOK, AskingGog, NoId
<1>2. GogTypeOK'
  <2>1. \A p \in GogPoll : todo'[p] \cup found'[p] \subseteq 1..arrived
    BY <1>1 DEF HistoryAnswers, GogInv, GogTypeOK
  <2>2. returned' \subseteq {p \in GogPoll : from'[p] # Off /\ todo'[p] = {}}
    BY <1>1 DEF HistoryAnswers, GogInv, GogTypeOK, AskingGog
  <2> QED BY <2>1, <2>2 DEF HistoryAnswers, GogInv, GogTypeOK, mails
<1>3. NoMailPassedOver'
  BY <1>1 DEF GogInv, NoMailPassedOver, Behind, HistoryAnswers, Accounted
<1>4. HistoryInOrder'
  <2>1. ASSUME NEW p \in GogPoll, p # q PROVE from'[p] = from[p] /\ todo'[p] = todo[p]
    BY <1>1, <2>1 DEF HistoryAnswers, GogInv
  <2>2. from'[q] = from[q] /\ todo'[q] = from[q] + 1 .. arrived
    BY <1>1 DEF HistoryAnswers, GogInv
  <2>3. 1..from[q] \subseteq Accounted
    BY <1>1 DEF GogInv, HistoryInOrder
  <2>4. \A n \in todo'[q] : (1..n) \ todo'[q] \subseteq Accounted
    BY <1>1, <2>2, <2>3
  <2>5. from'[q] # Off /\ \E a, b \in 1..arrived : a <= b /\ todo'[q] = a..b
    BY <1>1, <2>2 DEF Off
  <2> QED BY <1>1, <2>1, <2>2, <2>3, <2>4, <2>5 DEF GogInv, HistoryInOrder
<1> QED BY <1>1, <1>2, <1>3, <1>4 DEF GogInv, HistoryAnswers

LEMMA LowestOfRange ==
  ASSUME NEW a \in Nat, NEW b \in Nat, a <= b
  PROVE  Lowest(a..b) = a
  BY DEF Lowest

LEMMA HistoryTakesKeeps ==
  ASSUME GogInv, NEW q \in GogPoll, HistoryTakes(q)
  PROVE  GogInv'
<1> USE GogAssumption
<1>1. PICK a, b \in 1..arrived : a <= b /\ todo[q] = a..b
  BY DEF HistoryTakes, GogInv, HistoryInOrder
<1>2. arrived \in 0..MaxMail /\ arrived' = arrived /\ from' = from /\ from[q] # Off
  BY DEF HistoryTakes, GogInv, GogTypeOK, HistoryInOrder, mails
<1>3. Lowest(todo[q]) = a
  BY <1>1, <1>2, LowestOfRange
<1>4. todo' = [todo EXCEPT ![q] = todo[q] \ {a}] /\ seenIds' = seenIds \cup {a}
      /\ UNCHANGED <<mailReported, excusedMail>>
  BY <1>3 DEF HistoryTakes
<1>5. todo'[q] = a + 1 .. b
  BY <1>1, <1>2, <1>4 DEF GogInv
<1>6. PICK made \in Made(q, a) : found' = [found EXCEPT ![q] = made]
  BY <1>3 DEF HistoryTakes
<1>7. found[q] \subseteq found'[q] /\ found'[q] \subseteq found[q] \cup {a}
      /\ (a \in found'[q] \/ a \in seenIds)
  BY <1>6 DEF Made, GogInv
<1>8. Accounted \subseteq Accounted'
  BY <1>4, <1>6, <1>7 DEF Accounted, InHand, GogInv
<1>9. a \in Accounted' /\ seenIds \subseteq Accounted'
  <2>1. seenIds \subseteq Accounted
    BY DEF GogInv, NoMailPassedOver, Behind, Accounted
  <2>2. found'[q] \subseteq Accounted'
    BY DEF Accounted, InHand
  <2> QED BY <1>7, <1>8, <2>1, <2>2
<1>10. \A n \in a..b : 1..n \ (a + 1 .. b) \subseteq Accounted'
  <2>1. \A n \in a..b : (1..n) \ (a..b) \subseteq Accounted
    BY <1>1 DEF GogInv, HistoryInOrder
  <2> QED BY <1>1, <1>2, <1>8, <1>9, <2>1
<1>11. /\ LastOf(q) => /\ a = b /\ checkpoint' = a /\ seenCache' = seenIds'
                       /\ returned' = returned \cup {q}
       /\ ~LastOf(q) => a < b /\ UNCHANGED <<checkpoint, seenCache, returned>>
  BY <1>1, <1>2, <1>3 DEF HistoryTakes, LastOf
<1>12. GogTypeOK'
  <2>1. \A p \in GogPoll : todo'[p] \cup found'[p] \subseteq 1..arrived
    BY <1>1, <1>4, <1>6, <1>7 DEF GogInv, GogTypeOK
  <2>2. returned' \subseteq {p \in GogPoll : from'[p] # Off /\ todo'[p] = {}}
    <3>1. todo[q] # {} /\ q \notin returned
      BY DEF HistoryTakes, GogInv, GogTypeOK
    <3>2. \A p \in returned : p \in GogPoll /\ from'[p] # Off /\ todo'[p] = {}
      BY <1>2, <1>4, <3>1 DEF GogInv, GogTypeOK
    <3>3. a = b => a + 1 .. b = {}
      BY <1>1, <1>2
    <3> QED BY <1>2, <1>5, <1>11, <3>2, <3>3
  <2>3. checkpoint' \in NoId \cup (0..arrived)
    BY <1>2, <1>11 DEF GogInv, GogTypeOK
  <2>4. seenIds' \cup seenCache' \cup mailReported' \cup excusedMail' \subseteq 1..arrived
    BY <1>4, <1>11 DEF GogInv, GogTypeOK
  <2> QED BY <1>2, <2>1, <2>2, <2>3, <2>4 DEF HistoryTakes, GogInv, GogTypeOK, mails
<1>13. NoMailPassedOver'
  <2>1. seenIds' \cup seenCache' \subseteq Accounted'
    BY <1>4, <1>8, <1>9, <1>11 DEF GogInv, NoMailPassedOver, Behind, Accounted
  <2>2. CASE LastOf(q)
    <3>1. checkpoint' \in Nat /\ 1..checkpoint' \subseteq Accounted'
      BY <1>1, <1>2, <1>10, <1>11, <2>2
    <3> QED BY <1>8, <2>1, <3>1, GogAccountKeeps
  <2>3. CASE ~LastOf(q)
    BY <1>8, <1>11, <2>1, <2>3 DEF GogInv, NoMailPassedOver, Behind, Accounted
  <2> QED BY <2>2, <2>3
<1>14. HistoryInOrder'
  <2>1. ASSUME NEW p \in GogPoll, p # q PROVE from'[p] = from[p] /\ todo'[p] = todo[p]
    BY <1>2, <1>4, <2>1
  <2>2. todo'[q] # {} => \E c, d \in 1..arrived : c <= d /\ todo'[q] = c..d
    BY <1>1, <1>2, <1>5
  <2>3. \A n \in todo'[q] : (1..n) \ todo'[q] \subseteq Accounted'
    BY <1>1, <1>5, <1>10
  <2>4. from'[q] \in 1..MaxMail => 1..from'[q] \subseteq Accounted'
    BY <1>2, <1>8 DEF GogInv, HistoryInOrder
  <2> QED BY <1>2, <1>8, <2>1, <2>2, <2>3, <2>4 DEF GogInv, HistoryInOrder
<1> QED BY <1>4, <1>6, <1>12, <1>13, <1>14 DEF GogInv

LEMMA GogCrashKeeps == ASSUME GogInv, GogCrash PROVE GogInv'
<1> USE GogAssumption
<1>1. Accounted \subseteq Accounted'
  BY DEF GogCrash, Accounted, InHand
<1>2. GogTypeOK'
  <2>1. \A q \in GogPoll : from'[q] = Off /\ todo'[q] = {} /\ found'[q] = {}
    BY DEF GogCrash
  <2>2. excusedMail' \cup seenIds' \subseteq 1..arrived
    BY DEF GogCrash, GogInv, GogTypeOK
  <2>3. from' \in [GogPoll -> NoId \cup (0..arrived) \cup {Off}]
    BY DEF GogCrash
  <2> QED BY <2>1, <2>2, <2>3 DEF GogCrash, GogInv, GogTypeOK, mails
<1>3. NoMailPassedOver'
  BY <1>1 DEF GogCrash, GogInv, NoMailPassedOver, Behind, Accounted
<1>4. HistoryInOrder'
  <2>1. \A q \in GogPoll : from'[q] = Off /\ todo'[q] = {}
    BY DEF GogCrash
  <2>2. Off \notin 1..MaxMail
    BY DEF Off
  <2> QED BY <2>1, <2>2 DEF HistoryInOrder
<1> QED BY <1>2, <1>3, <1>4 DEF GogInv, GogCrash

LEMMA GogInvStep == GogInv /\ [GogNext]_gogVars => GogInv'
<1> SUFFICES ASSUME GogInv, [GogNext]_gogVars PROVE GogInv'
  OBVIOUS
<1>1. CASE MailArrives \/ MailAges \/ GogShutdown \/ GogLoads
  BY <1>1, SurroundingsKeep
<1>2. ASSUME NEW q \in GogPoll, GogAsks(q) \/ GogFails(q) \/ GogHandled(q) PROVE GogInv'
  BY <1>2, PollEndsKeep
<1>3. ASSUME NEW q \in GogPoll, SearchAnswers(q) \/ Bootstrap(q) PROVE GogInv'
  BY <1>3, AnswersKeep
<1>4. ASSUME NEW q \in GogPoll, HistoryAnswers(q) PROVE GogInv'
  BY <1>4, HistoryAnswersKeeps
<1>5. ASSUME NEW q \in GogPoll, HistoryTakes(q) PROVE GogInv'
  BY <1>5, HistoryTakesKeeps
<1>6. CASE GogCrash
  BY <1>6, GogCrashKeeps
<1>7. CASE UNCHANGED gogVars
  BY <1>7 DEF gogVars, mails, GogInv, GogTypeOK, NoMailPassedOver, Behind, InHand,
              HistoryInOrder, Accounted
<1> QED BY <1>1, <1>2, <1>3, <1>4, <1>5, <1>6, <1>7 DEF GogNext

(***************************************************************************)
(* For any number of mails, of overlapping polls and any max_per_poll: mail*)
(* that is marked as seen, or before the checkpoint's historyId, has been  *)
(* reported or is on its way to be, over reloads and crashes (pollHistory, *)
(* pollSearch, saveSeenCache).                                             *)
(***************************************************************************)
THEOREM GogPassesNoMailOver == GogSpec => []NoMailPassedOver
<1>1. GogInv => NoMailPassedOver
  BY DEF GogInv
<1> QED BY <1>1, GogInvInit, GogInvStep, PTL DEF GogSpec

(***************************************************************************)
(* The types of the gog source's state are invariant.                      *)
(***************************************************************************)
THEOREM GogTyped == GogSpec => []GogTypeOK
<1>1. GogInv => GogTypeOK
  BY DEF GogInv
<1> QED BY <1>1, GogInvInit, GogInvStep, PTL DEF GogSpec

-----------------------------------------------------------------------------
(* GitHub.                                                                 *)

Names == {"pulls", "comments", "issues", "runs", "suites"}
Item == [feed : ToSet(Feeds), at : Nat]

GithubTyped ==
  /\ now \in Nat \ {0} /\ since \in 0..now /\ latest \in 0..now
  /\ items \in Seq(Item)
  /\ asking = Done \/ asking \in Seq(Names)
  /\ prCache \in 0..Second(now)
  /\ \A i \in Known : items[i].at <= now
  /\ \A i, j \in Known : i <= j => items[i].at <= items[j].at

\* What a poll would be expected to report
Unreported == Known \ (overlooked \cup reported)
InBatch == IF asking = Done THEN {} ELSE batch

\* The checkpoint passes nothing by.
Ahead == \A i \in Unreported : Newer(items[i].at, since)

\* During a poll, what is no event yet is on a feed still to be asked.
FeedsToCome ==
  asking # Done => \A i \in Unreported \ batch : items[i].feed \in ToSet(asking)

\* What the cached pull request hides has been reported or is going to be.
CacheHidesOld ==
  prCache # 0 => \A i \in Unreported \ InBatch :
    items[i].feed = "pulls" => Second(items[i].at) > prCache

GithubInv == GithubTyped /\ Ahead /\ FeedsToCome /\ CacheHidesOld

\* A second begins no later than the next.
LEMMA SecondsInOrder ==
  /\ \A t \in Nat : Second(t) \in Nat
  /\ \A s, t \in Nat : s <= t => Second(s) <= Second(t)
BY DEF Second

LEMMA MembersOfSeq ==
  ASSUME NEW S, NEW s \in Seq(S)
  PROVE  /\ \A i \in 1..Len(s) : s[i] \in ToSet(s) /\ s[i] \in S
         /\ \A x \in ToSet(s) : x \in S /\ \E i \in 1..Len(s) : s[i] = x
<1>1. \A i \in 1..Len(s) : s[i] \in S
  BY ElementOfSeq
<1>2. DOMAIN s = 1..Len(s)
  BY LenProperties
<1>3. ToSet(s) = {s[i] : i \in 1..Len(s)}
  BY <1>2, Zenon DEF ToSet
<1>4. ASSUME NEW x \in ToSet(s) PROVE x \in S /\ \E i \in 1..Len(s) : s[i] = x
  <2>1. PICK i \in 1..Len(s) : x = s[i]
    BY <1>3, Zenon
  <2> QED
    BY <1>1, <2>1, Zenon
<1>5. \A i \in 1..Len(s) : s[i] \in ToSet(s)
  BY <1>3, Zenon
<1> QED
  BY <1>1, <1>4, <1>5, Zenon

LEMMA FeedNames ==
  /\ Feeds \in Seq(Names) /\ ToSet(Feeds) \subseteq Names
  /\ \A s \in Seq(Names) : s # Done
<1>1. Feeds \in Seq(Names)
  BY GithubAssumption DEF Names
<1>2. ASSUME NEW s \in Seq(Names), s = Done PROVE FALSE
  <2>1. \A i \in 1..Len(s) : s[i] \in Names
    BY MembersOfSeq
  <2>2. Done[1] = "done" /\ Len(Done) = 1
    BY DEF Done
  <2>3. s[1] = "done" /\ 1 \in 1..Len(s)
    BY <1>2, <2>2
  <2> QED
    BY <2>1, <2>3 DEF Names
<1> QED
  BY <1>1, <1>2, MembersOfSeq

LEMMA HeadOrTail ==
  ASSUME NEW s \in Seq(Names), s # <<>>
  PROVE  /\ Tail(s) \in Seq(Names) /\ Head(s) \in Names
         /\ ToSet(s) \subseteq {Head(s)} \cup ToSet(Tail(s))
<1>1. /\ Tail(s) \in Seq(Names) /\ Head(s) \in Names /\ Len(s) \in Nat
      /\ Len(Tail(s)) = Len(s) - 1 /\ \A i \in 1..Len(Tail(s)) : Tail(s)[i] = s[i + 1]
  BY HeadTailProperties, LenProperties
<1>2. Head(s) = s[1]
  OBVIOUS
<1>3. ASSUME NEW i \in 1..Len(s), i # 1 PROVE s[i] \in ToSet(Tail(s))
  <2>1. i - 1 \in 1..Len(Tail(s)) /\ (i - 1) + 1 = i
    BY <1>1, <1>3
  <2>2. Tail(s)[i - 1] = s[i]
    BY <1>1, <2>1
  <2>3. Tail(s)[i - 1] \in ToSet(Tail(s))
    BY <1>1, <2>1, MembersOfSeq
  <2> QED
    BY <2>2, <2>3
<1>4. ASSUME NEW x \in ToSet(s) PROVE x = Head(s) \/ x \in ToSet(Tail(s))
  <2>1. PICK i \in 1..Len(s) : s[i] = x
    BY MembersOfSeq
  <2> QED
    BY <1>2, <1>3, <2>1
<1> QED
  BY <1>1, <1>4

LEMMA ItemsTyped ==
  ASSUME GithubTyped
  PROVE  /\ Known = 1..Len(items) /\ Len(items) \in Nat
         /\ \A i \in Known : items[i].at \in Nat /\ items[i].feed \in ToSet(Feeds)
<1>1. Known = 1..Len(items) /\ Len(items) \in Nat /\ \A i \in 1..Len(items) : items[i] \in Item
  BY DEF GithubTyped, Known
<1> QED
  BY <1>1 DEF Item

LEMMA GithubInvInit == GithubSourceInit => GithubInv
<1> SUFFICES ASSUME GithubSourceInit PROVE GithubInv
  OBVIOUS
<1>1. Known = {} /\ items \in Seq(Item)
  BY DEF GithubSourceInit, Known
<1>2. 0 \in 0..Second(1)
  BY SecondsInOrder
<1> QED
  BY <1>1, <1>2 DEF GithubSourceInit, GithubInv, GithubTyped, Ahead, FeedsToCome, CacheHidesOld,
                    Unreported

-----------------------------------------------------------------------------
LEMMA TickKeeps == ASSUME GithubInv, GithubTick PROVE GithubInv'
<1>1. /\ now \in Nat \ {0} /\ now' = now + 1
      /\ UNCHANGED <<items, since, asking, batch, latest, prCache, reported, overlooked>>
  BY DEF GithubTick, GithubInv, GithubTyped
<1>2. Second(now) \in Nat /\ Second(now') \in Nat /\ Second(now) <= Second(now')
  BY <1>1, SecondsInOrder
<1>3. \A i \in Known : items[i].at <= now'
  BY <1>1, ItemsTyped DEF GithubInv, GithubTyped
<1>4. GithubTyped'
  BY <1>1, <1>2, <1>3 DEF GithubInv, GithubTyped, Known
<1> QED
  BY <1>1, <1>4 DEF GithubInv, Ahead, FeedsToCome, CacheHidesOld, Unreported, InBatch, Known,
                    Newer

\* What appears is the latest; in a poll, or where the cache hides it, it may
\* be overlooked.
LEMMA ItemAppearsKeeps ==
  ASSUME GithubInv, NEW f \in ToSet(Feeds), ItemAppears(f)
  PROVE  GithubInv'
<1> DEFINE n == Len(items)
<1>1. /\ items' = Append(items, [feed |-> f, at |-> now])
      /\ UNCHANGED <<now, since, asking, batch, latest, prCache, reported>>
      /\ overlooked' = IF asking # Done \/ (f = "pulls" /\ Second(now) = prCache)
                       THEN overlooked \cup {n + 1} ELSE overlooked
  BY DEF ItemAppears
<1>2. n \in Nat /\ Known = 1..n /\ now \in Nat /\ items \in Seq(Item)
  BY ItemsTyped DEF GithubInv, GithubTyped
<1>3. [feed |-> f, at |-> now] \in Item
  BY <1>2 DEF Item
<1>4. /\ items' \in Seq(Item) /\ Len(items') = n + 1
      /\ \A i \in 1..n : items'[i] = items[i]
      /\ items'[n + 1] = [feed |-> f, at |-> now]
  BY <1>1, <1>2, <1>3, AppendProperties
<1>5. Known' = 1..n + 1
  BY <1>2, <1>4 DEF Known
<1>6. GithubTyped'
  <2>1. \A i \in 1..n : items[i].at <= now /\ items[i].at \in Nat
    BY <1>2, ItemsTyped DEF GithubInv, GithubTyped
  <2>2. \A i \in Known' : items'[i].at <= now
    BY <1>2, <1>4, <1>5, <2>1
  <2>3. ASSUME NEW i \in Known', NEW j \in Known', i <= j PROVE items'[i].at <= items'[j].at
    <3>1. CASE j = n + 1
      BY <1>4, <2>2, <3>1
    <3>2. CASE j # n + 1
      <4>1. i \in 1..n /\ j \in 1..n
        BY <1>2, <1>5, <2>3, <3>2
      <4>2. items[i].at <= items[j].at
        BY <1>2, <2>3, <4>1 DEF GithubInv, GithubTyped
      <4> QED
        BY <1>4, <4>1, <4>2
    <3> QED
      BY <3>1, <3>2
  <2> QED
    BY <1>1, <1>4, <2>2, <2>3 DEF GithubInv, GithubTyped
<1>7. \A i \in Unreported' : i \in Unreported \/ (i = n + 1 /\ n + 1 \notin overlooked')
  BY <1>1, <1>2, <1>5 DEF Unreported
<1>8. \A i \in Unreported : i \in 1..n /\ items'[i] = items[i]
  BY <1>2, <1>4 DEF Unreported
<1>9. /\ Second(since) <= Second(now) /\ Second(now) \in Nat /\ Second(since) \in Nat
      /\ prCache \in 0..Second(now)
  <2>1. since \in Nat /\ since <= now
    BY <1>2 DEF GithubInv, GithubTyped
  <2> QED
    BY <1>2, <2>1, SecondsInOrder DEF GithubInv, GithubTyped
<1>10. Ahead'
  <2>1. Newer(now, since)
    BY <1>9 DEF Newer
  <2>2. ASSUME NEW i \in Unreported' PROVE Newer(items'[i].at, since)
    <3>1. CASE i \in Unreported
      BY <1>8, <3>1 DEF GithubInv, Ahead
    <3>2. CASE i = n + 1
      BY <1>4, <2>1, <3>2
    <3> QED
      BY <1>7, <3>1, <3>2
  <2> QED
    BY <1>1, <2>2 DEF Ahead, Newer
<1>11. FeedsToCome'
  <2>1. asking # Done => n + 1 \in overlooked'
    BY <1>1
  <2> QED
    BY <1>1, <1>7, <1>8, <2>1 DEF GithubInv, FeedsToCome
<1>12. CacheHidesOld'
  <2>1. n + 1 \notin overlooked' /\ f = "pulls" => Second(now) > prCache
    BY <1>1, <1>9
  <2>2. ASSUME prCache # 0, NEW i \in Unreported' \ InBatch', items'[i].feed = "pulls"
        PROVE  Second(items'[i].at) > prCache
    <3>1. CASE i \in Unreported
      BY <1>1, <1>8, <2>2, <3>1 DEF GithubInv, CacheHidesOld, InBatch
    <3>2. CASE i = n + 1 /\ n + 1 \notin overlooked'
      BY <1>4, <2>1, <2>2, <3>2
    <3> QED
      BY <1>7, <3>1, <3>2
  <2> QED
    BY <1>1, <2>2 DEF CacheHidesOld
<1> QED
  BY <1>6, <1>10, <1>11, <1>12 DEF GithubInv

LEMMA PollAsksKeeps == ASSUME GithubInv, PollAsks PROVE GithubInv'
<1>1. /\ asking = Done /\ asking' = Feeds /\ batch' = {} /\ latest' = since
      /\ UNCHANGED <<now, items, since, prCache, reported, overlooked>>
  BY DEF PollAsks
<1>2. Unreported' = Unreported /\ Known' = Known /\ InBatch' = {} /\ InBatch = {}
  BY <1>1, FeedNames DEF Unreported, Known, InBatch
<1>3. \A i \in Unreported : items[i].feed \in ToSet(Feeds)
  BY ItemsTyped DEF GithubInv, Unreported
<1>4. GithubTyped'
  BY <1>1, <1>2, FeedNames DEF GithubInv, GithubTyped
<1> QED
  BY <1>1, <1>2, <1>3, <1>4 DEF GithubInv, Ahead, FeedsToCome, CacheHidesOld, Newer

-----------------------------------------------------------------------------
\* Ahead of the checkpoint and of the cached pull request, whatever the feed
\* holds is fresh.
LEMMA FeedCovers ==
  ASSUME GithubInv, asking \notin {Done, <<>>},
         NEW i \in Unreported \ batch
  PROVE  i \in Fresh(items[i].feed)
<1> DEFINE f == items[i].feed
<1>1. /\ Known = 1..Len(items) /\ Len(items) \in Nat
      /\ \A j \in Known : items[j].at \in Nat
      /\ i \in Known /\ i \in Of(f) /\ Of(f) \subseteq Known
  BY ItemsTyped DEF GithubInv, Unreported, Of
<1>2. Newer(items[i].at, since)
  BY DEF GithubInv, Ahead
<1>3. i \in Whole(f)
  BY <1>1, <1>2 DEF Whole
<1>4. i \in Paged(f)
  <2>1. ASSUME NEW j \in Of(f), j >= i PROVE Newer(items[j].at, since)
    <3>1. j \in Known /\ i <= j
      BY <1>1, <2>1
    <3>2. items[i].at <= items[j].at
      BY <1>1, <3>1 DEF GithubInv, GithubTyped
    <3>3. /\ Second(items[i].at) <= Second(items[j].at)
          /\ Second(items[i].at) \in Nat /\ Second(items[j].at) \in Nat
      BY <1>1, <3>1, <3>2, SecondsInOrder
    <3>4. Second(since) \in Nat
      BY SecondsInOrder DEF GithubInv, GithubTyped
    <3> QED
      BY <1>2, <3>3, <3>4 DEF Newer
  <2> QED
    BY <1>1, <2>1 DEF Paged
<1>5. f = "pulls" => i \in Reviews
  <2> SUFFICES ASSUME f = "pulls", prCache # 0, prCache = UpdatedAt PROVE FALSE
    BY <1>3 DEF Reviews
  <2>1. Of("pulls") # {} /\ Of("pulls") \in SUBSET (1..Len(items))
    BY <1>1
  <2>2. \E m \in Of("pulls") : \A j \in Of("pulls") : j <= m
    BY <1>1, <2>1, LastOfRange
  <2> DEFINE m == CHOOSE k \in Of("pulls") : \A j \in Of("pulls") : j <= k
  <2>3. m \in Of("pulls") /\ \A j \in Of("pulls") : j <= m
    BY <2>2
  <2>4. UpdatedAt = Second(items[m].at)
    BY <2>1 DEF UpdatedAt
  <2> HIDE DEF m
  <2>5. m \in Known /\ i <= m
    BY <1>1, <2>3
  <2>6. items[i].at <= items[m].at
    BY <1>1, <2>5 DEF GithubInv, GithubTyped
  <2>7. /\ Second(items[i].at) <= Second(items[m].at)
        /\ Second(items[i].at) \in Nat /\ Second(items[m].at) \in Nat
    BY <1>1, <2>5, <2>6, SecondsInOrder
  <2>8. Second(items[i].at) > prCache
    BY DEF GithubInv, CacheHidesOld, InBatch
  <2> QED
    BY <2>4, <2>7, <2>8
<1> QED
  BY <1>3, <1>4, <1>5 DEF Fresh

\* The pull request was updated no later than now.
LEMMA UpdatedAtTyped == ASSUME GithubTyped PROVE UpdatedAt \in 0..Second(now)
<1>1. Second(now) \in Nat /\ 0 \in 0..Second(now)
  BY SecondsInOrder DEF GithubTyped
<1>2. CASE Of("pulls") = {}
  BY <1>1, <1>2 DEF UpdatedAt
<1>3. CASE Of("pulls") # {}
  <2>1. Of("pulls") \in SUBSET (1..Len(items)) /\ Len(items) \in Nat
    BY ItemsTyped DEF Of
  <2>2. \E m \in Of("pulls") : \A j \in Of("pulls") : j <= m
    BY <1>3, <2>1, LastOfRange
  <2> DEFINE m == CHOOSE k \in Of("pulls") : \A j \in Of("pulls") : j <= k
  <2>3. m \in Of("pulls")
    BY <2>2
  <2>4. UpdatedAt = Second(items[m].at)
    BY <1>3 DEF UpdatedAt
  <2> HIDE DEF m
  <2>5. m \in Known /\ items[m].at \in Nat /\ items[m].at <= now
    BY <2>1, <2>3, ItemsTyped DEF GithubTyped
  <2>6. Second(items[m].at) \in Nat /\ Second(items[m].at) <= Second(now)
    BY <2>5, SecondsInOrder DEF GithubTyped
  <2> QED
    BY <1>1, <2>4, <2>6
<1> QED
  BY <1>2, <1>3

\* A feed that has answered holds nothing that is not in the batch.
LEMMA FeedAnswersKeeps == ASSUME GithubInv, FeedAnswers PROVE GithubInv'
<1> DEFINE f == Head(asking)
<1>1. /\ asking \notin {Done, <<>>}
      /\ batch' = batch \cup Fresh(f)
      /\ latest' = Advanced(Fresh(f))
      /\ prCache' = IF f = "pulls" /\ UpdatedAt >= Second(since) THEN UpdatedAt ELSE prCache
      /\ asking' = Tail(asking)
      /\ UNCHANGED <<now, items, since, reported, overlooked>>
  BY DEF FeedAnswers
<1>2. /\ asking' \in Seq(Names) /\ asking' # Done
      /\ ToSet(asking) \subseteq {f} \cup ToSet(asking')
  BY <1>1, HeadOrTail, FeedNames DEF GithubInv, GithubTyped
<1>3. Unreported' = Unreported /\ Known' = Known /\ InBatch' = batch' /\ InBatch = batch
  BY <1>1, <1>2 DEF Unreported, Known, InBatch
<1>4. ASSUME NEW i \in Unreported \ batch'
      PROVE  i \in Unreported \ batch /\ items[i].feed # f
  BY <1>1, <1>4, FeedCovers
<1>5. GithubTyped'
  <2>1. latest' \in 0..now
    BY <1>1 DEF Advanced, GithubInv, GithubTyped
  <2>2. prCache' \in 0..Second(now)
    BY <1>1, UpdatedAtTyped DEF GithubInv, GithubTyped
  <2> QED
    BY <1>1, <1>2, <1>3, <2>1, <2>2 DEF GithubInv, GithubTyped
<1>6. Ahead'
  BY <1>1, <1>3 DEF GithubInv, Ahead, Newer
<1>7. FeedsToCome'
  BY <1>1, <1>2, <1>3, <1>4 DEF GithubInv, FeedsToCome
<1>8. CacheHidesOld'
  <2>1. CASE f = "pulls"
    BY <1>1, <1>3, <1>4, <2>1 DEF CacheHidesOld
  <2>2. CASE f # "pulls"
    BY <1>1, <1>3, <1>4, <2>2 DEF GithubInv, CacheHidesOld
  <2> QED
    BY <2>1, <2>2
<1> QED
  BY <1>5, <1>6, <1>7, <1>8 DEF GithubInv

LEMMA FeedSkippedKeeps == ASSUME GithubInv, FeedSkipped PROVE GithubInv'
<1> DEFINE f == Head(asking)
<1>1. /\ asking \notin {Done, <<>>}
      /\ asking' = Tail(asking)
      /\ overlooked' = overlooked \cup Of(f)
      /\ UNCHANGED <<now, items, since, batch, latest, prCache, reported>>
  BY DEF FeedSkipped
<1>2. /\ asking' \in Seq(Names) /\ asking' # Done
      /\ ToSet(asking) \subseteq {f} \cup ToSet(asking')
  BY <1>1, HeadOrTail, FeedNames DEF GithubInv, GithubTyped
<1>3. Known' = Known /\ InBatch' = batch /\ InBatch = batch
  BY <1>1, <1>2 DEF Known, InBatch
<1>4. \A i \in Unreported' : i \in Unreported /\ items[i].feed # f
  BY <1>1, <1>3 DEF Unreported, Of
<1>5. GithubTyped'
  BY <1>1, <1>2, <1>3 DEF GithubInv, GithubTyped
<1> QED
  BY <1>1, <1>2, <1>3, <1>4, <1>5 DEF GithubInv, Ahead, FeedsToCome, CacheHidesOld, Newer

\* If the checkpoint advances, what the poll leaves behind is overlooked.
LEMMA PollLimitedKeeps == ASSUME GithubInv, PollLimited PROVE GithubInv'
<1>1. /\ asking \notin {Done, <<>>} /\ asking' = Done
      /\ reported' = reported \cup batch
      /\ since' = latest
      /\ overlooked' = overlooked \cup UNION {Of(f) : f \in IF latest = since THEN {} ELSE ToSet(asking)}
      /\ UNCHANGED <<now, items, batch, latest, prCache>>
  BY DEF PollLimited, CutShort
<1>2. Known' = Known /\ InBatch' = {} /\ InBatch = batch
  BY <1>1 DEF Known, InBatch
<1>3. \A i \in Unreported' : i \in Unreported \ batch
  BY <1>1, <1>2 DEF Unreported
<1>4. latest # since => Unreported' = {}
  <2> SUFFICES ASSUME latest # since, NEW i \in Unreported' PROVE FALSE
    OBVIOUS
  <2>1. items[i].feed \in ToSet(asking) /\ i \in Of(items[i].feed)
    BY <1>1, <1>3 DEF GithubInv, FeedsToCome, Unreported, Of
  <2>2. i \in overlooked'
    BY <1>1, <2>1
  <2> QED
    BY <2>2 DEF Unreported
<1>5. GithubTyped'
  BY <1>1, <1>2 DEF GithubInv, GithubTyped
<1>6. Ahead'
  BY <1>1, <1>3, <1>4 DEF GithubInv, Ahead, Newer
<1>7. CacheHidesOld'
  BY <1>1, <1>2, <1>3 DEF GithubInv, CacheHidesOld
<1> QED
  BY <1>1, <1>5, <1>6, <1>7 DEF GithubInv, FeedsToCome

\* Reviews dropped although cached are overlooked; everything else is asked for again.
LEMMA PollFailsKeeps == ASSUME GithubInv, PollFails PROVE GithubInv'
<1>1. /\ asking \notin {Done, <<>>} /\ asking' = Done
      /\ overlooked' = overlooked \cup (batch \cap Of("pulls"))
      /\ UNCHANGED <<now, items, since, batch, latest, prCache, reported>>
  <2>1. UNION {Of(f) : f \in {}} = {}
    OBVIOUS
  <2> QED
    BY <2>1 DEF PollFails, CutShort
<1>2. Known' = Known /\ InBatch' = {} /\ InBatch = batch
  BY <1>1 DEF Known, InBatch
<1>3. \A i \in Unreported' : i \in Unreported /\ (items[i].feed = "pulls" => i \notin batch)
  BY <1>1, <1>2 DEF Unreported, Of
<1>4. GithubTyped'
  BY <1>1, <1>2 DEF GithubInv, GithubTyped
<1>5. CacheHidesOld'
  BY <1>1, <1>2, <1>3 DEF GithubInv, CacheHidesOld
<1> QED
  BY <1>1, <1>3, <1>4, <1>5 DEF GithubInv, Ahead, FeedsToCome, Newer

LEMMA PollReturnsKeeps == ASSUME GithubInv, PollReturns PROVE GithubInv'
<1>1. /\ asking = <<>> /\ asking' = Done
      /\ reported' = reported \cup batch
      /\ since' = latest
      /\ prCache' \in {prCache, 0}
      /\ UNCHANGED <<now, items, batch, latest, overlooked>>
  BY DEF PollReturns, Evicted
<1>2. Known' = Known
  BY <1>1 DEF Known
<1>3. Unreported' = {}
  <2> SUFFICES ASSUME NEW i \in Unreported' PROVE FALSE
    OBVIOUS
  <2>1. i \in Unreported \ batch
    BY <1>1, <1>2 DEF Unreported
  <2>2. asking # Done
    BY <1>1, EmptySeq, FeedNames
  <2>3. ToSet(<<>>) = {}
    <3> DEFINE e == <<>>
    <3>1. e \in Seq(Names) /\ 1..Len(e) = {}
      BY EmptySeq
    <3> HIDE DEF e
    <3>2. \A x \in ToSet(e) : \E j \in 1..Len(e) : e[j] = x
      BY <3>1, MembersOfSeq
    <3>3. ToSet(e) = {}
      BY <3>1, <3>2
    <3> QED
      BY <3>3 DEF e
  <2> QED
    BY <1>1, <2>1, <2>2, <2>3 DEF GithubInv, FeedsToCome
<1>4. GithubTyped'
  <2>1. 0 \in 0..Second(now)
    BY SecondsInOrder DEF GithubInv, GithubTyped
  <2> QED
    BY <1>1, <1>2, <2>1 DEF GithubInv, GithubTyped
<1> QED
  BY <1>1, <1>3, <1>4 DEF GithubInv, Ahead, FeedsToCome, CacheHidesOld

LEMMA RestartGithubKeeps == ASSUME GithubInv, RestartGithub PROVE GithubInv'
<1>1. /\ prCache' = 0 /\ asking = Done
      /\ UNCHANGED <<now, items, since, asking, batch, latest, reported, overlooked>>
  BY DEF RestartGithub
<1>2. GithubTyped'
  <2>1. 0 \in 0..Second(now)
    BY SecondsInOrder DEF GithubInv, GithubTyped
  <2> QED
    BY <1>1, <2>1 DEF GithubInv, GithubTyped, Known
<1> QED
  BY <1>1, <1>2 DEF GithubInv, Ahead, FeedsToCome, CacheHidesOld, Unreported, Known, Newer

LEMMA GithubInvStep == GithubInv /\ [GithubSourceNext]_githubVars => GithubInv'
<1> SUFFICES ASSUME GithubInv, [GithubSourceNext]_githubVars PROVE GithubInv'
  OBVIOUS
<1>1. CASE UNCHANGED githubVars
  BY <1>1 DEF githubVars, GithubInv, GithubTyped, Ahead, FeedsToCome, CacheHidesOld, Unreported,
              InBatch, Known, Newer
<1>2. CASE GithubSourceNext
  BY <1>2, TickKeeps, PollAsksKeeps, FeedAnswersKeeps, FeedSkippedKeeps, PollLimitedKeeps,
     PollFailsKeeps, PollReturnsKeeps, RestartGithubKeeps, ItemAppearsKeeps DEF GithubSourceNext
<1> QED
  BY <1>1, <1>2

\* Between polls, whatever happened on GitHub and is not listed as overlooked is
\* reported or lies ahead of the checkpoint, for every number and order of feeds
\* and every interval between polls.
THEOREM GithubPassesNothingOver == GithubSourceSpec => []NothingOverlooked
<1>1. GithubInv => NothingOverlooked
  BY DEF GithubInv, Ahead, NothingOverlooked, Unreported
<1> QED
  BY <1>1, GithubInvInit, GithubInvStep, PTL DEF GithubSourceSpec

\* The feeds to ask are an end of the list, and stay one when the first was asked.
LEMMA SuffixMeans ==
  ASSUME NEW S, NEW s \in Seq(S), NEW t \in Seq(S)
  PROVE  IsSuffix(s, t) <=> /\ Len(s) <= Len(t)
                            /\ \A k \in 1..Len(s) : s[Len(s) - k + 1] = t[Len(t) - k + 1]
<1> DEFINE m == Len(s)
           n == Len(t)
           r == [i \in 1..m |-> s[(m - i) + 1]]
           q == [i \in 1..n |-> t[(n - i) + 1]]
<1>1. m \in Nat /\ n \in Nat
  BY LenProperties
<1>2. (\A i \in 1..m : r[i] \in S) /\ (\A i \in 1..n : q[i] \in S) /\ Len(r) = m /\ Len(q) = n
  <2>1. (\A i \in 1..m : (m - i) + 1 \in 1..m) /\ (\A i \in 1..n : (n - i) + 1 \in 1..n)
    BY <1>1
  <2>2. (\A i \in 1..m : s[i] \in S) /\ (\A i \in 1..n : t[i] \in S)
    BY LenProperties, ElementOfSeq
  <2>3. Len(r) = m /\ Len(q) = n
    BY <1>1
  <2> QED
    BY <2>1, <2>2, <2>3
<1>3. IsSuffix(s, t) <=> m <= n /\ SubSeq(r, 1, m) = SubSeq(q, 1, m)
  BY <1>2 DEF IsSuffix, IsPrefix, Reverse
<1> HIDE DEF r, q, m, n
<1>4. CASE m <= n
  <2>1. /\ SubSeq(r, 1, m) \in Seq(S) /\ Len(SubSeq(r, 1, m)) = m
        /\ \A i \in 1..m : SubSeq(r, 1, m)[i] = r[i]
    BY <1>1, <1>2, SubSeqProperties
  <2>2. \A i \in 1..m : q[i] \in S
    BY <1>1, <1>2, <1>4
  <2>3. /\ SubSeq(q, 1, m) \in Seq(S) /\ Len(SubSeq(q, 1, m)) = m
        /\ \A i \in 1..m : SubSeq(q, 1, m)[i] = q[i]
    BY <1>1, <2>2, SubSeqProperties
  <2>4. SubSeq(r, 1, m) = SubSeq(q, 1, m) <=> \A i \in 1..m : r[i] = q[i]
    <3>1. ASSUME SubSeq(r, 1, m) = SubSeq(q, 1, m) PROVE \A i \in 1..m : r[i] = q[i]
      BY <2>1, <2>3, <3>1
    <3>2. ASSUME \A i \in 1..m : r[i] = q[i] PROVE SubSeq(r, 1, m) = SubSeq(q, 1, m)
      BY <2>1, <2>3, <3>2, SeqEqual
    <3> QED
      BY <3>1, <3>2
  <2>5. \A i \in 1..m : r[i] = s[m - i + 1] /\ q[i] = t[n - i + 1]
    BY <1>1, <1>4 DEF r, q
  <2> QED
    BY <1>3, <1>4, <2>4, <2>5 DEF m, n
<1>5. CASE ~(m <= n)
  BY <1>3, <1>5 DEF m, n
<1> QED
  BY <1>4, <1>5

LEMMA TailIsSuffix ==
  ASSUME NEW S, NEW s \in Seq(S), NEW t \in Seq(S), s # <<>>, IsSuffix(s, t)
  PROVE  IsSuffix(Tail(s), t)
<1> DEFINE u == Tail(s)
<1>1. /\ u \in Seq(S) /\ Len(u) = Len(s) - 1 /\ Len(s) \in Nat /\ Len(t) \in Nat
      /\ \A i \in 1..Len(u) : u[i] = s[i + 1]
  BY HeadTailProperties, LenProperties
<1>2. Len(s) <= Len(t) /\ \A k \in 1..Len(s) : s[Len(s) - k + 1] = t[Len(t) - k + 1]
  BY SuffixMeans
<1> HIDE DEF u
<1>3. ASSUME NEW k \in 1..Len(u) PROVE u[Len(u) - k + 1] = t[Len(t) - k + 1]
  <2>1. Len(u) - k + 1 \in 1..Len(u) /\ Len(u) - k + 1 + 1 = Len(s) - k + 1 /\ k \in 1..Len(s)
    BY <1>1
  <2> QED
    BY <1>1, <1>2, <2>1
<1>4. Len(u) <= Len(t)
  BY <1>1, <1>2
<1> QED
  BY <1>1, <1>3, <1>4, SuffixMeans DEF u

\* What GithubTyped leaves open: the bounds of the instance and the poll's own state
GithubRest ==
  /\ now <= MaxNow /\ begun \in 0..now
  /\ items \in Seq([feed : ToSet(Feeds), at : 1..MaxNow]) /\ Len(items) <= MaxItems
  /\ IsSuffix(asking, Feeds) \/ asking = Done
  /\ batch \cup overlooked \cup reported \subseteq Known
  /\ budget \in {"ok", "low", "out"}

LEMMA GithubRestInit == GithubSourceInit => GithubRest
<1> SUFFICES ASSUME GithubSourceInit PROVE GithubRest
  OBVIOUS
<1>1. /\ <<>> \in Seq([feed : ToSet(Feeds), at : 1..MaxNow]) /\ Len(<<>>) = 0
  BY EmptySeq
<1> QED
  BY <1>1, GithubAssumption DEF GithubSourceInit, GithubRest

LEMMA GithubRestStep == GithubInv /\ GithubRest /\ [GithubSourceNext]_githubVars => GithubRest'
<1> SUFFICES ASSUME GithubInv, GithubRest, [GithubSourceNext]_githubVars PROVE GithubRest'
  OBVIOUS
<1>1. /\ now \in Nat \ {0} /\ MaxNow \in Nat /\ MaxItems \in Nat
      /\ asking # Done => asking \in Seq(Names)
      /\ items \in Seq([feed : ToSet(Feeds), at : 1..MaxNow]) /\ Known = 1..Len(items) /\ Len(items) \in Nat
  BY GithubAssumption, LenProperties DEF GithubInv, GithubTyped, GithubRest, Known
<1>2. CASE GithubTick
  BY <1>1, <1>2 DEF GithubTick, GithubRest, Known
<1>3. CASE PollAsks
  <2>1. IsSuffix(Feeds, Feeds)
    BY FeedNames, SuffixMeans, LenProperties
  <2>2. budget' \in {"ok", "low", "out"}
    BY <1>3 DEF PollAsks, Waited, GithubRest
  <2> QED
    BY <1>1, <1>3, <2>1, <2>2 DEF PollAsks, GithubRest, Known
<1>4. ASSUME asking \notin {Done, <<>>}, asking' = Tail(asking) PROVE IsSuffix(asking', Feeds)
  <2>1. IsSuffix(asking, Feeds) /\ asking \in Seq(Names) /\ asking # <<>>
    BY <1>1, <1>4 DEF GithubRest
  <2> QED
    BY <1>4, <2>1, FeedNames, TailIsSuffix
<1>5. \A f : Of(f) \subseteq Known /\ Fresh(f) \subseteq Known
  BY DEF Of, Fresh, Reviews, Whole, Paged
<1>6. CASE FeedAnswers
  BY <1>4, <1>5, <1>6 DEF FeedAnswers, GithubRest, Known
<1>7. CASE FeedSkipped
  BY <1>4, <1>5, <1>7 DEF FeedSkipped, GithubRest, Known
<1>8. CASE PollLimited \/ PollFails
  <2>1. \A S : UNION {Of(f) : f \in S} \subseteq Known
    BY <1>5
  <2>2. overlooked' \subseteq Known /\ reported' \subseteq Known
    BY <1>5, <1>8, <2>1 DEF PollLimited, PollFails, CutShort, GithubRest
  <2> QED
    BY <1>8, <2>2 DEF PollLimited, PollFails, GithubRest, Known
<1>9. CASE PollReturns
  BY <1>9 DEF PollReturns, GithubRest, Known
<1>10. CASE RestartGithub
  BY <1>10 DEF RestartGithub, GithubRest, Known
<1>11. ASSUME NEW f \in ToSet(Feeds), ItemAppears(f) PROVE GithubRest'
  <2> DEFINE item == [feed |-> f, at |-> now]
  <2>1. /\ items' = Append(items, item) /\ Len(items) < MaxItems
        /\ overlooked' \subseteq overlooked \cup {Len(items) + 1}
        /\ UNCHANGED <<now, begun, asking, batch, budget, reported>>
    BY <1>11 DEF ItemAppears
  <2>2. item \in [feed : ToSet(Feeds), at : 1..MaxNow]
    BY <1>1 DEF GithubRest
  <2>3. /\ items' \in Seq([feed : ToSet(Feeds), at : 1..MaxNow]) /\ Len(items') = Len(items) + 1
    BY <1>1, <2>1, <2>2, AppendProperties
  <2>4. Known' = 1..Len(items) + 1
    BY <2>3, LenProperties DEF Known
  <2> QED
    BY <1>1, <2>1, <2>3, <2>4 DEF GithubRest
<1>12. CASE UNCHANGED githubVars
  BY <1>12 DEF githubVars, GithubRest, Known
<1> QED
  BY <1>2, <1>3, <1>6, <1>7, <1>8, <1>9, <1>10, <1>11, <1>12 DEF GithubSourceNext

LEMMA GithubTypesFollow == ASSUME GithubInv, GithubRest PROVE GithubSourceTypeOK
BY GithubAssumption DEF GithubInv, GithubTyped, GithubRest, GithubSourceTypeOK

(***************************************************************************)
(* The types of the github source's state are invariant: a poll asks the   *)
(* feeds in their order to the end, and no checkpoint is ahead of the time.*)
(***************************************************************************)
THEOREM GithubSourceTyped == GithubSourceSpec => []GithubSourceTypeOK
BY GithubTypesFollow, GithubInvInit, GithubInvStep, GithubRestInit, GithubRestStep, PTL
DEF GithubSourceSpec

-----------------------------------------------------------------------------
(* Cron.                                                                   *)

\* Back from now to the first minute after a trigger, the scan finds what there is.
LEMMA MatchSinceFinds ==
  ASSUME NEW t \in Nat, clock \in Nat
  PROVE  MatchSince(t) <=> \E k \in From(t)..Minute(clock) : Matches(k)
<1> DEFINE L == Minute(clock)
           h == [m \in 0..L |-> \E k \in From(t)..m : Matches(k)]
           Scan(f) == [m \in 0..L |->
                         m >= From(t) /\ (Matches(m) \/ (m > 0 /\ f[m - 1]))]
           g == CHOOSE f : f = Scan(f)
<1>1. L \in Nat /\ From(t) \in Nat
  BY DEF From, Minute
<1>2. ASSUME NEW m \in 0..L
      PROVE  (\E k \in From(t)..m : Matches(k))
               <=> m >= From(t) /\ (Matches(m) \/ (m > 0 /\ h[m - 1]))
  <2>1. CASE m = 0
    BY <1>1, <2>1
  <2>2. CASE m > 0
    <3>1. m - 1 \in 0..L
      BY <1>1, <2>2
    <3>2. h[m - 1] <=> \E k \in From(t)..m - 1 : Matches(k)
      BY <3>1
    <3> QED
      BY <1>1, <2>2, <3>2
  <2> QED
    BY <1>1, <2>1, <2>2
<1>3. h = Scan(h)
  BY <1>2
<1>4. g = Scan(g)
  BY <1>3
<1>5. \A m \in 0..L : g[m] <=> m >= From(t) /\ (Matches(m) \/ (m > 0 /\ g[m - 1]))
  BY <1>4
<1>6. \A m \in 0..L : h[m] <=> \E k \in From(t)..m : Matches(k)
  OBVIOUS
<1>7. MatchSince(t) <=> g[L]
  BY DEF MatchSince
<1> HIDE DEF g, h, L
<1>8. \A m \in 0..L : g[m] <=> h[m]
  <2> DEFINE T == {m \in 0..L : ~(g[m] <=> h[m])}
  <2> SUFFICES ASSUME T # {} PROVE FALSE
    OBVIOUS
  <2>1. PICK m \in T : \A n \in T : m <= n
    <3>1. T \subseteq Nat
      BY <1>1
    <3> QED
      BY <3>1, LeastNat
  <2>2. m > 0 => m - 1 \in 0..L /\ m - 1 \notin T
    BY <1>1, <2>1
  <2>3. m > 0 => (g[m - 1] <=> h[m - 1])
    BY <2>2
  <2>4. m \in 0..L /\ ~(g[m] <=> h[m])
    OBVIOUS
  <2>5. h[m] <=> m >= From(t) /\ (Matches(m) \/ (m > 0 /\ h[m - 1]))
    BY <1>2, <1>6, <2>4
  <2> QED
    BY <1>5, <2>3, <2>4, <2>5
<1>9. L \in 0..L
  BY <1>1
<1> QED
  BY <1>6, <1>7, <1>8, <1>9 DEF L

-----------------------------------------------------------------------------
(* parseCronField.                                                         *)

\* The loop of a part adds what is a multiple of its step away from its start.
LEMMA PartHolds ==
  ASSUME NEW p \in Part, Highest \in Nat
  PROVE  PartValues(p) = {v \in p.from..p.to : (v - p.from) % p.step = 0}
<1> DEFINE L == Highest
           a == p.from
           b == p.to
           c == p.step
           M(k) == k * c
           h == [n \in 0..L |-> {v \in a..b : \E k \in n..L : v = a + M(k)}]
           Body(f) == [n \in 0..L |->
                         IF a + M(n) > b THEN {}
                         ELSE {a + M(n)} \cup (IF n = L THEN {} ELSE f[n + 1])]
           g == CHOOSE f : f = Body(f)
<1>1. PartValues(p) = g[0]
  BY DEF PartValues
<1>2. a \in 0..L /\ b \in 0..L /\ c \in Nat \ {0} /\ L \in Nat
  BY DEF Part
<1> HIDE DEF a, b, c, L
<1>3. /\ \A k \in Nat : M(k) \in Nat
      /\ \A n, k \in Nat : n <= k => M(n) <= M(k)
      /\ \A k \in Nat : M(k) >= k
  <2>1. \A k \in Nat : M(k) \in Nat
    BY <1>2
  <2>2. ASSUME NEW n \in Nat, NEW k \in Nat, n <= k PROVE M(n) <= M(k)
    BY <1>2, <2>2
  <2>3. ASSUME NEW k \in Nat PROVE M(k) >= k
    BY <1>2
  <2> QED
    BY <2>1, <2>2, <2>3
<1>4. {v \in a..b : \E k \in 0..L : v = a + M(k)} = {v \in a..b : (v - a) % c = 0}
  <2>1. ASSUME NEW v \in a..b, NEW k \in 0..L, v = a + M(k) PROVE (v - a) % c = 0
    <3>1. v - a = k * c
      BY <1>2, <1>3, <2>1
    <3> QED
      BY <1>2, <3>1
  <2>2. ASSUME NEW v \in a..b, (v - a) % c = 0 PROVE \E k \in 0..L : v = a + M(k)
    <3> DEFINE d == v - a
               k == d \div c
    <3>1. d \in 0..L /\ d % c = 0
      BY <1>2, <2>2
    <3> HIDE DEF d
    <3>2. k \in Nat /\ d = k * c
      BY <1>2, <3>1
    <3>3. k <= d
      BY <1>2, <1>3, <3>1, <3>2
    <3>4. k \in 0..L
      BY <1>2, <3>1, <3>2, <3>3
    <3>5. v = a + d
      BY <1>2 DEF d
    <3> HIDE DEF k
    <3> QED
      BY <3>2, <3>4, <3>5
  <2> QED
    BY <2>1, <2>2
<1> HIDE DEF M
<1>5. ASSUME NEW n \in 0..L
      PROVE  {v \in a..b : \E k \in n..L : v = a + M(k)}
               = IF a + M(n) > b THEN {}
                 ELSE {a + M(n)} \cup (IF n = L THEN {} ELSE h[n + 1])
  <2>1. CASE a + M(n) > b
    BY <1>2, <1>3, <2>1
  <2>2. CASE a + M(n) <= b /\ n = L
    BY <1>2, <1>3, <2>2
  <2>3. CASE a + M(n) <= b /\ n # L
    <3>1. n + 1 \in 0..L
      BY <1>2, <2>3
    <3>2. h[n + 1] = {v \in a..b : \E k \in n + 1..L : v = a + M(k)}
      BY <3>1
    <3>3. \A k \in n..L : k = n \/ k \in n + 1..L
      BY <1>2
    <3>4. a + M(n) \in a..b /\ n \in n..L /\ n + 1..L \subseteq n..L
      BY <1>2, <1>3, <2>3
    <3>5. {v \in a..b : \E k \in n..L : v = a + M(k)} = {a + M(n)} \cup h[n + 1]
      BY <3>2, <3>3, <3>4
    <3>6. ~(a + M(n) > b)
      BY <1>2, <1>3, <2>3
    <3> QED
      BY <2>3, <3>5, <3>6
  <2>4. a + M(n) > b \/ a + M(n) <= b
    BY <1>2, <1>3
  <2> QED
    BY <2>1, <2>2, <2>3, <2>4
<1>6. h = Body(h)
  BY <1>5
<1>7. g = Body(g)
  BY <1>6
<1>8. \A n \in 0..L : g[n] = IF a + M(n) > b THEN {}
                             ELSE {a + M(n)} \cup (IF n = L THEN {} ELSE g[n + 1])
  BY <1>7
<1>9. \A n \in 0..L : h[n] = IF a + M(n) > b THEN {}
                             ELSE {a + M(n)} \cup (IF n = L THEN {} ELSE h[n + 1])
  BY <1>6
<1>10. h[0] = {v \in a..b : \E k \in 0..L : v = a + M(k)}
  BY <1>2
<1> HIDE DEF g, h
<1>11. \A n \in 0..L : g[n] = h[n]
  <2> DEFINE T == {n \in 0..L : g[L - n] # h[L - n]}
  <2>1. T = {}
    <3> SUFFICES ASSUME T # {} PROVE FALSE
      OBVIOUS
    <3>1. PICK m \in T : \A n \in T : m <= n
      <4>1. T \subseteq Nat
        BY <1>2
      <4> QED
        BY <4>1, LeastNat
    <3> DEFINE n == L - m
    <3>2. n \in 0..L /\ g[n] # h[n]
      BY <1>2
    <3>3. n # L => g[n + 1] = h[n + 1]
      <4> SUFFICES ASSUME n # L PROVE g[n + 1] = h[n + 1]
        OBVIOUS
      <4>1. m - 1 \in 0..L /\ m - 1 \notin T /\ L - (m - 1) = n + 1
        BY <1>2, <3>1
      <4> QED
        BY <4>1
    <3> QED
      BY <1>8, <1>9, <3>2, <3>3
  <2>2. ASSUME NEW n \in 0..L PROVE g[n] = h[n]
    <3>1. L - n \in 0..L /\ L - (L - n) = n
      BY <1>2
    <3> QED
      BY <2>1, <3>1
  <2> QED
    BY <2>2
<1> QED
  BY <1>1, <1>2, <1>4, <1>10, <1>11 DEF a, b, c, L

LEMMA MatchesDue ==
  ASSUME NEW m \in Nat, m <= Minute(MaxTime), field \subseteq Part
  PROVE  Matches(m) <=> m \in Due
<1> DEFINE v == m % (Highest + 1)
<1>1. Highest \in Nat /\ v \in Nat
  BY CronAssumption
<1> HIDE DEF v
<1>2. ASSUME NEW p \in field
      PROVE  v \in PartValues(p) <=> v \in p.from..p.to /\ (v - p.from) % p.step = 0
  BY <1>1, PartHolds
<1>3. Matches(m) <=> \E p \in field : v \in PartValues(p)
  BY DEF Matches, FieldValues, v
<1>4. m \in Due <=> \E p \in field : v \in p.from..p.to /\ (v - p.from) % p.step = 0
  <2>1. Minute(MaxTime) \in Nat /\ m \in 0..Minute(MaxTime)
    BY CronAssumption DEF Minute
  <2> QED
    BY <2>1 DEF Due, v
<1> QED
  BY <1>2, <1>3, <1>4

-----------------------------------------------------------------------------
\* A schedule's last trigger is when it last fired, none if it never did.
LastFired(last, fired) ==
  /\ last \in Nat
  /\ last = Never => fired = {}
  /\ last # Never => last \in fired /\ \A f \in fired : f <= last

CronInv ==
  /\ clock \in 0..MaxTime
  /\ field \in CronFields
  /\ lastTrigger \in [Schedule -> Nat]
  /\ polledAt \in (0..clock) \cup {Never}
  /\ cronFired \cup everyFired \subseteq 0..clock
  /\ polledAt = Never => cronFired = {}
  /\ \A f \in cronFired : f <= polledAt
  /\ LastFired(lastTrigger["cron"], cronFired)
  /\ LastFired(lastTrigger["interval"], everyFired)
  /\ SchedulesKept

LEMMA CronInvInit == CronInit => CronInv
BY CronAssumption DEF CronInit, CronInv, LastFired, SchedulesKept, Schedule, Never

LEMMA CronTickKeeps == ASSUME CronInv, CronTick PROVE CronInv'
BY CronAssumption DEF CronInv, CronTick, LastFired, SchedulesKept, Never, Aligned, Due

\* Minutes and half minutes
LEMMA MinuteOf ==
  ASSUME NEW t \in Nat
  PROVE  /\ Minute(t) \in Nat /\ 2 * Minute(t) <= t /\ t <= 2 * Minute(t) + 1
         /\ Aligned(t) <=> t = 2 * Minute(t)
BY DEF Minute, Aligned

LEMMA CronPollsKeeps == ASSUME CronInv, CronPolls PROVE CronInv'
<1> DEFINE last == lastTrigger["cron"]
           due == ShouldFire("cron")
           again == ShouldFire("interval")
<1>1. /\ clock # polledAt /\ polledAt' = clock
      /\ lastTrigger' = [s \in Schedule |-> IF ShouldFire(s) THEN clock ELSE lastTrigger[s]]
      /\ cronFired' = cronFired \cup (IF due THEN {clock} ELSE {})
      /\ everyFired' = everyFired \cup (IF again THEN {clock} ELSE {})
      /\ UNCHANGED <<clock, field>>
  BY DEF CronPolls
<1>2. /\ MaxTime \in Nat /\ clock \in Nat /\ clock <= MaxTime /\ clock < Never
      /\ last \in Nat /\ lastTrigger["interval"] \in Nat /\ field \subseteq Part
      /\ cronFired \subseteq 0..clock /\ everyFired \subseteq 0..clock
  BY CronAssumption DEF CronInv, LastFired, Never
<1>3. /\ lastTrigger'["cron"] = IF due THEN clock ELSE last
      /\ lastTrigger'["interval"] = IF again THEN clock ELSE lastTrigger["interval"]
      /\ lastTrigger' \in [Schedule -> Nat]
  BY <1>1, <1>2 DEF Schedule, CronInv
<1>4. due <=> \E k \in From(last)..Minute(clock) : k \in Due
  <2>1. due <=> \E k \in From(last)..Minute(clock) : Matches(k)
    BY <1>2, MatchSinceFinds DEF ShouldFire
  <2>2. /\ From(last) \in Nat /\ Minute(clock) \in Nat
        /\ Minute(clock) <= Minute(MaxTime) /\ Minute(MaxTime) \in Nat
    BY <1>2 DEF From, Minute
  <2>3. \A k \in From(last)..Minute(clock) : Matches(k) <=> k \in Due
    BY <1>2, <2>2, MatchesDue
  <2> QED
    BY <2>1, <2>3
<1>5. LastFired(last, cronFired)' /\ LastFired(lastTrigger["interval"], everyFired)'
  BY <1>1, <1>2, <1>3 DEF CronInv, LastFired, Never
\* The scan begins with the first minute that the last trigger leaves open.
<1>6. /\ last = Never => From(last) = 0 /\ cronFired = {}
      /\ last # Never =>
           /\ last \in cronFired /\ last \in Nat /\ \A f \in cronFired : f <= last
           /\ \A m \in Nat : m < From(last) => 2 * m <= last
           /\ \A m \in Nat : m >= From(last) => 2 * m > last \/ (2 * m = last /\ Aligned(last))
           /\ From(last) \in Nat
  <2>1. /\ last = Never => From(last) = 0
        /\ last # Never => From(last) = IF Aligned(last) THEN Minute(last) ELSE Minute(last) + 1
    BY DEF From
  <2>2. /\ Minute(last) \in Nat /\ 2 * Minute(last) <= last /\ last <= 2 * Minute(last) + 1
        /\ Aligned(last) <=> last = 2 * Minute(last)
    BY <1>2, MinuteOf
  <2>3. /\ last = Never => cronFired = {}
        /\ last # Never => last \in cronFired /\ \A f \in cronFired : f <= last
    BY DEF CronInv, LastFired
  <2> QED
    BY <1>2, <2>1, <2>2, <2>3
<1>7. Due' = Due /\ Due \subseteq Nat /\ \A t \in Nat : Aligned(t)' <=> Aligned(t)
  BY <1>1 DEF Due, Aligned
<1>8. ASSUME NEW m \in Due, 2 * m <= clock
      PROVE  \E f \in cronFired' : 2 * m <= f /\ f <= clock
  <2>1. CASE due
    BY <1>1, <1>2, <1>8, <2>1
  <2>2. CASE ~due
    <3>1. m \in Nat /\ m <= Minute(clock) /\ Minute(clock) \in Nat
      BY <1>2, <1>7, <1>8, MinuteOf
    <3>2. last # Never /\ m < From(last)
      BY <1>4, <1>6, <1>7, <2>2, <3>1
    <3>3. last \in cronFired' /\ 2 * m <= last /\ last <= clock
      BY <1>1, <1>2, <1>6, <3>1, <3>2
    <3> QED
      BY <3>3
  <2> QED
    BY <2>1, <2>2
<1>9. ASSUME NEW f \in cronFired', NEW g \in cronFired', f < g
      PROVE  \E m \in Due : 2 * m <= g /\ (f < 2 * m \/ (f = 2 * m /\ Aligned(f)))
  <2>1. CASE g \in cronFired
    <3>1. f \in cronFired
      BY <1>1, <1>2, <1>9, <2>1
    <3> QED
      BY <1>9, <2>1, <3>1 DEF CronInv, SchedulesKept
  <2>2. CASE g \notin cronFired
    <3>1. due /\ g = clock /\ f \in cronFired
      BY <1>1, <1>2, <1>9, <2>2
    <3>2. PICK k \in From(last)..Minute(clock) : k \in Due
      BY <1>4, <3>1
    <3>3. last # Never /\ k \in Nat /\ k >= From(last) /\ k <= Minute(clock)
      BY <1>6, <1>7, <3>1, <3>2
    <3>4. 2 * k <= clock
      BY <1>2, <3>3, MinuteOf
    <3>5. f \in Nat /\ f <= last /\ (2 * k > last \/ (2 * k = last /\ Aligned(last)))
      BY <1>2, <1>6, <3>1, <3>3
    <3>6. f < 2 * k \/ (f = 2 * k /\ Aligned(f))
      <4>1. CASE f = last
        BY <1>6, <3>3, <3>5, <4>1
      <4>2. CASE f # last
        BY <1>6, <3>3, <3>5, <4>2
      <4> QED
        BY <4>1, <4>2
    <3> QED
      BY <3>1, <3>2, <3>4, <3>6
  <2> QED
    BY <2>1, <2>2
<1>10. ASSUME NEW f \in everyFired', NEW g \in everyFired', f < g
       PROVE  g - f >= Every
  <2>1. CASE g \in everyFired
    <3>1. f \in everyFired
      BY <1>1, <1>2, <1>10, <2>1
    <3> QED
      BY <1>10, <2>1, <3>1 DEF CronInv, SchedulesKept
  <2>2. CASE g \notin everyFired
    <3> DEFINE lt == lastTrigger["interval"]
    <3>1. again /\ g = clock /\ f \in everyFired
      BY <1>1, <1>2, <1>10, <2>2
    <3>2. lt # Never /\ f <= lt /\ f \in Nat
      BY <1>2, <3>1 DEF CronInv, LastFired
    <3>3. clock - lt >= Every
      BY <3>1, <3>2 DEF ShouldFire
    <3> QED
      BY <1>2, <3>1, <3>2, <3>3, CronAssumption
  <2> QED
    BY <2>1, <2>2
<1>11. SchedulesKept'
  <2>1. \A f, g \in cronFired' : f < g =>
          \E m \in Due' : 2 * m <= g /\ (f < 2 * m \/ (f = 2 * m /\ Aligned(f)'))
    BY <1>1, <1>2, <1>7, <1>9
  <2> QED
    BY <1>1, <1>7, <1>8, <1>10, <2>1 DEF SchedulesKept
<1> QED
  BY <1>1, <1>2, <1>3, <1>5, <1>11 DEF CronInv

LEMMA CronInvStep == CronInv /\ [CronNext]_cronVars => CronInv'
<1> SUFFICES ASSUME CronInv, [CronNext]_cronVars PROVE CronInv'
  OBVIOUS
<1>1. CASE UNCHANGED cronVars
  BY <1>1 DEF cronVars, CronInv, LastFired, SchedulesKept, Aligned, Due
<1> QED
  BY <1>1, CronTickKeeps, CronPollsKeeps DEF CronNext

\* However late and irregular the polls are, for every set of minute fields, every
\* hour, every interval and any length of time: each minute that is due is answered
\* by the first poll after it begins, and every event but the first of a schedule
\* has a minute, or an interval, of its own (findLastMatch, CronSource.poll).
THEOREM CronKeepsSchedules == CronSpec => []SchedulesKept
<1>1. CronInv => SchedulesKept
  BY DEF CronInv
<1> QED
  BY <1>1, CronInvInit, CronInvStep, PTL DEF CronSpec

LEMMA CronTypesFollow == ASSUME CronInv PROVE CronTypeOK
<1>1. ASSUME NEW s \in Schedule PROVE lastTrigger[s] \in 0..Never
  BY <1>1, CronAssumption DEF CronInv, LastFired, Schedule, Never
<1>2. lastTrigger \in [Schedule -> 0..Never]
  BY <1>1 DEF CronInv
<1> QED
  BY <1>2 DEF CronInv, CronTypeOK

(***************************************************************************)
(* The types of the cron source's state are invariant.                     *)
(***************************************************************************)
THEOREM CronTyped == CronSpec => []CronTypeOK
BY CronTypesFollow, CronInvInit, CronInvStep, PTL DEF CronSpec
=============================================================================
