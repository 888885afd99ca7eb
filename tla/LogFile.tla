-------------------------------- MODULE LogFile --------------------------------
(***************************************************************************)
(* The file logger: loggers/file/src/file-logger.ts and rotation.ts.       *)
(* flush() runs for the interval timer, for a full buffer and for          *)
(* shutdown(), and nothing keeps two of them apart: each takes what the    *)
(* buffer holds, appends it, and rotates the file when it is large.        *)
(***************************************************************************)
EXTENDS Naturals, FiniteSets

CONSTANTS Flush,       \* calls of flush()
          MaxEntries,  \* entries that are logged, the bound
          Stamp,       \* values of the clock, in milliseconds
          MaxSize,     \* rotation.maxSize, in entries
          MaxFiles,    \* rotation.maxFiles
          Compress     \* rotation.compress

ASSUME LogAssumption == {MaxEntries, MaxSize, MaxFiles} \subseteq Nat /\ Compress \in BOOLEAN

VARIABLES
  logged,    \* entries so far
  lines,     \* entries in this.buffer
  flushPc,   \* where each call is
  batch,     \* entries it took
  nameOf,    \* the name of the file it rotates
  doomed,    \* the rotated files it will delete
  size,      \* entries in the log file
  logThere,  \* is there a log file?
  rotated    \* rotated files

logVars == <<logged, lines, flushPc, batch, nameOf, doomed, size, logThere, rotated>>
disk == <<size, logThere, rotated>>

Name == [stamp : Stamp, gz : BOOLEAN]
Rotating == {"rename", "compress", "unlink", "list", "clean"}

LogTypeOK ==
  /\ {logged, lines, size} \subseteq 0..MaxEntries
  /\ flushPc \in [Flush -> {"idle", "append", "stat"} \cup Rotating]
  /\ batch \in [Flush -> 0..MaxEntries]
  /\ nameOf \in [Flush -> Name]
  /\ doomed \in [Flush -> SUBSET Name]
  /\ logThere \in BOOLEAN
  /\ rotated \subseteq Name

\* init() has created the file.
LogInit ==
  /\ logged = 0 /\ lines = 0
  /\ flushPc = [f \in Flush |-> "idle"]
  /\ batch = [f \in Flush |-> 0]
  /\ \E t \in Stamp : nameOf = [f \in Flush |-> [stamp |-> t, gz |-> FALSE]]
  /\ doomed = [f \in Flush |-> {}]
  /\ size = 0 /\ logThere = TRUE
  /\ rotated = {}

At(f, pc) == flushPc[f] = pc
Goes(f, pc) == flushPc' = [flushPc EXCEPT ![f] = pc]

-----------------------------------------------------------------------------
(* log() and flush().                                                      *)

LogEntry ==
  /\ logged < MaxEntries
  /\ logged' = logged + 1
  /\ lines' = lines + 1
  /\ UNCHANGED <<flushPc, batch, nameOf, doomed, disk>>

Takes(f) ==
  /\ At(f, "idle") /\ lines > 0
  /\ batch' = [batch EXCEPT ![f] = lines]
  /\ lines' = 0
  /\ Goes(f, "append")
  /\ UNCHANGED <<logged, nameOf, doomed, disk>>

\* To the log, which is created if need be; to the file that another call
\* has just renamed; or, "Loggers must not throw", nowhere.
Appends(f) ==
  /\ At(f, "append")
  /\ batch' = [batch EXCEPT ![f] = 0]
  /\ \/ logThere' = TRUE /\ size' = size + batch[f] /\ Goes(f, "stat")
     \/ UNCHANGED <<logThere, size>> /\ (Goes(f, "stat") \/ Goes(f, "idle"))
  /\ UNCHANGED <<logged, lines, nameOf, doomed, rotated>>

-----------------------------------------------------------------------------
(* needsRotation() and rotateFile().  The time in the name is read before  *)
(* the renaming; a file of the same millisecond is replaced.               *)

Stats(f) ==
  /\ At(f, "stat")
  /\ \E t \in Stamp : nameOf' = [nameOf EXCEPT ![f] = [stamp |-> t, gz |-> FALSE]]
  /\ Goes(f, IF logThere /\ size >= MaxSize THEN "rename" ELSE "idle")
  /\ UNCHANGED <<logged, lines, batch, doomed, disk>>

Renames(f) ==
  /\ At(f, "rename")
  /\ IF ~logThere
     THEN Goes(f, "idle") /\ UNCHANGED disk
     ELSE /\ rotated' = rotated \cup {nameOf[f]}
          /\ logThere' = FALSE
          /\ size' = 0
          /\ Goes(f, IF Compress THEN "compress" ELSE "list")
  /\ UNCHANGED <<logged, lines, batch, nameOf, doomed>>

\* The compressed file appears beside the raw one, which is deleted in the
\* end.  Any of this may fail, which leaves what there is.
Compresses(f) ==
  /\ At(f, "compress")
  /\ rotated' = rotated \cup {[nameOf[f] EXCEPT !.gz = TRUE]}
  /\ Goes(f, "unlink")
  /\ UNCHANGED <<logged, lines, batch, nameOf, doomed, size, logThere>>

Unlinks(f) ==
  /\ At(f, "unlink")
  /\ rotated' = rotated \ {nameOf[f]}
  /\ Goes(f, "list")
  /\ UNCHANGED <<logged, lines, batch, nameOf, doomed, size, logThere>>

CompressFails(f) ==
  /\ At(f, "compress") \/ At(f, "unlink")
  /\ Goes(f, "list")
  /\ UNCHANGED <<logged, lines, batch, nameOf, doomed, disk>>

-----------------------------------------------------------------------------
(* cleanupOldFiles(): the newest MaxFiles of the files it has listed stay, *)
(* unless they are too old.  Which are the newest is left open.            *)

\* Fault: one file too many stays.
NewestAndOne(kept) ==
  Cardinality(kept) <= MaxFiles + 1 /\ (Cardinality(kept) <= MaxFiles => kept = rotated)
Newest(kept) ==
  Cardinality(kept) <= MaxFiles /\ (Cardinality(kept) < MaxFiles => kept = rotated)

Lists(f) ==
  /\ At(f, "list")
  /\ \E kept \in SUBSET rotated : \E expired \in SUBSET kept :
       /\ Newest(kept)
       /\ doomed' = [doomed EXCEPT ![f] = (rotated \ kept) \cup expired]
  /\ Goes(f, "clean")
  /\ UNCHANGED <<logged, lines, batch, nameOf, disk>>

Cleans(f) ==
  /\ At(f, "clean")
  /\ rotated' = rotated \ doomed[f]
  /\ doomed' = [doomed EXCEPT ![f] = {}]
  /\ Goes(f, "idle")
  /\ UNCHANGED <<logged, lines, batch, nameOf, size, logThere>>

LogNext ==
  \/ LogEntry
  \/ \E f \in Flush :
       \/ Takes(f) \/ Appends(f) \/ Stats(f) \/ Renames(f) \/ Compresses(f)
       \/ Unlinks(f) \/ CompressFails(f) \/ Lists(f) \/ Cleans(f)

LogSpec == LogInit /\ [][LogNext]_logVars

-----------------------------------------------------------------------------
(***************************************************************************)
(* However the rotations overlap, when none is under way at most           *)
(* rotation.max_files rotated files are left, raw or compressed: the last  *)
(* call to list them has seen all that are left (cleanupOldFiles).         *)
(***************************************************************************)
RotatedBounded ==
  (\A f \in Flush : flushPc[f] \notin Rotating) => Cardinality(rotated) <= MaxFiles
=============================================================================
