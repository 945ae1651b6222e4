---------------------------- MODULE LogRotation -----------------------------
(***************************************************************************)
(* The rotating log file (internal/logrotate/log.go).                      *)
(*                                                                         *)
(* A write that meets a new day or a full file renames the file to a dated *)
(* archive, opens a new one, compresses archives, and removes those that   *)
(* are too old or too many.  Each of these is a call of the file system    *)
(* that may fail, and the process may die between any two of them; opening *)
(* the log again archives what it finds and tidies up.                     *)
(*                                                                         *)
(* Lines are numbered; a size is a number of lines, and a compressed       *)
(* archive has the size of one.  archives is in the order of modification  *)
(* times.  A call lasts less than a day.                                   *)
(***************************************************************************)
EXTENDS Naturals, FiniteSets, Sequences, SequencesExt

CONSTANTS
    MaxLine,        \* bound: lines that are written
    MaxDay,         \* bound: days that pass
    RetentionDays,  \* logRetentionDays
    MaxFileSize,    \* logMaxFileSize
    MaxTotalSize    \* logMaxTotalSize

ASSUME LogAssumption ==
    /\ MaxLine \in Nat /\ MaxDay \in Nat
    /\ RetentionDays \in Nat \ {0}
    /\ MaxFileSize \in Nat \ {0}
    /\ MaxTotalSize \in Nat /\ MaxTotalSize >= MaxFileSize

VARIABLES
    current,   \* the file at l.path, and the day of its last write
    archives,  \* the archives beside it, by modification time
    log,       \* rotatingLog, and how far its running call has come
    today,     \* l.now
    line,      \* the last line that was passed to Write
    sound,     \* the file system has stopped failing
    acked,     \* history: lines Write has accepted
    retired,   \* history: lines that retention has removed
    lost       \* history: lines refused in a row, since sound

logVars == <<current, archives, log, today, line, sound, acked, retired, lost>>

-----------------------------------------------------------------------------

LogLines == 1..MaxLine
Days == 0..MaxDay

LogSteps == {"down", "idle", "reopen", "archive", "create",
             "compress", "expire", "excess", "append"}

Archive == [day: Days, number: Nat \ {0}, gz: BOOLEAN, lines: SUBSET LogLines]

(* writing: the running call is Write; otherwise it is Open.               *)
LogInit ==
    /\ current = [exists |-> FALSE, lines |-> {}, day |-> 0]
    /\ archives = <<>>
    /\ log = [step |-> "down", day |-> 0, file |-> FALSE, writing |-> FALSE]
    /\ today = 0
    /\ line = 0
    /\ sound = FALSE
    /\ acked = {}
    /\ retired = {}
    /\ lost = 0

Size(f) == IF f.gz THEN 1 ELSE Cardinality(f.lines)
TotalSize == FoldLeft(LAMBDA sum, f : sum + Size(f), Cardinality(current.lines), archives)

Twins(f, g) == f.day = g.day /\ f.number = g.number /\ f.gz # g.gz
Plain == {f \in Range(archives) : ~f.gz}
Stored == {f \in Plain : \E g \in Range(archives) : Twins(f, g)}
Expired == {f \in Range(archives) : f.day + RetentionDays <= today}

(* Mutant of Taken: only an uncompressed archive blocks its name.          *)
TakenByPlain(day) == {f.number : f \in {g \in Plain : g.day = day}}

(* The sequence numbers of a day's archives, compressed or not.            *)
Taken(day) == {f.number : f \in {g \in Range(archives) : g.day = day}}

(* Mutant of NextNumber: an archive with sequence number 0.                *)
NumberFromZero(day) ==
    CHOOSE n \in 0..Cardinality(Taken(day)) :
        /\ n \notin Taken(day)
        /\ \A m \in 0..(n - 1) : m \in Taken(day)

(* nextArchivePath: the first number that is free.                         *)
NextNumber(day) ==
    CHOOSE n \in 1..(Cardinality(Taken(day)) + 1) :
        /\ n \notin Taken(day)
        /\ \A m \in 1..(n - 1) : m \in Taken(day)

-----------------------------------------------------------------------------

Continue(step) == log' = [log EXCEPT !.step = step]

(* An error: Write loses its line, Open leaves the server without a log.   *)
Fail(file) ==
    /\ log' = [log EXCEPT !.step = IF log.writing THEN "idle" ELSE "down",
                          !.file = log.writing /\ file, !.writing = FALSE]
    /\ lost' = IF log.writing /\ sound THEN lost + 1 ELSE lost

Unfailing == UNCHANGED lost

(* Opening a file that is not there creates it.                            *)
Opened == current' = [current EXCEPT !.exists = TRUE]

(* What opens the log again may fail as well.                              *)
FailReopening ==
    \/ Fail(TRUE) /\ Opened
    \/ ~sound /\ Fail(FALSE) /\ UNCHANGED current

-----------------------------------------------------------------------------

(* open up to maintain; rollOverExistingFile archives what is there.       *)
Open ==
    /\ log.step = "down"
    /\ log' = [log EXCEPT !.step = IF current.lines # {} THEN "archive" ELSE "compress",
                          !.day = today]
    /\ UNCHANGED <<current, archives, today, line, sound, acked, retired, lost>>

ShouldRotate ==
    \/ today # log.day
    \/ /\ log.file
       /\ current.lines # {}
       /\ Cardinality(current.lines) + 1 > MaxFileSize

(* A file that could not be opened cannot be closed either: rollOver fails *)
(* at once, and opens it.                                                  *)
Write ==
    /\ log.step = "idle"
    /\ line < MaxLine
    /\ line' = line + 1
    /\ log' = [log EXCEPT !.writing = TRUE,
                          !.step = IF ~ShouldRotate THEN "append"
                                   ELSE IF log.file THEN "archive" ELSE "reopen"]
    /\ UNCHANGED <<current, archives, today, sound, acked, retired, lost>>

(* Mutant of CloseFailed: the error is returned as it is.                  *)
CloseFailedForGood ==
    /\ log.step = "reopen"
    /\ Fail(FALSE)
    /\ UNCHANGED <<current, archives, today, line, sound, acked, retired>>

CloseFailed ==
    /\ log.step = "reopen"
    /\ FailReopening
    /\ UNCHANGED <<archives, today, line, sound, acked, retired>>

ArchiveFile ==
    LET day == IF log.writing THEN log.day ELSE current.day IN
    /\ log.step = "archive"
    /\ \/ /\ archives' = Append(archives, [day |-> day, number |-> NextNumber(day),
                                           gz |-> FALSE, lines |-> current.lines])
          /\ current' = [exists |-> FALSE, lines |-> {}, day |-> 0]
          /\ Continue(IF log.writing THEN "create" ELSE "compress")
          /\ Unfailing
       \/ /\ ~sound
          /\ FailReopening
          /\ UNCHANGED archives
    /\ UNCHANGED <<today, line, sound, acked, retired>>

(* rollOver opens the new file before it maintains, Open opens it after.   *)
Create ==
    /\ log.step = "create"
    /\ \/ /\ Opened
          /\ log' = [log EXCEPT !.step = IF log.writing THEN "compress" ELSE "idle",
                                !.day = today, !.file = TRUE]
          /\ Unfailing
       \/ /\ ~sound
          /\ log' = [log EXCEPT !.step = IF log.writing THEN "idle" ELSE "down",
                                !.day = today, !.file = FALSE, !.writing = FALSE]
          /\ UNCHANGED <<current, lost>>
    /\ UNCHANGED <<archives, today, line, sound, acked, retired>>

(* compressLog, up to the rename of its temporary file.                    *)
Compress ==
    /\ log.step = "compress"
    /\ Stored = {}
    /\ \E f \in Plain : archives' = Append(archives, [f EXCEPT !.gz = TRUE])
    /\ UNCHANGED <<current, log, today, line, sound, acked, retired, lost>>

(* The original goes; so does the one a crash left beside its copy.        *)
RemoveOriginal ==
    /\ log.step = "compress"
    /\ \E i \in DOMAIN archives : archives[i] \in Stored /\ archives' = RemoveAt(archives, i)
    /\ UNCHANGED <<current, log, today, line, sound, acked, retired, lost>>

Retire(i) ==
    /\ archives' = RemoveAt(archives, i)
    /\ retired' = retired \cup archives[i].lines
    /\ UNCHANGED <<current, log, today, line, sound, acked, lost>>

RemoveExpired ==
    /\ log.step = "expire"
    /\ \E i \in DOMAIN archives : archives[i] \in Expired /\ Retire(i)

(* Mutant of Excessive: removal stops one archive early.                   *)
ExcessiveByMore == ~(TotalSize <= MaxTotalSize + 1)

Excessive == ~(TotalSize <= MaxTotalSize)

RemoveExcess ==
    /\ log.step = "excess"
    /\ archives # <<>>
    /\ Excessive
    /\ Retire(1)

Maintain(step, finished, next) ==
    /\ log.step = step
    /\ finished
    /\ Continue(next)
    /\ UNCHANGED <<current, archives, today, line, sound, acked, retired, lost>>

MaintainProceeds ==
    \/ Maintain("compress", Plain = {}, "expire")
    \/ Maintain("expire", Expired = {}, "excess")
    \/ Maintain("excess", archives = <<>> \/ ~Excessive,
                IF log.writing THEN "append" ELSE "create")

MaintainFails ==
    /\ log.step \in {"compress", "expire", "excess"}
    /\ ~sound
    /\ Fail(log.file)
    /\ UNCHANGED <<current, archives, today, line, sound, acked, retired>>

AppendLine ==
    /\ log.step = "append"
    /\ \/ /\ current' = [exists |-> TRUE, lines |-> current.lines \cup {line}, day |-> today]
          /\ acked' = acked \cup {line}
          /\ log' = [log EXCEPT !.step = "idle", !.file = TRUE, !.writing = FALSE]
          /\ lost' = 0
       \/ /\ ~sound
          /\ Fail(log.file)
          /\ UNCHANGED <<current, acked>>
    /\ UNCHANGED <<archives, today, line, sound, retired>>

(* The server ends, at any point.                                          *)
Stop ==
    /\ log.step # "down"
    /\ log' = [log EXCEPT !.step = "down", !.file = FALSE, !.writing = FALSE]
    /\ UNCHANGED <<current, archives, today, line, sound, acked, retired, lost>>

Midnight ==
    /\ log.step \in {"idle", "down"}
    /\ today < MaxDay
    /\ today' = today + 1
    /\ UNCHANGED <<current, archives, log, line, sound, acked, retired, lost>>

(* From here on the file system works.                                     *)
Mend ==
    /\ ~sound
    /\ sound' = TRUE
    /\ UNCHANGED <<current, archives, log, today, line, acked, retired, lost>>

LogNext ==
    \/ Open \/ Write
    \/ CloseFailed \/ ArchiveFile \/ Create
    \/ Compress \/ RemoveOriginal \/ RemoveExpired \/ RemoveExcess
    \/ MaintainProceeds \/ MaintainFails
    \/ AppendLine
    \/ Stop \/ Midnight \/ Mend

LogSpec == LogInit /\ [][LogNext]_logVars

-----------------------------------------------------------------------------
(* Properties.                                                             *)

LogTypeOK ==
    /\ current \in [exists: BOOLEAN, lines: SUBSET LogLines, day: Days]
    /\ archives \in Seq(Archive)
    /\ log \in [step: LogSteps, day: Days, file: BOOLEAN, writing: BOOLEAN]
    /\ today \in Days
    /\ line \in 0..MaxLine
    /\ sound \in BOOLEAN
    /\ acked \subseteq LogLines
    /\ retired \subseteq LogLines
    /\ lost \in Nat

OnDisk == current.lines \cup UNION {f.lines : f \in Range(archives)}

(* A line that Write accepted is in a file until retention removes it,     *)
(* whichever call failed and wherever the process died: no archive takes   *)
(* the name of another, and no original goes before its copy is complete.  *)
NothingLost == acked \ retired \subseteq OnDisk

(* Maintenance that succeeds leaves the directory as the policy wants it,  *)
(* whatever crashes and failures left behind: one compressed file per      *)
(* archive, none too old, and all together within the limit.  It is about  *)
(* archives: the temporary .log-*.gz of a compression that a crash cut     *)
(* short is outside this model, and no maintenance removes it.             *)
MaintainTidies ==
    [][log.step = "excess" /\ log'.step \in {"append", "create"} =>
        /\ Plain = {} /\ Expired = {}
        /\ \A i, j \in DOMAIN archives :
               i # j => archives[i].lines \cap archives[j].lines = {}
        /\ archives = <<>> \/ TotalSize <= MaxTotalSize]_logVars

(* When the file system works again, logging resumes after one line: no    *)
(* failure leaves the log in a state it cannot leave.                      *)
LoggingResumes == lost <= 1

(* Lines are kept through failures and crashes, and the log recovers.      *)
LinesAreKept == NothingLost /\ LoggingResumes
=============================================================================
