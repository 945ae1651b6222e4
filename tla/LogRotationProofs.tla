-------------------------- MODULE LogRotationProofs --------------------------
(***************************************************************************)
(* Theorems about LogRotation, for any number of lines and days and any    *)
(* limits: no failure and no crash costs an accepted line, a log that      *)
(* could not be opened recovers, and maintenance leaves what it promises.  *)
(***************************************************************************)
EXTENDS LogRotation, FiniteSetTheorems, SequenceTheorems, WellFoundedInduction, TLAPS

(* Two archives have one name, but for the ending of a compressed one.     *)
Named(i, j) == archives[i].day = archives[j].day /\ archives[i].number = archives[j].number

(* A file is recognised by its name: a copy holds what its original holds, *)
(* and no line is in two files otherwise.                                  *)
Names ==
    /\ \A i, j \in DOMAIN archives : i # j /\ Named(i, j) => archives[i].gz # archives[j].gz
    /\ \A i, j \in DOMAIN archives :
          /\ Named(i, j) => archives[i].lines = archives[j].lines
          /\ ~Named(i, j) => archives[i].lines \cap archives[j].lines = {}
    /\ \A i \in DOMAIN archives : archives[i].lines \cap current.lines = {}

(* The line that is being written is the last one, and in no file yet.     *)
Numbered ==
    /\ OnDisk \subseteq 1..line
    /\ log.writing => line \in LogLines /\ line \notin OnDisk

(* The steps that only Write takes, and what maintenance has done so far.  *)
Course ==
    /\ log.step \in {"down", "idle"} => ~log.writing
    /\ log.step = "append" => log.writing
    /\ log.step = "reopen" => log.writing /\ ~log.file
    /\ log.step \in {"expire", "excess"} => Plain = {}
    /\ log.step = "excess" => Expired = {}

(* A line that was refused on a sound file system leaves the log open, or  *)
(* the server has been restarted since.                                    *)
Recovery ==
    /\ lost \in {0, 1}
    /\ lost = 1 => sound /\ (log.file \/ (log.step # "idle" /\ ~log.writing))

LogInv == LogTypeOK /\ Names /\ Numbered /\ Course /\ Recovery /\ NothingLost

------------------------------------------------------------------------------
(* Sequences of archives, and the number of a new one.                     *)

LEMMA Positions ==
    ASSUME NEW S, NEW s \in Seq(S)
    PROVE  /\ DOMAIN s = 1..Len(s) /\ Len(s) \in Nat
           /\ \A i \in DOMAIN s : s[i] \in S /\ s[i] \in Range(s)
           /\ \A x \in Range(s) : x \in S /\ \E i \in DOMAIN s : s[i] = x
BY DEF Range

(* RemoveAt closes the gap.                                                *)
LEMMA Removing ==
    ASSUME NEW S, NEW s \in Seq(S), NEW i \in DOMAIN s
    PROVE  /\ RemoveAt(s, i) \in Seq(S)
           /\ DOMAIN RemoveAt(s, i) = 1..(Len(s) - 1)
           /\ \A j \in 1..(Len(s) - 1) :
                 RemoveAt(s, i)[j] = s[IF j < i THEN j ELSE j + 1]
<1> DEFINE before == SubSeq(s, 1, i - 1)
           after == SubSeq(s, i + 1, Len(s))
<1>1. DOMAIN s = 1..Len(s) /\ Len(s) \in Nat /\ i \in 1..Len(s)
  BY Positions
<1>2. /\ before \in Seq(S) /\ Len(before) = i - 1
      /\ \A j \in 1..(i - 1) : before[j] = s[j]
  <2>1. \A j \in 1..(i - 1) : s[j] \in S
    BY <1>1
  <2>2. /\ before \in Seq(S)
        /\ Len(before) = IF 1 <= i - 1 THEN (i - 1) - 1 + 1 ELSE 0
        /\ \A j \in 1..((i - 1) - 1 + 1) : before[j] = s[1 + j - 1]
    BY <1>1, <2>1, SubSeqProperties
  <2> QED
    BY <1>1, <2>2
<1>3. /\ after \in Seq(S) /\ Len(after) = Len(s) - i
      /\ \A j \in 1..(Len(s) - i) : after[j] = s[i + j]
  <2>1. \A j \in (i + 1)..Len(s) : s[j] \in S
    BY <1>1
  <2>2. /\ after \in Seq(S)
        /\ Len(after) = IF i + 1 <= Len(s) THEN Len(s) - (i + 1) + 1 ELSE 0
        /\ \A j \in 1..(Len(s) - (i + 1) + 1) : after[j] = s[(i + 1) + j - 1]
    BY <1>1, <2>1, SubSeqProperties
  <2> QED
    BY <1>1, <2>2
<1> HIDE DEF before, after
<1>4. /\ before \o after \in Seq(S)
      /\ Len(before \o after) = Len(before) + Len(after)
      /\ \A j \in 1..(Len(before) + Len(after)) :
            (before \o after)[j] = IF j <= Len(before) THEN before[j]
                                   ELSE after[j - Len(before)]
  BY <1>2, <1>3, ConcatProperties
<1>5. DOMAIN (before \o after) = 1..(Len(s) - 1)
  <2>1. Len(before \o after) = Len(s) - 1
    BY <1>1, <1>2, <1>3, <1>4
  <2>2. DOMAIN (before \o after) = 1..Len(before \o after)
    BY <1>4
  <2> QED
    BY <2>1, <2>2
<1>6. ASSUME NEW j \in 1..(Len(s) - 1)
      PROVE  (before \o after)[j] = s[IF j < i THEN j ELSE j + 1]
  <2>1. (before \o after)[j] = IF j <= i - 1 THEN before[j] ELSE after[j - (i - 1)]
    BY <1>1, <1>2, <1>3, <1>4
  <2>2. CASE j < i
    BY <1>1, <1>2, <2>1, <2>2
  <2>3. CASE ~(j < i)
    <3>1. j - (i - 1) \in 1..(Len(s) - i)
      BY <1>1, <2>3
    <3>2. after[j - (i - 1)] = s[i + (j - (i - 1))] /\ i + (j - (i - 1)) = j + 1
      BY <1>1, <1>3, <3>1
    <3> QED
      BY <1>1, <2>1, <2>3, <3>2
  <2> QED
    BY <2>2, <2>3
<1> QED
  BY <1>4, <1>5, <1>6 DEF RemoveAt, before, after

LEMMA SmallestNumber ==
    ASSUME NEW S \in SUBSET Nat, S # {}
    PROVE  \E t \in S : \A u \in S : t <= u
<1> DEFINE R == {ss \in Nat \X Nat : ss[1] < ss[2]}
<1>1. IsWellFoundedOn(R, Nat)
  BY NatLessThanWellFounded, Zenon DEF OpToRel
<1>2. \A u, t \in Nat : <<u, t>> \notin R => t <= u
  OBVIOUS
<1> HIDE DEF R
<1>3. \E t \in S : \A u \in S : ~(<<u, t>> \in R)
  <2>1. S \subseteq Nat /\ S # {}
    OBVIOUS
  <2> QED
    BY <1>1, <2>1, WFMin
<1> QED
  BY <1>2, <1>3

LEMMA TakenIsFinite ==
    ASSUME LogTypeOK, NEW day
    PROVE  IsFiniteSet(Taken(day)) /\ Cardinality(Taken(day)) \in Nat
<1> DEFINE P == {i \in DOMAIN archives : archives[i].day = day}
           f == [i \in P |-> archives[i].number]
<1>1. DOMAIN archives = 1..Len(archives) /\ Len(archives) \in Nat
  BY Positions DEF LogTypeOK
<1>2. IsFiniteSet(P)
  <2>1. IsFiniteSet(1..Len(archives))
    BY <1>1, FS_Interval
  <2>2. P \in SUBSET (1..Len(archives))
    BY <1>1
  <2> HIDE DEF P
  <2> QED
    BY <2>1, <2>2, FS_Subset
<1>3. f \in Surjection(P, Taken(day))
  <2>1. ASSUME NEW i \in P PROVE f[i] \in Taken(day)
    BY DEF Taken, Range
  <2>2. ASSUME NEW n \in Taken(day) PROVE \E i \in P : f[i] = n
    BY DEF Taken, Range
  <2> QED
    BY <2>1, <2>2 DEF Surjection
<1> HIDE DEF f, P
<1> QED
  BY <1>2, <1>3, FS_Surjection, FS_CardinalityType

(* nextArchivePath finds a free number: a day has fewer archives than the  *)
(* numbers it looks at.                                                    *)
LEMMA FreeNumber ==
    ASSUME LogTypeOK, NEW day
    PROVE  NextNumber(day) \in Nat \ {0} /\ NextNumber(day) \notin Taken(day)
<1> DEFINE top == Cardinality(Taken(day)) + 1
           Free == {n \in 1..top : n \notin Taken(day)}
<1>1. IsFiniteSet(Taken(day)) /\ Cardinality(Taken(day)) \in Nat
  BY TakenIsFinite
<1>2. Free # {}
  <2>1. SUFFICES ASSUME Free = {} PROVE FALSE
    OBVIOUS
  <2>2. 1..top \subseteq Taken(day)
    BY <2>1
  <2>3. Cardinality(1..top) = top
    BY <1>1, FS_Interval
  <2> QED
    BY <1>1, <2>2, <2>3, FS_Subset
<1>3. Free \in SUBSET Nat
  BY <1>1
<1>4. PICK n \in Free : \A m \in Free : n <= m
  BY <1>2, <1>3, SmallestNumber
<1>5. /\ n \in 1..top /\ n \notin Taken(day)
      /\ \A m \in 1..(n - 1) : m \in Taken(day)
  BY <1>1, <1>4
<1> QED
  BY <1>1, <1>5 DEF NextNumber

------------------------------------------------------------------------------
(* What a step does to the files.                                          *)

FilesStay ==
    /\ archives' = archives /\ current'.lines = current.lines
    /\ UNCHANGED <<acked, retired>>

FileArchived ==
    \E day \in Days :
        /\ archives' = Append(archives, [day |-> day, number |-> NextNumber(day),
                                         gz |-> FALSE, lines |-> current.lines])
        /\ current'.lines = {}
        /\ UNCHANGED <<acked, retired, line, today>>

ArchiveRetired == \E i \in DOMAIN archives : Retire(i)

LineAppended ==
    /\ log.step = "append"
    /\ archives' = archives
    /\ current'.lines = current.lines \cup {line}
    /\ acked' = acked \cup {line}
    /\ ~log'.writing
    /\ UNCHANGED <<retired, line>>

LEMMA Moves ==
    ASSUME LogTypeOK, [LogNext]_logVars
    PROVE  \/ FilesStay \/ FileArchived \/ Compress \/ RemoveOriginal
           \/ ArchiveRetired \/ LineAppended
<1>1. current \in [exists: BOOLEAN, lines: SUBSET LogLines, day: Days]
      /\ log \in [step: LogSteps, day: Days, file: BOOLEAN, writing: BOOLEAN]
  BY DEF LogTypeOK
<1>2. CASE Open \/ Write \/ MaintainProceeds \/ MaintainFails \/ Stop \/ Midnight \/ Mend
  BY <1>2 DEF Open, Write, MaintainProceeds, Maintain, MaintainFails, Stop, Midnight, Mend,
              FilesStay
<1>3. CASE CloseFailed
  BY <1>1, <1>3 DEF CloseFailed, FailReopening, Opened, FilesStay
<1>4. CASE ArchiveFile
  <2> DEFINE day == IF log.writing THEN log.day ELSE current.day
  <2>1. day \in Days
    BY <1>1
  <2>2. CASE /\ archives' = Append(archives, [day |-> day, number |-> NextNumber(day),
                                              gz |-> FALSE, lines |-> current.lines])
             /\ current' = [exists |-> FALSE, lines |-> {}, day |-> 0]
    <3>1. current'.lines = {} /\ UNCHANGED <<acked, retired, line, today>>
      BY <1>4, <2>2 DEF ArchiveFile
    <3> QED
      BY <2>1, <2>2, <3>1 DEF FileArchived
  <2>3. CASE FailReopening /\ UNCHANGED archives
    BY <1>1, <1>4, <2>3 DEF ArchiveFile, FailReopening, Opened, FilesStay
  <2> QED
    BY <1>4, <2>2, <2>3 DEF ArchiveFile
<1>5. CASE Create
  BY <1>1, <1>5 DEF Create, Opened, FilesStay
<1>6. CASE Compress \/ RemoveOriginal
  BY <1>6
<1>7. CASE RemoveExpired
  BY <1>7 DEF RemoveExpired, ArchiveRetired
<1>8. CASE RemoveExcess
  <2>1. 1 \in DOMAIN archives
    BY <1>8, Positions, EmptySeq DEF LogTypeOK, RemoveExcess
  <2> QED
    BY <1>8, <2>1 DEF RemoveExcess, ArchiveRetired
<1>9. CASE AppendLine
  <2>1. CASE UNCHANGED <<current, acked>>
    BY <1>9, <2>1 DEF AppendLine, FilesStay
  <2>2. CASE /\ current' = [exists |-> TRUE, lines |-> current.lines \cup {line}, day |-> today]
             /\ acked' = acked \cup {line}
             /\ log' = [log EXCEPT !.step = "idle", !.file = TRUE, !.writing = FALSE]
    <3>1. current'.lines = current.lines \cup {line} /\ ~log'.writing
      BY <1>1, <2>2
    <3> QED
      BY <1>9, <2>2, <3>1 DEF AppendLine, LineAppended
  <2> QED
    BY <1>9, <2>1, <2>2 DEF AppendLine
<1>10. CASE UNCHANGED logVars
  BY <1>10 DEF logVars, FilesStay
<1> QED
  BY <1>2, <1>3, <1>4, <1>5, <1>6, <1>7, <1>8, <1>9, <1>10 DEF LogNext

(* The archives stay well-typed.                                           *)
LEMMA ArchivesStep ==
    ASSUME LogTypeOK, [LogNext]_logVars
    PROVE  archives' \in Seq(Archive)
<1>1. archives \in Seq(Archive) /\ current.lines \subseteq LogLines
  BY DEF LogTypeOK
<1>2. CASE FilesStay \/ LineAppended
  BY <1>1, <1>2 DEF FilesStay, LineAppended
<1>3. CASE FileArchived
  <2>1. PICK day \in Days :
           archives' = Append(archives, [day |-> day, number |-> NextNumber(day),
                                         gz |-> FALSE, lines |-> current.lines])
    BY <1>3 DEF FileArchived
  <2>2. [day |-> day, number |-> NextNumber(day), gz |-> FALSE, lines |-> current.lines]
           \in Archive
    BY <1>1, FreeNumber DEF Archive
  <2> QED
    BY <1>1, <2>1, <2>2, AppendProperties
<1>4. CASE Compress
  <2>1. PICK f \in Plain : archives' = Append(archives, [f EXCEPT !.gz = TRUE])
    BY <1>4 DEF Compress
  <2>2. f \in Archive
    BY <1>1, Positions DEF Plain
  <2>3. [f EXCEPT !.gz = TRUE] \in Archive
    BY <2>2 DEF Archive
  <2> QED
    BY <1>1, <2>1, <2>3, AppendProperties
<1>5. CASE RemoveOriginal
  BY <1>1, <1>5, Removing DEF RemoveOriginal
<1>6. CASE ArchiveRetired
  BY <1>1, <1>6, Removing DEF ArchiveRetired, Retire
<1> QED
  BY <1>2, <1>3, <1>4, <1>5, <1>6, Moves

------------------------------------------------------------------------------
(* Names, and the lines on disk.                                           *)

LEMMA OnDiskIs ==
    ASSUME LogTypeOK, NEW x
    PROVE  x \in OnDisk <=>
               x \in current.lines \/ \E i \in DOMAIN archives : x \in archives[i].lines
BY DEF OnDisk, Range

(* Removing an archive disturbs no other.                                  *)
LEMMA NamesAfterRemoval ==
    ASSUME LogTypeOK, Names, NEW i \in DOMAIN archives,
           archives' = RemoveAt(archives, i), current'.lines = current.lines
    PROVE  Names'
<1> DEFINE old(j) == IF j < i THEN j ELSE j + 1
<1>1. archives \in Seq(Archive) /\ DOMAIN archives = 1..Len(archives)
      /\ Len(archives) \in Nat /\ i \in 1..Len(archives)
  BY Positions DEF LogTypeOK
<1>2. /\ DOMAIN archives' = 1..(Len(archives) - 1)
      /\ \A j \in DOMAIN archives' : archives'[j] = archives[old(j)]
  BY <1>1, Removing
<1>3. /\ \A j \in DOMAIN archives' : old(j) \in DOMAIN archives
      /\ \A j, k \in DOMAIN archives' : j # k => old(j) # old(k)
  BY <1>1, <1>2
<1> HIDE DEF old
<1>4. ASSUME NEW j \in DOMAIN archives', NEW k \in DOMAIN archives'
      PROVE  /\ Named(j, k)' <=> Named(old(j), old(k))
             /\ archives'[j] = archives[old(j)] /\ archives'[k] = archives[old(k)]
             /\ old(j) \in DOMAIN archives /\ old(k) \in DOMAIN archives
             /\ j # k => old(j) # old(k)
  BY <1>2, <1>3 DEF Named
<1> QED
  BY <1>4 DEF Names

(* An archive with a name of its own, and with the lines of the file.      *)
LEMMA NamesAfterArchiving ==
    ASSUME LogTypeOK, Names, FileArchived
    PROVE  Names'
<1>1. archives \in Seq(Archive) /\ DOMAIN archives = 1..Len(archives) /\ Len(archives) \in Nat
      /\ current.lines \subseteq LogLines
  BY Positions DEF LogTypeOK
<1>2. PICK day \in Days :
         /\ archives' = Append(archives, [day |-> day, number |-> NextNumber(day),
                                          gz |-> FALSE, lines |-> current.lines])
         /\ current'.lines = {}
  BY DEF FileArchived
<1> DEFINE f == [day |-> day, number |-> NextNumber(day), gz |-> FALSE, lines |-> current.lines]
           n == Len(archives) + 1
<1>3. NextNumber(day) \in Nat \ {0} /\ NextNumber(day) \notin Taken(day)
  BY FreeNumber
<1>4. f \in Archive
  BY <1>1, <1>3 DEF Archive
<1>5. f.day = day /\ f.number = NextNumber(day) /\ f.lines = current.lines
  OBVIOUS
<1> HIDE DEF f
<1>6. /\ DOMAIN archives' = 1..n /\ archives'[n] = f
      /\ \A j \in DOMAIN archives : archives'[j] = archives[j]
  <2>1. /\ Append(archives, f) \in Seq(Archive) /\ Len(Append(archives, f)) = n
        /\ \A j \in 1..Len(archives) : Append(archives, f)[j] = archives[j]
        /\ Append(archives, f)[n] = f
    BY <1>1, <1>4, AppendProperties
  <2> QED
    BY <1>1, <1>2, <2>1 DEF f
<1>7. \A j \in DOMAIN archives :
         ~(archives[j].day = f.day /\ archives[j].number = f.number)
  BY <1>3, <1>5 DEF Taken, Range
<1>8. ASSUME NEW j \in DOMAIN archives'
      PROVE  j = n \/ j \in DOMAIN archives
  BY <1>1, <1>6
<1>9. n \notin DOMAIN archives
  BY <1>1
<1> HIDE DEF n
<1>10. \A j \in DOMAIN archives : archives[j].lines \cap f.lines = {}
  BY <1>5 DEF Names
<1>11. ASSUME NEW j \in DOMAIN archives', NEW k \in DOMAIN archives'
       PROVE  /\ j # k /\ Named(j, k)' => archives'[j].gz # archives'[k].gz
              /\ Named(j, k)' => archives'[j].lines = archives'[k].lines
              /\ ~Named(j, k)' => archives'[j].lines \cap archives'[k].lines = {}
  <2>1. CASE j = n /\ k = n
    BY <2>1 DEF Named
  <2>2. CASE j = n /\ k \in DOMAIN archives
    <3>1. archives'[j] = f /\ archives'[k] = archives[k]
      BY <1>6, <2>2
    <3>2. ~Named(j, k)'
      BY <1>7, <2>2, <3>1 DEF Named
    <3> QED
      BY <1>10, <2>2, <3>1, <3>2
  <2>3. CASE k = n /\ j \in DOMAIN archives
    <3>1. archives'[k] = f /\ archives'[j] = archives[j]
      BY <1>6, <2>3
    <3>2. ~Named(j, k)'
      BY <1>7, <2>3, <3>1 DEF Named
    <3> QED
      BY <1>10, <2>3, <3>1, <3>2
  <2>4. CASE j \in DOMAIN archives /\ k \in DOMAIN archives
    <3>1. archives'[j] = archives[j] /\ archives'[k] = archives[k]
      BY <1>6, <2>4
    <3> QED
      BY <2>4, <3>1 DEF Names, Named
  <2> QED
    BY <1>8, <2>1, <2>2, <2>3, <2>4
<1>12. \A j \in DOMAIN archives' : archives'[j].lines \cap current'.lines = {}
  BY <1>2
<1> QED
  BY <1>11, <1>12 DEF Names

(* A copy has the name of its original alone, since no archive has a copy. *)
LEMMA NamesAfterCopying ==
    ASSUME LogTypeOK, Names, Compress
    PROVE  Names'
<1>1. archives \in Seq(Archive) /\ DOMAIN archives = 1..Len(archives) /\ Len(archives) \in Nat
  BY Positions DEF LogTypeOK
<1>2. PICK k0 \in DOMAIN archives :
         /\ ~archives[k0].gz
         /\ archives' = Append(archives, [archives[k0] EXCEPT !.gz = TRUE])
  <2>1. PICK f \in Plain : archives' = Append(archives, [f EXCEPT !.gz = TRUE])
    BY DEF Compress
  <2>2. f \in Range(archives) /\ ~f.gz
    BY DEF Plain
  <2>3. PICK k \in DOMAIN archives : archives[k] = f
    BY <1>1, <2>2, Positions
  <2> QED
    BY <2>1, <2>2, <2>3
<1> DEFINE f == [archives[k0] EXCEPT !.gz = TRUE]
           n == Len(archives) + 1
<1>3. archives[k0] \in Archive
  BY <1>1
<1>4. /\ f \in Archive /\ f.day = archives[k0].day /\ f.number = archives[k0].number
      /\ f.gz = TRUE /\ f.lines = archives[k0].lines
  BY <1>3 DEF Archive
<1> HIDE DEF f
<1>5. /\ DOMAIN archives' = 1..n /\ archives'[n] = f
      /\ \A j \in DOMAIN archives : archives'[j] = archives[j]
  <2>1. /\ Append(archives, f) \in Seq(Archive) /\ Len(Append(archives, f)) = n
        /\ \A j \in 1..Len(archives) : Append(archives, f)[j] = archives[j]
        /\ Append(archives, f)[n] = f
    BY <1>1, <1>4, AppendProperties
  <2> QED
    BY <1>1, <1>2, <2>1 DEF f
<1>6. ASSUME NEW j \in DOMAIN archives, Named(j, k0)
      PROVE  j = k0
  <2>1. SUFFICES ASSUME j # k0 PROVE FALSE
    OBVIOUS
  <2>2. archives[j].gz # archives[k0].gz
    BY <1>6, <2>1 DEF Names
  <2>3. archives[k0] \in Stored
    BY <1>2, <1>6, <2>2, Positions DEF Stored, Plain, Range, Twins, Named
  <2> QED
    BY <2>3 DEF Compress
<1>7. ASSUME NEW j \in DOMAIN archives'
      PROVE  j = n \/ j \in DOMAIN archives
  BY <1>1, <1>5
<1>8. n \notin DOMAIN archives /\ n \in DOMAIN archives'
  BY <1>1, <1>5
<1>9. current'.lines = current.lines
  BY DEF Compress
<1> HIDE DEF n
<1>10. ASSUME NEW j \in DOMAIN archives
       PROVE  /\ (archives[j].day = f.day /\ archives[j].number = f.number) =>
                    archives[j].gz # f.gz /\ archives[j].lines = f.lines
              /\ ~(archives[j].day = f.day /\ archives[j].number = f.number) =>
                    archives[j].lines \cap f.lines = {}
  BY <1>2, <1>4, <1>6 DEF Names, Named
<1>11. ASSUME NEW j \in DOMAIN archives', NEW k \in DOMAIN archives'
       PROVE  /\ j # k /\ Named(j, k)' => archives'[j].gz # archives'[k].gz
              /\ Named(j, k)' => archives'[j].lines = archives'[k].lines
              /\ ~Named(j, k)' => archives'[j].lines \cap archives'[k].lines = {}
  <2>1. CASE j = n /\ k = n
    BY <2>1 DEF Named
  <2>2. CASE j = n /\ k \in DOMAIN archives
    <3>1. archives'[j] = f /\ archives'[k] = archives[k]
      BY <1>5, <2>2
    <3> QED
      BY <1>10, <2>2, <3>1 DEF Named
  <2>3. CASE k = n /\ j \in DOMAIN archives
    <3>1. archives'[k] = f /\ archives'[j] = archives[j]
      BY <1>5, <2>3
    <3> QED
      BY <1>10, <2>3, <3>1 DEF Named
  <2>4. CASE j \in DOMAIN archives /\ k \in DOMAIN archives
    <3>1. archives'[j] = archives[j] /\ archives'[k] = archives[k]
      BY <1>5, <2>4
    <3> QED
      BY <2>4, <3>1 DEF Names, Named
  <2> QED
    BY <1>7, <2>1, <2>2, <2>3, <2>4
<1>12. ASSUME NEW j \in DOMAIN archives'
       PROVE  archives'[j].lines \cap current'.lines = {}
  <2>1. archives[k0].lines \cap current.lines = {}
    BY <1>2 DEF Names
  <2>2. CASE j = n
    BY <1>4, <1>5, <1>9, <2>1, <2>2
  <2>3. CASE j \in DOMAIN archives
    BY <1>5, <1>9, <2>3 DEF Names
  <2> QED
    BY <1>7, <2>2, <2>3
<1> QED
  BY <1>11, <1>12 DEF Names

LEMMA NamesStep ==
    ASSUME LogTypeOK, Names, Numbered, Course, [LogNext]_logVars
    PROVE  Names'
<1>1. CASE FilesStay
  BY <1>1 DEF FilesStay, Names, Named
<1>2. CASE FileArchived \/ Compress
  BY <1>2, NamesAfterArchiving, NamesAfterCopying
<1>3. CASE RemoveOriginal
  BY <1>3, NamesAfterRemoval DEF RemoveOriginal
<1>4. CASE ArchiveRetired
  BY <1>4, NamesAfterRemoval DEF ArchiveRetired, Retire
<1>5. CASE LineAppended
  <2>1. line \notin OnDisk
    BY <1>5 DEF LineAppended, Course, Numbered
  <2>2. \A i \in DOMAIN archives : line \notin archives[i].lines
    BY <2>1, OnDiskIs
  <2> QED
    BY <1>5, <2>2 DEF LineAppended, Names, Named
<1> QED
  BY <1>1, <1>2, <1>3, <1>4, <1>5, Moves

(* An archive more: what it holds is on disk, and nothing else is new.     *)
LEMMA LinesAfterAppending ==
    ASSUME LogTypeOK, NEW f \in Archive, archives' = Append(archives, f), NEW x
    PROVE  x \in OnDisk' <=> \/ x \in current'.lines \/ x \in f.lines
                             \/ \E i \in DOMAIN archives : x \in archives[i].lines
<1>1. archives \in Seq(Archive) /\ DOMAIN archives = 1..Len(archives) /\ Len(archives) \in Nat
  BY Positions DEF LogTypeOK
<1> DEFINE n == Len(archives) + 1
<1>2. /\ DOMAIN archives' = 1..n /\ archives'[n] = f
      /\ \A j \in DOMAIN archives : archives'[j] = archives[j]
  BY <1>1, AppendProperties
<1>3. /\ n \in DOMAIN archives' /\ DOMAIN archives \subseteq DOMAIN archives'
      /\ \A j \in DOMAIN archives' : j = n \/ j \in DOMAIN archives
  BY <1>1, <1>2
<1> HIDE DEF n
<1>4. x \in OnDisk' <=>
          x \in current'.lines \/ \E i \in DOMAIN archives' : x \in archives'[i].lines
  BY DEF OnDisk, Range
<1> QED
  BY <1>2, <1>3, <1>4

(* An archive less: what only it held is gone, and nothing else.           *)
LEMMA LinesAfterRemoval ==
    ASSUME LogTypeOK, NEW i \in DOMAIN archives,
           archives' = RemoveAt(archives, i), NEW x
    PROVE  x \in OnDisk' <=> \/ x \in current'.lines
                             \/ \E j \in DOMAIN archives : j # i /\ x \in archives[j].lines
<1> DEFINE old(j) == IF j < i THEN j ELSE j + 1
           new(j) == IF j < i THEN j ELSE j - 1
<1>1. archives \in Seq(Archive) /\ DOMAIN archives = 1..Len(archives)
      /\ Len(archives) \in Nat /\ i \in 1..Len(archives)
  BY Positions DEF LogTypeOK
<1>2. /\ DOMAIN archives' = 1..(Len(archives) - 1)
      /\ \A j \in DOMAIN archives' : archives'[j] = archives[old(j)]
  BY <1>1, Removing
<1>3. /\ \A j \in DOMAIN archives' : old(j) \in DOMAIN archives /\ old(j) # i
      /\ \A j \in DOMAIN archives : j # i => new(j) \in DOMAIN archives' /\ old(new(j)) = j
  BY <1>1, <1>2
<1> HIDE DEF old, new
<1>4. x \in OnDisk' <=>
          x \in current'.lines \/ \E j \in DOMAIN archives' : x \in archives'[j].lines
  BY DEF OnDisk, Range
<1> QED
  BY <1>2, <1>3, <1>4

(* Archiving, copying and removing an original keep every line on disk.    *)
LEMMA LinesStay ==
    ASSUME LogTypeOK, Names, FilesStay \/ FileArchived \/ Compress \/ RemoveOriginal
    PROVE  OnDisk' = OnDisk /\ UNCHANGED <<acked, retired>>
<1>1. archives \in Seq(Archive) /\ DOMAIN archives = 1..Len(archives) /\ Len(archives) \in Nat
      /\ current.lines \subseteq LogLines
  BY Positions DEF LogTypeOK
<1>2. CASE FilesStay
  BY <1>2 DEF FilesStay, OnDisk
<1>3. CASE FileArchived
  <2>1. PICK day \in Days :
           /\ archives' = Append(archives, [day |-> day, number |-> NextNumber(day),
                                            gz |-> FALSE, lines |-> current.lines])
           /\ current'.lines = {}
    BY <1>3 DEF FileArchived
  <2> DEFINE f == [day |-> day, number |-> NextNumber(day), gz |-> FALSE,
                   lines |-> current.lines]
  <2>2. f \in Archive /\ f.lines = current.lines
    BY <1>1, FreeNumber DEF Archive
  <2>3. archives' = Append(archives, f)
    BY <2>1
  <2> HIDE DEF f
  <2>4. ASSUME NEW x PROVE x \in OnDisk' <=> x \in OnDisk
    BY <2>1, <2>2, <2>3, LinesAfterAppending, OnDiskIs
  <2> QED
    BY <1>3, <2>4 DEF FileArchived
<1>4. CASE Compress
  <2>1. PICK g \in Plain : archives' = Append(archives, [g EXCEPT !.gz = TRUE])
    BY <1>4 DEF Compress
  <2>2. g \in Archive /\ \E k \in DOMAIN archives : archives[k] = g
    BY <1>1, Positions DEF Plain
  <2> DEFINE f == [g EXCEPT !.gz = TRUE]
  <2>3. f \in Archive /\ f.lines = g.lines
    BY <2>2 DEF Archive
  <2> HIDE DEF f
  <2>4. archives' = Append(archives, f) /\ UNCHANGED <<current, acked, retired>>
    BY <1>4, <2>1 DEF Compress, f
  <2>5. ASSUME NEW x PROVE x \in OnDisk' <=> x \in OnDisk
    BY <2>2, <2>3, <2>4, LinesAfterAppending, OnDiskIs
  <2> QED
    BY <2>4, <2>5
<1>5. CASE RemoveOriginal
  <2>1. PICK i \in DOMAIN archives : archives[i] \in Stored /\ archives' = RemoveAt(archives, i)
    BY <1>5 DEF RemoveOriginal
  <2>2. PICK k \in DOMAIN archives : Twins(archives[i], archives[k])
    BY <1>1, <2>1, Positions DEF Stored
  <2>3. i # k /\ archives[i].lines = archives[k].lines
    BY <2>2 DEF Twins, Names, Named
  <2>4. UNCHANGED <<current, acked, retired>>
    BY <1>5 DEF RemoveOriginal
  <2>5. ASSUME NEW x PROVE x \in OnDisk' <=> x \in OnDisk
    BY <2>1, <2>3, <2>4, OnDiskIs, LinesAfterRemoval
  <2> QED
    BY <2>4, <2>5
<1> QED
  BY <1>2, <1>3, <1>4, <1>5

LEMMA LinesRetired ==
    ASSUME LogTypeOK, ArchiveRetired
    PROVE  /\ OnDisk' \subseteq OnDisk /\ OnDisk \subseteq OnDisk' \cup retired'
           /\ retired \subseteq retired' /\ retired' \subseteq retired \cup OnDisk
           /\ UNCHANGED <<acked, line, log>>
<1>1. PICK i \in DOMAIN archives : Retire(i)
  BY DEF ArchiveRetired
<1>2. /\ archives' = RemoveAt(archives, i) /\ retired' = retired \cup archives[i].lines
      /\ UNCHANGED <<current, acked, line, log>>
  BY <1>1 DEF Retire
<1>3. ASSUME NEW x
      PROVE  /\ x \in OnDisk' => x \in OnDisk
             /\ x \in OnDisk => x \in OnDisk' \/ x \in archives[i].lines
             /\ x \in archives[i].lines => x \in OnDisk
  BY <1>2, OnDiskIs, LinesAfterRemoval
<1> QED
  BY <1>2, <1>3

LEMMA LinesAppended ==
    ASSUME LogTypeOK, LineAppended
    PROVE  OnDisk' = OnDisk \cup {line}
BY DEF LineAppended, OnDisk, Range

------------------------------------------------------------------------------
(* The invariant is inductive.                                             *)

(* A failure ends the call; a Write leaves the log open if it can.         *)
LEMMA Failing ==
    ASSUME LogTypeOK, NEW file \in BOOLEAN, Fail(file)
    PROVE  /\ log' \in [step: LogSteps, day: Days, file: BOOLEAN, writing: BOOLEAN]
           /\ log'.step = IF log.writing THEN "idle" ELSE "down"
           /\ log'.file <=> (log.writing /\ file)
           /\ ~log'.writing
           /\ lost' = IF log.writing /\ sound THEN lost + 1 ELSE lost
           /\ lost' \in Nat
<1> DEFINE stays == log.writing /\ file
           step == IF log.writing THEN "idle" ELSE "down"
<1>1. log \in [step: LogSteps, day: Days, file: BOOLEAN, writing: BOOLEAN] /\ lost \in Nat
  BY DEF LogTypeOK
<1>2. stays \in BOOLEAN /\ step \in LogSteps
  BY <1>1 DEF LogSteps
<1>3. log' = [log EXCEPT !.step = step, !.file = stays, !.writing = FALSE]
  BY DEF Fail
<1>4. lost' = (IF log.writing /\ sound THEN lost + 1 ELSE lost) /\ lost' \in Nat
  BY <1>1 DEF Fail
<1> HIDE DEF stays, step
<1>5. /\ log' \in [step: LogSteps, day: Days, file: BOOLEAN, writing: BOOLEAN]
      /\ log'.step = step /\ log'.file = stays /\ log'.writing = FALSE
  BY <1>1, <1>2, <1>3
<1> QED
  BY <1>4, <1>5 DEF stays, step

LEMMA Reopening ==
    ASSUME LogTypeOK, FailReopening
    PROVE  /\ \/ Fail(TRUE)
              \/ ~sound /\ Fail(FALSE)
           /\ current'.exists \in BOOLEAN
           /\ current'.lines = current.lines /\ current'.day = current.day
           /\ current' \in [exists: BOOLEAN, lines: {current'.lines}, day: Days]
<1>1. current \in [exists: BOOLEAN, lines: SUBSET LogLines, day: Days]
  BY DEF LogTypeOK
<1>2. Opened \/ UNCHANGED current
  BY DEF FailReopening
<1>3. /\ current'.exists \in BOOLEAN
      /\ current'.lines = current.lines /\ current'.day = current.day
      /\ current' \in [exists: BOOLEAN, lines: {current'.lines}, day: Days]
  BY <1>1, <1>2 DEF Opened
<1> QED
  BY <1>3 DEF FailReopening

(* The running call and what it records, action by action.                 *)
LEMMA CallStep ==
    ASSUME LogTypeOK, [LogNext]_logVars
    PROVE  /\ log' \in [step: LogSteps, day: Days, file: BOOLEAN, writing: BOOLEAN]
           /\ current'.exists \in BOOLEAN /\ current'.day \in Days
           /\ current' \in [exists: BOOLEAN, lines: {current'.lines}, day: Days]
           /\ today' \in Days /\ sound' \in BOOLEAN /\ lost' \in Nat
<1>1. /\ current \in [exists: BOOLEAN, lines: SUBSET LogLines, day: Days]
      /\ log \in [step: LogSteps, day: Days, file: BOOLEAN, writing: BOOLEAN]
      /\ today \in Days /\ sound \in BOOLEAN /\ lost \in Nat
      /\ MaxDay \in Nat
  BY LogAssumption DEF LogTypeOK
<1>2. CASE UNCHANGED logVars
  BY <1>1, <1>2 DEF logVars
<1>3. CASE Open \/ Write \/ Stop \/ Mend
  BY <1>1, <1>3 DEF Open, Write, Stop, Mend, LogSteps
<1>4. CASE CloseFailed
  BY <1>1, <1>4, Reopening, Failing DEF CloseFailed
<1>5. CASE ArchiveFile
  <2>1. CASE FailReopening
    BY <1>1, <1>5, <2>1, Reopening, Failing DEF ArchiveFile
  <2>2. CASE /\ current' = [exists |-> FALSE, lines |-> {}, day |-> 0]
             /\ Continue(IF log.writing THEN "create" ELSE "compress") /\ Unfailing
    <3>1. 0 \in Days
      BY <1>1 DEF Days
    <3> QED
      BY <1>1, <1>5, <2>2, <3>1 DEF ArchiveFile, Continue, Unfailing, LogSteps
  <2> QED
    BY <1>5, <2>1, <2>2 DEF ArchiveFile
<1>6. CASE Create
  BY <1>1, <1>6 DEF Create, Opened, Unfailing, LogSteps
<1>7. CASE Compress \/ RemoveOriginal
  BY <1>1, <1>7 DEF Compress, RemoveOriginal
<1>8. CASE RemoveExpired \/ RemoveExcess
  BY <1>1, <1>8 DEF RemoveExpired, RemoveExcess, Retire
<1>9. CASE MaintainProceeds
  BY <1>1, <1>9 DEF MaintainProceeds, Maintain, Continue, LogSteps
<1>10. CASE MaintainFails
  BY <1>1, <1>10, Failing DEF MaintainFails
<1>11. CASE AppendLine
  <2>1. CASE Fail(log.file) /\ UNCHANGED current
    BY <1>1, <1>11, <2>1, Failing DEF AppendLine
  <2>2. CASE /\ current' = [exists |-> TRUE, lines |-> current.lines \cup {line}, day |-> today]
             /\ log' = [log EXCEPT !.step = "idle", !.file = TRUE, !.writing = FALSE]
             /\ lost' = 0
    BY <1>1, <1>11, <2>2 DEF AppendLine, LogSteps
  <2> QED
    BY <1>11, <2>1, <2>2 DEF AppendLine
<1>12. CASE Midnight
  <2>1. today + 1 \in Days
    BY <1>1, <1>12 DEF Midnight, Days
  <2> QED
    BY <1>1, <1>12, <2>1 DEF Midnight
<1> QED
  BY <1>2, <1>3, <1>4, <1>5, <1>6, <1>7, <1>8, <1>9, <1>10, <1>11, <1>12 DEF LogNext

(* Only Write begins to write.                                             *)
LEMMA WritingStep ==
    ASSUME LogTypeOK, [LogNext]_logVars
    PROVE  \/ /\ FilesStay /\ line' = line + 1 /\ line' \in LogLines
           \/ line' = line /\ (log'.writing => log.writing)
<1>1. /\ log \in [step: LogSteps, day: Days, file: BOOLEAN, writing: BOOLEAN]
      /\ line \in 0..MaxLine /\ MaxLine \in Nat
  BY LogAssumption DEF LogTypeOK
<1>2. CASE Write
  BY <1>1, <1>2 DEF Write, FilesStay, LogLines
<1>3. CASE UNCHANGED logVars
  BY <1>3 DEF logVars
<1>4. CASE Open \/ Stop \/ Midnight \/ Mend
  BY <1>1, <1>4 DEF Open, Stop, Midnight, Mend
<1>5. CASE CloseFailed \/ MaintainFails
  BY <1>1, <1>5, Reopening, Failing DEF CloseFailed, MaintainFails
<1>6. CASE ArchiveFile
  <2>1. CASE FailReopening
    BY <1>6, <2>1, Reopening, Failing DEF ArchiveFile
  <2>2. CASE Continue(IF log.writing THEN "create" ELSE "compress")
    BY <1>1, <1>6, <2>2 DEF ArchiveFile, Continue
  <2> QED
    BY <1>6, <2>1, <2>2 DEF ArchiveFile
<1>7. CASE Create
  BY <1>1, <1>7 DEF Create
<1>8. CASE Compress \/ RemoveOriginal \/ RemoveExpired \/ RemoveExcess
  BY <1>8 DEF Compress, RemoveOriginal, RemoveExpired, RemoveExcess, Retire
<1>9. CASE MaintainProceeds
  BY <1>1, <1>9 DEF MaintainProceeds, Maintain, Continue
<1>10. CASE AppendLine
  <2>1. CASE Fail(log.file)
    BY <1>1, <1>10, <2>1, Failing DEF AppendLine
  <2>2. CASE log' = [log EXCEPT !.step = "idle", !.file = TRUE, !.writing = FALSE]
    BY <1>1, <1>10, <2>2 DEF AppendLine
  <2> QED
    BY <1>10, <2>1, <2>2 DEF AppendLine
<1> QED
  BY <1>2, <1>3, <1>4, <1>5, <1>6, <1>7, <1>8, <1>9, <1>10 DEF LogNext

LEMMA NumberedStep ==
    ASSUME LogTypeOK, Names, Numbered, Course, [LogNext]_logVars
    PROVE  Numbered'
<1>1. line \in 0..MaxLine /\ MaxLine \in Nat /\ OnDisk \subseteq 1..line
  BY LogAssumption DEF LogTypeOK, Numbered
<1>2. CASE FilesStay /\ line' = line + 1 /\ line' \in LogLines
  <2>1. OnDisk' = OnDisk
    BY <1>2, LinesStay
  <2> QED
    BY <1>1, <1>2, <2>1 DEF Numbered, LogLines
<1>3. CASE line' = line /\ (log'.writing => log.writing)
  <2>1. CASE FilesStay \/ FileArchived \/ Compress \/ RemoveOriginal
    BY <1>3, <2>1, LinesStay DEF Numbered
  <2>2. CASE ArchiveRetired
    BY <1>3, <2>2, LinesRetired DEF Numbered
  <2>3. CASE LineAppended
    <3>1. line \in 1..line /\ ~log'.writing
      BY <1>1, <2>3 DEF LineAppended, Course, Numbered, LogLines
    <3> QED
      BY <1>3, <2>3, <3>1, LinesAppended DEF Numbered
  <2> QED
    BY <2>1, <2>2, <2>3, Moves
<1> QED
  BY <1>2, <1>3, WritingStep

LEMMA NothingLostStep ==
    ASSUME LogTypeOK, Names, NothingLost, [LogNext]_logVars
    PROVE  NothingLost'
<1>1. CASE FilesStay \/ FileArchived \/ Compress \/ RemoveOriginal
  BY <1>1, LinesStay DEF NothingLost
<1>2. CASE ArchiveRetired
  BY <1>2, LinesRetired DEF NothingLost
<1>3. CASE LineAppended
  BY <1>3, LinesAppended DEF LineAppended, NothingLost
<1> QED
  BY <1>1, <1>2, <1>3, Moves

LEMMA LogTypesStep ==
    ASSUME LogTypeOK, Names, Numbered, Course, [LogNext]_logVars
    PROVE  LogTypeOK'
<1>1. /\ acked \subseteq LogLines /\ retired \subseteq LogLines /\ current.lines \subseteq LogLines
      /\ line \in 0..MaxLine /\ MaxLine \in Nat
  BY LogAssumption DEF LogTypeOK
<1>2. OnDisk \subseteq LogLines
  BY <1>1 DEF Numbered, LogLines
<1>3. archives' \in Seq(Archive)
  BY ArchivesStep
<1>4. line' \in 0..MaxLine
  BY <1>1, WritingStep DEF LogLines
<1>5. acked' \subseteq LogLines /\ retired' \subseteq LogLines /\ current'.lines \subseteq LogLines
  <2>1. CASE FilesStay \/ FileArchived \/ Compress \/ RemoveOriginal
    BY <1>1, <2>1 DEF FilesStay, FileArchived, Compress, RemoveOriginal
  <2>2. CASE ArchiveRetired
    BY <1>1, <1>2, <2>2, LinesRetired DEF ArchiveRetired, Retire
  <2>3. CASE LineAppended
    BY <1>1, <2>3 DEF LineAppended, Course, Numbered
  <2> QED
    BY <2>1, <2>2, <2>3, Moves
<1>6. current' \in [exists: BOOLEAN, lines: SUBSET LogLines, day: Days]
  BY <1>5, CallStep
<1> QED
  BY <1>3, <1>4, <1>5, <1>6, CallStep DEF LogTypeOK

(* Removing archives adds none.                                            *)
LEMMA RetireKeepsTidy ==
    ASSUME LogTypeOK, ArchiveRetired
    PROVE  Plain' \subseteq Plain /\ Expired' \subseteq Expired
<1>1. PICK i \in DOMAIN archives : archives' = RemoveAt(archives, i) /\ today' = today
  BY DEF ArchiveRetired, Retire
<1>2. archives \in Seq(Archive) /\ DOMAIN archives = 1..Len(archives)
      /\ Len(archives) \in Nat /\ i \in 1..Len(archives)
  BY Positions DEF LogTypeOK
<1>3. /\ DOMAIN archives' = 1..(Len(archives) - 1)
      /\ \A j \in DOMAIN archives' : archives'[j] = archives[IF j < i THEN j ELSE j + 1]
  BY <1>1, <1>2, Removing
<1>4. \A j \in DOMAIN archives' : \E k \in DOMAIN archives : archives'[j] = archives[k]
  BY <1>2, <1>3
<1>5. Range(archives') \subseteq Range(archives)
  BY <1>4 DEF Range
<1> QED
  BY <1>1, <1>5 DEF Plain, Expired

LEMMA CourseStep ==
    ASSUME LogTypeOK, Course, [LogNext]_logVars
    PROVE  Course'
<1>1. log \in [step: LogSteps, day: Days, file: BOOLEAN, writing: BOOLEAN]
  BY DEF LogTypeOK
<1>2. CASE UNCHANGED logVars
  BY <1>2 DEF logVars, Course, Plain, Expired
<1>3. CASE Open \/ Write \/ Stop
  BY <1>1, <1>3 DEF Open, Write, Stop, Course
<1>4. CASE Midnight
  BY <1>4 DEF Midnight, Course
<1>5. CASE Mend
  BY <1>5 DEF Mend, Course, Plain, Expired
<1>6. CASE CloseFailed \/ MaintainFails
  <2>1. log'.step \in {"idle", "down"} /\ ~log'.writing
    BY <1>1, <1>6, Reopening, Failing DEF CloseFailed, MaintainFails
  <2> QED
    BY <2>1 DEF Course
<1>7. CASE ArchiveFile
  <2>1. CASE FailReopening
    <3>1. log'.step \in {"idle", "down"} /\ ~log'.writing
      BY <1>1, <2>1, Reopening, Failing
    <3> QED
      BY <3>1 DEF Course
  <2>2. CASE Continue(IF log.writing THEN "create" ELSE "compress")
    BY <1>1, <2>2 DEF Continue, Course
  <2> QED
    BY <1>7, <2>1, <2>2 DEF ArchiveFile
<1>8. CASE Create
  <2>1. /\ log'.step \in {"compress", "idle", "down"}
        /\ log'.step # "compress" => ~log'.writing
    BY <1>1, <1>8 DEF Create
  <2> QED
    BY <2>1 DEF Course
<1>9. CASE Compress \/ RemoveOriginal
  BY <1>9 DEF Compress, RemoveOriginal, Course
<1>10. CASE RemoveExpired \/ RemoveExcess
  <2>1. ArchiveRetired /\ UNCHANGED log
    BY <1>10, Moves DEF RemoveExpired, RemoveExcess, Retire, ArchiveRetired
  <2> QED
    BY <1>10, <2>1, RetireKeepsTidy DEF Course
<1>11. CASE MaintainProceeds
  <2>1. Plain' = Plain /\ Expired' = Expired
    BY <1>11 DEF MaintainProceeds, Maintain, Plain, Expired
  <2> QED
    BY <1>1, <1>11, <2>1 DEF MaintainProceeds, Maintain, Continue, Course
<1>12. CASE AppendLine
  <2>1. CASE Fail(log.file)
    BY <1>1, <2>1, Failing DEF Course
  <2>2. CASE log' = [log EXCEPT !.step = "idle", !.file = TRUE, !.writing = FALSE]
    BY <1>1, <2>2 DEF Course
  <2> QED
    BY <1>12, <2>1, <2>2 DEF AppendLine
<1> QED
  BY <1>2, <1>3, <1>4, <1>5, <1>6, <1>7, <1>8, <1>9, <1>10, <1>11, <1>12 DEF LogNext

LEMMA RecoveryStep ==
    ASSUME LogTypeOK, Course, Recovery, [LogNext]_logVars
    PROVE  Recovery'
<1>1. /\ log \in [step: LogSteps, day: Days, file: BOOLEAN, writing: BOOLEAN]
      /\ sound \in BOOLEAN
  BY DEF LogTypeOK
<1>2. CASE UNCHANGED logVars
  BY <1>2 DEF logVars, Recovery
<1>3. CASE Open \/ Write \/ Stop
  BY <1>1, <1>3 DEF Open, Write, Stop, Recovery, Course
<1>4. CASE Midnight \/ Mend
  BY <1>4 DEF Midnight, Mend, Recovery
<1>5. CASE ~sound /\ sound' = sound /\ lost' \in {0, lost}
  BY <1>5 DEF Recovery
<1>6. CASE CloseFailed
  <2>1. log.writing /\ ~log.file /\ lost = 0
    BY <1>6 DEF CloseFailed, Course, Recovery
  <2>2. CASE Fail(TRUE)
    <3>1. log'.file /\ lost' = IF sound THEN lost + 1 ELSE lost
      BY <2>1, <2>2, Failing
    <3>2. lost' \in {0, 1} /\ (lost' = 1 => sound) /\ sound' = sound
      BY <1>1, <1>6, <2>1, <3>1 DEF CloseFailed
    <3> QED
      BY <3>1, <3>2 DEF Recovery
  <2>3. CASE ~sound /\ Fail(FALSE)
    BY <1>1, <1>6, <2>1, <2>3, Failing DEF CloseFailed, Recovery
  <2> QED
    BY <1>6, <2>2, <2>3, Reopening DEF CloseFailed
<1>7. CASE ArchiveFile
  <2>1. CASE ~sound /\ FailReopening
    BY <1>1, <1>5, <1>7, <2>1, Reopening, Failing DEF ArchiveFile
  <2>2. CASE Continue(IF log.writing THEN "create" ELSE "compress") /\ Unfailing
    BY <1>1, <1>7, <2>2 DEF ArchiveFile, Continue, Unfailing, Recovery
  <2> QED
    BY <1>7, <2>1, <2>2 DEF ArchiveFile
<1>8. CASE Create
  <2>1. CASE ~sound /\ UNCHANGED lost
    BY <1>5, <1>8, <2>1 DEF Create
  <2>2. CASE /\ log' = [log EXCEPT !.step = IF log.writing THEN "compress" ELSE "idle",
                                   !.day = today, !.file = TRUE]
             /\ Unfailing
    BY <1>1, <1>8, <2>2 DEF Create, Unfailing, Recovery
  <2> QED
    BY <1>8, <2>1, <2>2 DEF Create
<1>9. CASE Compress \/ RemoveOriginal \/ RemoveExpired \/ RemoveExcess
  BY <1>9 DEF Compress, RemoveOriginal, RemoveExpired, RemoveExcess, Retire, Recovery
<1>10. CASE MaintainProceeds
  BY <1>1, <1>10 DEF MaintainProceeds, Maintain, Continue, Recovery
<1>11. CASE MaintainFails
  BY <1>1, <1>5, <1>11, Failing DEF MaintainFails
<1>12. CASE AppendLine
  <2>1. CASE ~sound /\ Fail(log.file)
    BY <1>1, <1>5, <1>12, <2>1, Failing DEF AppendLine
  <2>2. CASE lost' = 0
    BY <2>2 DEF Recovery
  <2> QED
    BY <1>12, <2>1, <2>2 DEF AppendLine
<1> QED
  BY <1>2, <1>3, <1>4, <1>6, <1>7, <1>8, <1>9, <1>10, <1>11, <1>12 DEF LogNext

LEMMA LogInitInv == LogInit => LogInv
<1> SUFFICES ASSUME LogInit PROVE LogInv
  OBVIOUS
<1>1. /\ current = [exists |-> FALSE, lines |-> {}, day |-> 0]
      /\ archives = <<>> /\ today = 0 /\ line = 0 /\ sound = FALSE
      /\ acked = {} /\ retired = {} /\ lost = 0
      /\ log = [step |-> "down", day |-> 0, file |-> FALSE, writing |-> FALSE]
  BY DEF LogInit
<1>2. DOMAIN archives = {} /\ archives \in Seq(Archive)
  BY <1>1, EmptySeq
<1>3. LogTypeOK
  <2>1. 0 \in Days /\ 0 \in 0..MaxLine
    BY LogAssumption DEF Days
  <2> QED
    BY <1>1, <1>2, <2>1 DEF LogTypeOK, LogSteps
<1>4. OnDisk = {}
  BY <1>1, <1>2 DEF OnDisk, Range
<1>5. Names
  BY <1>2 DEF Names
<1> QED
  BY <1>1, <1>3, <1>4, <1>5 DEF LogInv, Numbered, Course, Recovery, NothingLost

LEMMA LogStepInv == LogInv /\ [LogNext]_logVars => LogInv'
BY LogTypesStep, NamesStep, NumberedStep, CourseStep, RecoveryStep, NothingLostStep DEF LogInv

(* The invariant: what names, numbers, steps and failures have to do with  *)
(* each other in every state the log can be in.                            *)
THEOREM LogInductive == LogSpec => []LogInv
BY LogInitInv, LogStepInv, PTL DEF LogSpec

------------------------------------------------------------------------------
(* The promises.                                                           *)

(* The log file and its archives stay well-typed: in particular            *)
(* nextArchivePath always finds a number, and never a number below one.    *)
THEOREM LogTypes == LogSpec => []LogTypeOK
<1>1. LogInv => LogTypeOK
  BY DEF LogInv
<1> QED
  BY <1>1, LogInductive, PTL

(* A line that Write has accepted is on disk until retention removes it,   *)
(* and a sound file system refuses one line at most.                       *)
THEOREM LinesAreKeptHolds == LogSpec => []LinesAreKept
<1>1. LogInv => LinesAreKept
  BY DEF LogInv, Recovery, LinesAreKept, LoggingResumes
<1> QED
  BY <1>1, LogInductive, PTL

(* Maintenance that ends well leaves one compressed file per archive, none *)
(* too old, and all together within the limit.                             *)
THEOREM MaintainTidiesHolds == LogSpec => MaintainTidies
<1>1. ASSUME LogInv, [LogNext]_logVars,
             log.step = "excess", log'.step \in {"append", "create"}
      PROVE  /\ Plain = {} /\ Expired = {}
             /\ \A i, j \in DOMAIN archives :
                    i # j => archives[i].lines \cap archives[j].lines = {}
             /\ archives = <<>> \/ TotalSize <= MaxTotalSize
  <2>1. Plain = {} /\ Expired = {}
    BY <1>1 DEF LogInv, Course
  <2>2. \A i \in DOMAIN archives : archives[i].gz = TRUE
    BY <1>1, <2>1, Positions DEF LogInv, LogTypeOK, Archive, Plain
  <2>3. \A i, j \in DOMAIN archives :
            i # j => archives[i].lines \cap archives[j].lines = {}
    BY <1>1, <2>2 DEF LogInv, Names
  <2>4. archives = <<>> \/ ~Excessive
    <3>1. log \in [step: LogSteps, day: Days, file: BOOLEAN, writing: BOOLEAN]
      BY <1>1 DEF LogInv, LogTypeOK
    <3>2. MaintainProceeds
      <4>1. ~UNCHANGED logVars
        BY <1>1 DEF logVars
      <4>2. ~Open /\ ~Write /\ ~CloseFailed /\ ~ArchiveFile /\ ~Create /\ ~AppendLine
        BY <1>1 DEF Open, Write, CloseFailed, ArchiveFile, Create, AppendLine
      <4>3. ~Compress /\ ~RemoveOriginal /\ ~RemoveExpired /\ ~RemoveExcess
        BY <1>1 DEF Compress, RemoveOriginal, RemoveExpired, RemoveExcess, Retire
      <4>4. ~Midnight /\ ~Mend
        BY <1>1 DEF Midnight, Mend
      <4>5. ~MaintainFails
        BY <1>1, Failing DEF LogInv, LogTypeOK, MaintainFails
      <4>6. ~Stop
        BY <1>1, <3>1 DEF Stop
      <4> QED
        BY <1>1, <4>1, <4>2, <4>3, <4>4, <4>5, <4>6 DEF LogNext
    <3>3. Maintain("excess", archives = <<>> \/ ~Excessive,
                   IF log.writing THEN "append" ELSE "create")
      BY <1>1, <3>2 DEF MaintainProceeds, Maintain
    <3> QED
      BY <3>3 DEF Maintain
  <2>5. archives = <<>> \/ TotalSize <= MaxTotalSize
    BY <2>4 DEF Excessive
  <2> QED
    BY <2>1, <2>3, <2>5
<1>2. LogInv /\ [LogNext]_logVars =>
          [log.step = "excess" /\ log'.step \in {"append", "create"} =>
              /\ Plain = {} /\ Expired = {}
              /\ \A i, j \in DOMAIN archives :
                     i # j => archives[i].lines \cap archives[j].lines = {}
              /\ archives = <<>> \/ TotalSize <= MaxTotalSize]_logVars
  BY <1>1
<1>3. LogSpec => []LogInv
  BY LogInductive
<1> QED
  BY <1>2, <1>3, PTL DEF LogSpec, MaintainTidies

=============================================================================
