--------------------------- MODULE LogTailProofs ---------------------------
(***************************************************************************)
(* Proofs about the tail of a log: what the watcher read is what the file  *)
(* holds, and what the page is given to show is what was read, for any     *)
(* log, size of buffer and number of files and truncations; and that the   *)
(* tail implements EventQueue.                                             *)
(***************************************************************************)
EXTENDS LogTail, DataLemmas

-----------------------------------------------------------------------------
(* The invariant *)

WatcherTypes ==
  /\ files \in Seq(File)
  /\ w \in [pc : {"stat", "add", "wait", "read", "close", "done"}, fd : Nat]
  /\ w.pc = "read" => w.fd \in DOMAIN files
  /\ filePos \in Nat
  /\ from \in Nat
  /\ got \in Seq(Byte)

\* The position comes from files there are, as they were at most as often truncated.
SourcesSeen ==
  /\ src \subseteq (DOMAIN files) \X Nat
  /\ \A p \in src : p[2] <= files[p[1]].truncs

\* There is no position before the size of the file is taken.
NothingReadAtStart == w.pc = "stat" => src = {}

TailInv == WatcherTypes /\ SourcesSeen /\ NothingReadAtStart /\ ReadIsFile

-----------------------------------------------------------------------------
(* Files *)

\* Text t begins with text s.
BeginsWith(t, s) == Len(s) <= Len(t) /\ \A k \in 1 .. Len(s) : t[k] = s[k]

\* A part of s is the same part of every text that begins with s.
LEMMA PartKept ==
  ASSUME NEW s \in Seq(Byte), NEW t \in Seq(Byte), BeginsWith(t, s),
         NEW m \in Nat, NEW n \in Nat, n <= Len(s)
  PROVE  SubSeq(t, m + 1, n) = SubSeq(s, m + 1, n)
<1>1. /\ Len(s) \in Nat /\ Len(t) \in Nat
      /\ \A k \in 1 .. Len(s) : s[k] \in Byte
      /\ \A k \in 1 .. Len(t) : t[k] \in Byte
  BY LenProperties, ElementOfSeq
<1>2. \A k \in m + 1 .. n : k \in 1 .. Len(s) /\ k \in 1 .. Len(t)
  BY <1>1 DEF BeginsWith
<1>3. /\ SubSeq(s, m + 1, n) \in Seq(Byte) /\ SubSeq(t, m + 1, n) \in Seq(Byte)
      /\ Len(SubSeq(s, m + 1, n)) = IF m + 1 <= n THEN n - (m + 1) + 1 ELSE 0
      /\ Len(SubSeq(t, m + 1, n)) = IF m + 1 <= n THEN n - (m + 1) + 1 ELSE 0
      /\ \A k \in 1 .. n - (m + 1) + 1 : SubSeq(s, m + 1, n)[k] = s[m + 1 + k - 1]
      /\ \A k \in 1 .. n - (m + 1) + 1 : SubSeq(t, m + 1, n)[k] = t[m + 1 + k - 1]
  <2>1. m + 1 \in Int /\ n \in Int
    OBVIOUS
  <2>2. \A k \in m + 1 .. n : s[k] \in Byte /\ t[k] \in Byte
    BY <1>1, <1>2
  <2> QED BY <2>1, <2>2, SubSeqProperties
<1>4. \A k \in 1 .. Len(SubSeq(s, m + 1, n)) :
        SubSeq(t, m + 1, n)[k] = SubSeq(s, m + 1, n)[k]
  BY <1>1, <1>2, <1>3 DEF BeginsWith
<1> QED BY <1>3, <1>4, SeqEqual

\* What a step of the environment does to the files: none goes, and one that is
\* not truncated only grows.
FilesGrow ==
  /\ files' \in Seq(File)
  /\ DOMAIN files \subseteq DOMAIN files'
  /\ \A i \in DOMAIN files :
       /\ files[i].truncs <= files'[i].truncs
       /\ files'[i].truncs = files[i].truncs =>
            BeginsWith(files'[i].bytes, files[i].bytes)

\* What the records of the files hold.
LEMMA FileType ==
  ASSUME files \in Seq(File), NEW i \in DOMAIN files
  PROVE  /\ files[i] \in File
         /\ files[i].bytes \in Seq(Byte) /\ files[i].truncs \in Nat
         /\ Size(i) = Len(files[i].bytes) /\ Size(i) \in Nat
<1>1. files[i] \in File
  BY ElementOfSeq, LenProperties
<1> QED BY <1>1, LenProperties DEF File, Size

\* The file at the path is one of the files.
LEMMA PathIsFile ==
  ASSUME Path # 0
  PROVE  Path \in DOMAIN files
BY DEF Path, Linked

\* A file with other bytes, or another link, is the same otherwise.
LEMMA FileFields ==
  ASSUME NEW f \in File, NEW bytes, NEW link
  PROVE  /\ [f EXCEPT !.bytes = bytes]
              = [bytes |-> bytes, truncs |-> f.truncs, link |-> f.link]
         /\ [f EXCEPT !.link = link]
              = [bytes |-> f.bytes, truncs |-> f.truncs, link |-> link]
BY DEF File

\* A change of one file that only extends it or counts a truncation.
LEMMA OneFileGrows ==
  ASSUME files \in Seq(File), NEW i \in DOMAIN files, NEW f \in File,
         files' = [files EXCEPT ![i] = f],
         \/ f.truncs = files[i].truncs /\ BeginsWith(f.bytes, files[i].bytes)
         \/ f.truncs = files[i].truncs + 1
  PROVE  FilesGrow
<1>1. i \in 1 .. Len(files)
  BY LenProperties
<1>2. /\ files' \in Seq(File) /\ DOMAIN files' = DOMAIN files
      /\ files'[i] = f
      /\ \A j \in DOMAIN files : j # i => files'[j] = files[j]
  BY <1>1, ExceptSeq
<1>3. ASSUME NEW j \in DOMAIN files
      PROVE  /\ files[j].truncs <= files'[j].truncs
             /\ files'[j].truncs = files[j].truncs =>
                  BeginsWith(files'[j].bytes, files[j].bytes)
  <2>1. files[j].truncs \in Nat
    BY FileType
  <2>2. CASE j = i
    BY <1>2, <2>1, <2>2
  <2>3. CASE j # i
    <3>1. files'[j] = files[j]
      BY <1>2, <2>3
    <3>2. Len(files[j].bytes) \in Nat
      BY FileType, LenProperties
    <3> QED BY <2>1, <3>1, <3>2 DEF BeginsWith
  <2> QED BY <2>2, <2>3
<1> QED BY <1>2, <1>3 DEF FilesGrow

-----------------------------------------------------------------------------
(* Every step keeps the invariant *)

\* The environment changes files only, in the way FilesGrow says.
LEMMA EnvironmentKeeps ==
  ASSUME TailInv, FilesGrow, UNCHANGED <<watchVars, auxVars>>
  PROVE  TailInv'
<1>0. /\ w' = w /\ filePos' = filePos /\ from' = from /\ got' = got /\ src' = src
  BY DEF watchVars, auxVars
<1>1. WatcherTypes'
  BY <1>0 DEF TailInv, WatcherTypes, FilesGrow
<1>2. SourcesSeen'
  <2>1. src' \subseteq (DOMAIN files') \X Nat
    <3>1. src \subseteq (DOMAIN files) \X Nat /\ DOMAIN files \subseteq DOMAIN files'
      BY DEF TailInv, SourcesSeen, FilesGrow
    <3> QED BY <1>0, <3>1
  <2>2. ASSUME NEW p \in src
        PROVE  p[2] <= files'[p[1]].truncs
    <3>0. p \in (DOMAIN files) \X Nat /\ p[2] <= files[p[1]].truncs
      BY DEF TailInv, SourcesSeen
    <3>1. p[1] \in DOMAIN files /\ p[2] \in Nat /\ p[2] <= files[p[1]].truncs
      BY <3>0
    <3>2. files[p[1]].truncs \in Nat
      BY <3>1, FileType DEF TailInv, WatcherTypes
    <3>3. files'[p[1]].truncs \in Nat
      <4>1. files' \in Seq(File) /\ p[1] \in DOMAIN files'
        BY <3>1 DEF FilesGrow
      <4>2. files'[p[1]] \in File
        BY <4>1, ElementOfSeq, LenProperties
      <4> QED BY <4>2 DEF File
    <3>4. files[p[1]].truncs <= files'[p[1]].truncs
      BY <3>1 DEF FilesGrow
    <3> QED BY <3>1, <3>2, <3>3, <3>4
  <2> QED BY <1>0, <2>1, <2>2 DEF SourcesSeen
<1>3. NothingReadAtStart'
  BY <1>0 DEF TailInv, NothingReadAtStart
<1>4. ReadIsFile'
  <2>1. ASSUME NEW i \in DOMAIN files', src = {<<i, files'[i].truncs>>}
        PROVE  /\ filePos <= Len(files'[i].bytes)
               /\ got = SubSeq(files'[i].bytes, from + 1, filePos)
    <3>0. /\ <<i, files'[i].truncs>> \in (DOMAIN files) \X Nat
          /\ <<i, files'[i].truncs>>[2] <= files[<<i, files'[i].truncs>>[1]].truncs
      BY <2>1 DEF TailInv, SourcesSeen
    <3>1. i \in DOMAIN files /\ files'[i].truncs <= files[i].truncs
      BY <3>0
    <3>2. files[i].truncs \in Nat /\ files[i].bytes \in Seq(Byte)
          /\ Size(i) = Len(files[i].bytes) /\ Size(i) \in Nat
      BY <3>1, FileType DEF TailInv, WatcherTypes
    <3>3. files'[i] \in File
      BY ElementOfSeq, LenProperties DEF FilesGrow
    <3>4. files'[i].truncs \in Nat /\ files'[i].bytes \in Seq(Byte)
      BY <3>3 DEF File
    <3>5. files[i].truncs <= files'[i].truncs
      BY <3>1 DEF FilesGrow
    <3>6. files'[i].truncs = files[i].truncs
      BY <3>1, <3>2, <3>4, <3>5
    <3>7. BeginsWith(files'[i].bytes, files[i].bytes)
      BY <3>1, <3>6 DEF FilesGrow
    <3>8. filePos <= Size(i) /\ got = SubSeq(files[i].bytes, from + 1, filePos)
      BY <2>1, <3>1, <3>6 DEF TailInv, ReadIsFile, Intact
    <3>9. filePos \in Nat /\ from \in Nat
      BY DEF TailInv, WatcherTypes
    <3>10. SubSeq(files'[i].bytes, from + 1, filePos)
             = SubSeq(files[i].bytes, from + 1, filePos)
      BY <3>2, <3>4, <3>7, <3>8, <3>9, PartKept, ZenonT(60)
    <3>11. Len(files'[i].bytes) \in Nat
      BY <3>4, LenProperties
    <3> QED BY <3>2, <3>7, <3>8, <3>9, <3>10, <3>11 DEF BeginsWith
  <2>2. filePos' = from' + Len(got') /\ (src' = {} => got' = <<>>)
    BY <1>0 DEF TailInv, ReadIsFile
  <2> QED BY <1>0, <2>1, <2>2 DEF ReadIsFile, Intact, Size
<1> QED BY <1>1, <1>2, <1>3, <1>4 DEF TailInv

\* A step that only moves the watcher on.
LEMMA WatcherMovesOn ==
  ASSUME TailInv,
         UNCHANGED <<files, filePos, from, got, src>>,
         w' \in [pc : {"stat", "add", "wait", "read", "close", "done"}, fd : Nat],
         w'.pc = "read" => w'.fd \in DOMAIN files,
         w'.pc = "stat" => w.pc = "stat"
  PROVE  TailInv'
<1>1. WatcherTypes' /\ SourcesSeen' /\ NothingReadAtStart'
  BY DEF TailInv, WatcherTypes, SourcesSeen, NothingReadAtStart
<1>2. ReadIsFile'
  BY DEF TailInv, ReadIsFile, Intact, Size
<1> QED BY <1>1, <1>2 DEF TailInv

\* Positions that cut a text of n bytes in adjacent parts.
LEMMA SplitPoints ==
  ASSUME NEW a \in Nat, NEW b \in Nat, NEW c \in Nat, NEW n \in Nat,
         a <= b, b <= c, c <= n
  PROVE  /\ a + 1 \in 1 .. n + 1
         /\ b \in (a + 1) - 1 .. n
         /\ c \in b .. n
OBVIOUS

\* The read of watchServ (watcher.go:52-77) starts at filePos and moves it behind what
\* was read.
LEMMA ReadMaintains ==
  ASSUME TailInv, TailAssumption, ReadFile
  PROVE  TailInv'
<1> DEFINE i == w.fd
           text == ReadFrom(i)
           last == IF Size(i) - filePos > BufferSize THEN filePos + BufferSize ELSE Size(i)
<1>1. /\ i \in DOMAIN files /\ filePos \in Nat /\ from \in Nat /\ got \in Seq(Byte)
      /\ files \in Seq(File) /\ BufferSize \in Nat \ {0}
  BY DEF TailInv, WatcherTypes, ReadFile, TailAssumption
<1>2. /\ files[i].bytes \in Seq(Byte) /\ files[i].truncs \in Nat
      /\ Size(i) = Len(files[i].bytes) /\ Size(i) \in Nat
  BY <1>1, FileType
<1>3. last \in Nat /\ last <= Size(i) /\ text = SubSeq(files[i].bytes, filePos + 1, last)
  BY <1>1, <1>2 DEF ReadFrom
<1>4. /\ text \in Seq(Byte)
      /\ Len(text) = IF filePos + 1 <= last THEN last - (filePos + 1) + 1 ELSE 0
  <2>1. \A k \in filePos + 1 .. last : files[i].bytes[k] \in Byte
    <3>1. \A k \in 1 .. Len(files[i].bytes) : files[i].bytes[k] \in Byte
      BY <1>2, ElementOfSeq
    <3>2. \A k \in filePos + 1 .. last : k \in 1 .. Len(files[i].bytes)
      BY <1>1, <1>2, <1>3
    <3> QED BY <3>1, <3>2
  <2>2. filePos + 1 \in Int /\ last \in Int
    BY <1>1, <1>3
  <2> QED BY <1>3, <2>1, <2>2, SubSeqProperties
<1>5. /\ files' = files /\ from' = from
      /\ w' = [pc |-> "wait", fd |-> 0]
  BY DEF ReadFile, fileVars
<1> HIDE DEF text, last
<1>6. CASE text = <<>>
  <2>1. filePos' = filePos /\ got' = got /\ src' = src
    BY <1>6 DEF ReadFile, text
  <2> QED BY <1>5, <2>1, WatcherMovesOn
<1>7. CASE text # <<>>
  <2>1. /\ filePos' = filePos + Len(text)
        /\ got' = got \o text
        /\ src' = src \cup {<<i, files[i].truncs>>}
    BY <1>7 DEF ReadFile, text
  <2>2. Len(text) = last - filePos /\ filePos + 1 <= last
    BY <1>1, <1>3, <1>4, <1>7, EmptySeq
  <2>3. got' \in Seq(Byte) /\ Len(got') = Len(got) + Len(text)
    BY <1>1, <1>4, <2>1, ConcatProperties
  <2>4. WatcherTypes'
    <3>1. filePos' \in Nat /\ from' \in Nat /\ w'.pc # "read"
      BY <1>1, <1>3, <1>5, <2>1, <2>2
    <3> QED BY <1>1, <1>5, <2>3, <3>1 DEF WatcherTypes
  <2>5. SourcesSeen'
    <3>1. <<i, files[i].truncs>> \in (DOMAIN files) \X Nat
      BY <1>1, <1>2
    <3>2. <<i, files[i].truncs>>[2] <= files[<<i, files[i].truncs>>[1]].truncs
      BY <1>2
    <3> QED BY <1>5, <2>1, <3>1, <3>2 DEF TailInv, SourcesSeen
  <2>6. NothingReadAtStart'
    BY <1>5 DEF NothingReadAtStart
  <2>7. ReadIsFile'
    <3>1. filePos = from + Len(got) /\ Len(got) \in Nat
      BY <1>1, LenProperties DEF TailInv, ReadIsFile
    <3>2. filePos' = from' + Len(got') /\ filePos' = last
      <4>1. filePos' = filePos + (last - filePos) /\ filePos \in Nat /\ last \in Nat
        BY <1>1, <1>3, <2>1, <2>2
      <4>2. from' = from /\ Len(got') = Len(got) + (last - filePos) /\ from \in Nat
        BY <1>1, <1>5, <2>2, <2>3
      <4> QED BY <3>1, <4>1, <4>2
    <3>3. ASSUME NEW j \in DOMAIN files, src' = {<<j, files[j].truncs>>}
          PROVE  /\ filePos' <= Size(j)
                 /\ got' = SubSeq(files[j].bytes, from + 1, filePos')
      <4>1. j = i
        <5>1. <<i, files[i].truncs>> = <<j, files[j].truncs>>
          BY <2>1, <3>3
        <5> QED BY <5>1
      <4>2. src = {} \/ src = {<<i, files[i].truncs>>}
        BY <2>1, <3>3, <4>1
      <4>3. CASE src = {}
        <5>1. got = <<>>
          BY <4>3 DEF TailInv, ReadIsFile
        <5>2. from = filePos
          BY <1>1, <3>1, <5>1, EmptySeq
        <5>3. got' = text
          BY <1>4, <2>1, <5>1, ConcatEmptySeq
        <5> QED BY <1>3, <3>2, <4>1, <5>2, <5>3
      <4>4. CASE src = {<<i, files[i].truncs>>}
        <5>1. got = SubSeq(files[i].bytes, from + 1, filePos)
          BY <1>1, <4>4 DEF TailInv, ReadIsFile, Intact
        <5>2. /\ from + 1 \in 1 .. Len(files[i].bytes) + 1
              /\ filePos \in (from + 1) - 1 .. Len(files[i].bytes)
              /\ last \in filePos .. Len(files[i].bytes)
          <6>1. /\ from \in Nat /\ filePos \in Nat /\ last \in Nat
                /\ Len(files[i].bytes) \in Nat
            BY <1>1, <1>2, <1>3
          <6>2. from <= filePos
            BY <3>1, <6>1
          <6>3. filePos <= last /\ last <= Len(files[i].bytes)
            BY <1>2, <1>3, <2>2, <6>1
          <6> QED BY <6>1, <6>2, <6>3, SplitPoints
        <5>3. SubSeq(files[i].bytes, from + 1, filePos)
                \o SubSeq(files[i].bytes, filePos + 1, last)
              = SubSeq(files[i].bytes, from + 1, last)
          BY <1>2, <5>2, ConcatAdjacentSubSeq
        <5> QED BY <1>3, <2>1, <3>2, <4>1, <5>1, <5>3
      <4> QED BY <4>2, <4>3, <4>4
    <3>4. src' # {}
      BY <2>1
    <3> QED BY <1>5, <3>2, <3>3, <3>4 DEF ReadIsFile, Intact, Size
  <2> QED BY <2>4, <2>5, <2>6, <2>7 DEF TailInv
<1> QED BY <1>6, <1>7

\* To rewrite a number as a sum.
LEMMA PlusZero ==
  ASSUME NEW n \in Nat
  PROVE  n = n + 0
OBVIOUS

\* Nothing was read: after a reset.
LEMMA NothingRead ==
  ASSUME WatcherTypes', src' = {}, got' = <<>>, filePos' = from'
  PROVE  TailInv'
<1>1. SourcesSeen' /\ NothingReadAtStart'
  BY DEF SourcesSeen, NothingReadAtStart
<1>2. filePos' = from' + Len(got')
  <2>1. from' \in Nat
    BY DEF WatcherTypes
  <2>2. Len(<<>>) = 0
    BY EmptySeq, Zenon
  <2>3. from' = from' + 0
    BY <2>1, PlusZero, Zenon
  <2> QED BY <2>2, <2>3, Zenon
<1>3. ReadIsFile'
  BY <1>2 DEF ReadIsFile, Intact
<1> QED BY <1>1, <1>3 DEF TailInv

\* A part that starts behind its end is empty.
LEMMA NoPart ==
  ASSUME NEW s \in Seq(Byte), NEW n \in Nat
  PROVE  SubSeq(s, n + 1, n) = <<>>
<1>1. \A k \in n + 1 .. n : s[k] \in Byte
  OBVIOUS
<1>2. SubSeq(s, n + 1, n) \in Seq(Byte) /\ Len(SubSeq(s, n + 1, n)) = 0
  BY <1>1, SubSeqProperties
<1> QED BY <1>2, EmptySeq

\* The watcher starts at the end of the file: what it read is empty.
LEMMA StartMaintains ==
  ASSUME TailInv, StartAtEnd
  PROVE  TailInv'
<1> DEFINE i == Path
<1>1. /\ src' = {<<i, files[i].truncs>>} /\ got' = <<>>
      /\ filePos' = Size(i) /\ from' = Size(i) /\ files' = files
  BY DEF TailInv, NothingReadAtStart, ReadIsFile, StartAtEnd, fileVars
<1>2. i \in DOMAIN files /\ files \in Seq(File)
  BY PathIsFile DEF TailInv, WatcherTypes, StartAtEnd
<1> HIDE DEF i
<1>3. files[i].truncs \in Nat /\ files[i].bytes \in Seq(Byte) /\ Size(i) \in Nat
      /\ Size(i) = Len(files[i].bytes)
  BY <1>2, FileType
<1>4. WatcherTypes'
  BY <1>1, <1>3 DEF TailInv, WatcherTypes, StartAtEnd, fileVars
<1>5. SourcesSeen'
  <2>1. <<i, files[i].truncs>> \in (DOMAIN files) \X Nat
        /\ <<i, files[i].truncs>>[2] <= files[<<i, files[i].truncs>>[1]].truncs
    BY <1>2, <1>3
  <2> QED BY <1>1, <2>1 DEF SourcesSeen
<1>6. NothingReadAtStart'
  BY DEF NothingReadAtStart, StartAtEnd
<1>7. ReadIsFile'
  <2>1. filePos' = from' + Len(got')
    <3>1. Len(<<>>) = 0
      BY EmptySeq, Zenon
    <3>2. Size(i) = Size(i) + 0
      BY <1>3, PlusZero, Zenon
    <3> QED BY <1>1, <3>1, <3>2, Zenon
  <2>2. ASSUME NEW j \in DOMAIN files, src' = {<<j, files[j].truncs>>}
        PROVE  filePos' <= Size(j) /\ got' = SubSeq(files[j].bytes, from' + 1, filePos')
    <3>1. j = i
      <4>1. <<i, files[i].truncs>> = <<j, files[j].truncs>>
        BY <1>1, <2>2
      <4> QED BY <4>1
    <3>2. SubSeq(files[i].bytes, Size(i) + 1, Size(i)) = <<>>
      BY <1>3, NoPart
    <3>3. filePos' <= Size(i) /\ filePos' = Size(i) /\ from' = Size(i)
      BY <1>1, <1>3
    <3>4. got' = SubSeq(files[i].bytes, from' + 1, filePos')
      BY <1>1, <3>2, <3>3
    <3> QED BY <3>1, <3>3, <3>4
  <2>3. src' # {}
    BY <1>1
  <2> QED BY <1>1, <2>1, <2>2, <2>3 DEF ReadIsFile, Intact, Size
<1> QED BY <1>4, <1>5, <1>6, <1>7 DEF TailInv

\* A reset (watcher.go:46-51) starts over with the file that was truncated.
LEMMA ResetMaintains ==
  ASSUME TailInv, QueueReset
  PROVE  TailInv'
<1>1. src' = {} /\ got' = <<>> /\ filePos' = 0 /\ from' = 0
  BY DEF QueueReset
<1>2. WatcherTypes'
  BY <1>1, EmptySeq DEF TailInv, WatcherTypes, QueueReset
<1> QED BY <1>1, <1>2, NothingRead

\* What the logging program does adds to an intact file, or counts a truncation; it
\* reads nothing.
LEMMA EnvironmentGrows ==
  ASSUME TailInv, TailAssumption,
         \/ \E i \in DOMAIN files : \/ \E text \in Chunk : LogWrite(i, text)
                                    \/ LogTruncate(i) \/ LogFree(i)
         \/ LogRename \/ LogUnlink \/ LogCreate
  PROVE  FilesGrow /\ UNCHANGED <<watchVars, auxVars>>
<1>0. files \in Seq(File)
  BY DEF TailInv, WatcherTypes
<1>1. ASSUME NEW i \in DOMAIN files, NEW text \in Chunk, LogWrite(i, text)
      PROVE  FilesGrow /\ UNCHANGED <<watchVars, auxVars>>
  <2> DEFINE f == [bytes |-> files[i].bytes \o text, truncs |-> files[i].truncs,
                   link |-> files[i].link]
  <2>1. files[i] \in File /\ files[i].bytes \in Seq(Byte) /\ text \in Seq(Byte)
    BY <1>0, FileType DEF TailAssumption
  <2>2. /\ files[i].bytes \o text \in Seq(Byte)
        /\ BeginsWith(files[i].bytes \o text, files[i].bytes)
    <3>1. Len(files[i].bytes) \in Nat /\ Len(text) \in Nat
      BY <2>1, LenProperties
    <3> QED BY <2>1, <3>1, ConcatProperties DEF BeginsWith
  <2>3. f \in File
    BY <2>1, <2>2 DEF File
  <2>4. files' = [files EXCEPT ![i] = f]
    BY <1>1, <2>1, FileFields DEF LogWrite
  <2>5. FilesGrow
    BY <1>0, <2>2, <2>3, <2>4, OneFileGrows
  <2> QED BY <1>1, <2>5 DEF LogWrite, EnvUnchanged
<1>2. ASSUME NEW i \in DOMAIN files, LogTruncate(i)
      PROVE  FilesGrow /\ UNCHANGED <<watchVars, auxVars>>
  <2> DEFINE f == [bytes |-> <<>>, truncs |-> files[i].truncs + 1,
                   link |-> files[i].link]
  <2>1. files[i] \in File /\ files[i].truncs \in Nat
    BY <1>0, FileType
  <2>2. f \in File
    BY <2>1, EmptySeq DEF File
  <2>3. files' = [files EXCEPT ![i] = f]
    BY <1>2 DEF LogTruncate
  <2>4. FilesGrow
    BY <1>0, <2>2, <2>3, OneFileGrows
  <2> QED BY <1>2, <2>4 DEF LogTruncate, EnvUnchanged
<1>3. ASSUME NEW i \in DOMAIN files, NEW link \in {"renamed", "unlinked", "freed"},
             files' = [files EXCEPT ![i].link = link]
      PROVE  FilesGrow
  <2> DEFINE f == [bytes |-> files[i].bytes, truncs |-> files[i].truncs, link |-> link]
  <2>1. files[i] \in File /\ files[i].bytes \in Seq(Byte)
    BY <1>0, FileType
  <2>2. f \in File
    BY <2>1 DEF File
  <2>3. files' = [files EXCEPT ![i] = f]
    BY <1>3, <2>1, FileFields
  <2>4. BeginsWith(f.bytes, files[i].bytes)
    BY <2>1, LenProperties DEF BeginsWith
  <2> QED BY <1>0, <2>2, <2>3, <2>4, OneFileGrows
<1>4. ASSUME NEW i \in DOMAIN files, LogFree(i)
      PROVE  FilesGrow /\ UNCHANGED <<watchVars, auxVars>>
  BY <1>3, <1>4 DEF LogFree, EnvUnchanged
<1>5. CASE LogRename
  BY <1>3, <1>5, PathIsFile DEF LogRename, EnvUnchanged
<1>6. CASE LogUnlink
  BY <1>3, <1>6, PathIsFile DEF LogUnlink, EnvUnchanged
<1>7. CASE LogCreate
  <2>1. files' = Append(files, NewFile) /\ NewFile \in File
    BY <1>7, EmptySeq DEF LogCreate, NewFile, File
  <2>2. /\ files' \in Seq(File) /\ Len(files') = Len(files) + 1
        /\ \A i \in 1 .. Len(files) : files'[i] = files[i]
    BY <1>0, <2>1, AppendProperties
  <2>3. DOMAIN files = 1 .. Len(files) /\ DOMAIN files' = 1 .. Len(files') /\ Len(files) \in Nat
    BY <1>0, <2>2, LenProperties
  <2>4. ASSUME NEW i \in DOMAIN files
        PROVE  /\ files[i].truncs <= files'[i].truncs
               /\ BeginsWith(files'[i].bytes, files[i].bytes)
    <3>1. files[i].truncs \in Nat /\ Len(files[i].bytes) \in Nat
      BY <1>0, FileType, LenProperties
    <3>2. files'[i] = files[i]
      BY <2>2, <2>3
    <3> QED BY <3>1, <3>2 DEF BeginsWith
  <2>5. FilesGrow
    BY <2>2, <2>3, <2>4 DEF FilesGrow
  <2> QED BY <1>7, <2>5 DEF LogCreate, EnvUnchanged
<1> QED BY <1>1, <1>2, <1>4, <1>5, <1>6, <1>7

\* In the beginning nothing was read.
LEMMA TailInit ==
  ASSUME Init, TailAssumption
  PROVE  TailInv
<1>1. PICK text \in {<<>>} \cup Chunk : files = <<[NewFile EXCEPT !.bytes = text]>>
  BY DEF Init
<1>2. text \in Seq(Byte)
  BY <1>1, EmptySeq DEF TailAssumption
<1>3. [NewFile EXCEPT !.bytes = text] \in File
  BY <1>2 DEF NewFile, File
<1>4. files \in Seq(File)
  BY <1>1, <1>3
<1>5. WatcherTypes
  BY <1>4, EmptySeq DEF Init, WatcherTypes
<1>6. SourcesSeen /\ NothingReadAtStart
  BY DEF Init, SourcesSeen, NothingReadAtStart
<1>7. ReadIsFile
  <2>1. got = <<>> /\ src = {} /\ filePos = 0 /\ from = 0
    BY DEF Init
  <2>2. Len(<<>>) = 0
    BY EmptySeq, Zenon
  <2>3. 0 = 0 + 0
    OBVIOUS
  <2>4. filePos = from + Len(got)
    BY <2>1, <2>2, <2>3, Zenon
  <2> QED BY <2>1, <2>4 DEF ReadIsFile, Intact
<1> QED BY <1>5, <1>6, <1>7 DEF TailInv

\* A step of the watcher that reads nothing and moves no position.
LEMMA QuietSteps ==
  ASSUME TailInv,
         \/ Fatal \/ AddWatch \/ OpenToRead \/ HandleRename \/ HandleRemove
         \/ HandleOther \/ CloseWatch
         \/ UnstackTake \/ UnstackSend \/ UnstackStop \/ HubReceive
         \/ UNCHANGED vars
  PROVE  TailInv'
<1> DEFINE PC == {"stat", "add", "wait", "read", "close", "done"}
<1>0. w \in [pc : PC, fd : Nat] /\ (w.pc = "read" => w.fd \in DOMAIN files)
  BY DEF TailInv, WatcherTypes
<1>1. UNCHANGED <<files, filePos, from, got, src>>
  BY DEF Fatal, AddWatch, OpenToRead, HandleRename, HandleRemove, HandleOther,
         CloseWatch, UnstackTake, UnstackSend, UnstackStop, HubReceive, vars,
         fileVars, watchVars, auxVars
<1>2. CASE w' = w
  BY <1>0, <1>1, <1>2, WatcherMovesOn
<1>3. CASE \E pc \in {"add", "wait", "close", "done"} : w' = [w EXCEPT !.pc = pc]
  <2>1. PICK pc \in {"add", "wait", "close", "done"} : w' = [w EXCEPT !.pc = pc]
    BY <1>3
  <2>2. w' \in [pc : PC, fd : Nat] /\ w'.pc = pc
    BY <1>0, <2>1
  <2> QED BY <1>1, <2>2, WatcherMovesOn
<1>4. CASE OpenToRead
  <2>1. w' = [pc |-> "read", fd |-> Path] /\ Path \in DOMAIN files
    BY <1>4, PathIsFile DEF OpenToRead
  <2>2. Path \in Nat
    BY <2>1, LenProperties DEF TailInv, WatcherTypes
  <2>3. w' \in [pc : PC, fd : Nat] /\ w'.pc = "read" /\ w'.fd = Path
    BY <2>1, <2>2
  <2> QED BY <1>1, <2>1, <2>3, WatcherMovesOn
<1>5. CASE AddWatch \/ HandleRename \/ HandleRemove \/ CloseWatch
  <2>1. \E pc \in {"add", "wait", "close", "done"} : w' = [w EXCEPT !.pc = pc]
    BY <1>5 DEF AddWatch, HandleRename, HandleRemove, CloseWatch
  <2> QED BY <1>3, <2>1
<1>6. CASE Fatal \/ HandleOther \/ UnstackTake \/ UnstackSend \/ UnstackStop
           \/ HubReceive \/ UNCHANGED vars
  BY <1>2, <1>6 DEF Fatal, HandleOther, UnstackTake, UnstackSend, UnstackStop,
                    HubReceive, vars, watchVars
<1> QED BY <1>4, <1>5, <1>6

\* Every step keeps the invariant of the watcher.
LEMMA TailStep ==
  ASSUME TailInv, TailAssumption, [Next]_vars
  PROVE  TailInv'
<1>1. CASE \/ \E i \in DOMAIN files : \/ \E text \in Chunk : LogWrite(i, text)
                                      \/ LogTruncate(i) \/ LogFree(i)
           \/ LogRename \/ LogUnlink \/ LogCreate
  BY <1>1, EnvironmentGrows, EnvironmentKeeps
<1>2. CASE StartAtEnd
  BY <1>2, StartMaintains
<1>3. CASE QueueReset
  BY <1>3, ResetMaintains
<1>4. CASE ReadFile
  BY <1>4, ReadMaintains
<1>5. CASE \/ Fatal \/ AddWatch \/ OpenToRead \/ HandleRename \/ HandleRemove
           \/ HandleOther \/ CloseWatch
           \/ UnstackTake \/ UnstackSend \/ UnstackStop \/ HubReceive
           \/ UNCHANGED vars
  BY <1>5, QuietSteps
<1> QED BY <1>1, <1>2, <1>3, <1>4, <1>5 DEF Next

-----------------------------------------------------------------------------
(* The theorems *)

\* The invariant of the watcher holds for every log and every schedule of the
\* watcher, the logging program and the sender (watcher.go:29-93).
THEOREM TailInvariant == Spec => []TailInv
<1>1. Init => TailInv
  BY TailInit, TailAssumption
<1>2. TailInv /\ [Next]_vars => TailInv'
  BY TailStep, TailAssumption
<1> QED BY <1>1, <1>2, PTL DEF Spec

\* What was read since the last reset is exactly the part of an intact file that
\* ends at filePos, for any size of buffer (watcher.go:42-72).
THEOREM TailReadIsFile == Spec => []ReadIsFile
<1>1. TailInv => ReadIsFile
  BY DEF TailInv
<1> QED BY <1>1, TailInvariant, PTL

\* A log that was not truncated or replaced is never reset (watcher.go:46).
THEOREM TailNoSpuriousReset == Spec => NoSpuriousReset
<1>1. ASSUME TailInv, QueueReset, NEW i \in DOMAIN files, i = Path
      PROVE  ~Intact(i)
  <2>1. Size(i) < filePos
    BY <1>1 DEF QueueReset
  <2>2. Intact(i) => filePos <= Size(i)
    BY <1>1 DEF TailInv, ReadIsFile
  <2>3. Size(i) \in Nat /\ filePos \in Nat
    BY <1>1, FileType DEF TailInv, WatcherTypes
  <2> QED BY <2>1, <2>2, <2>3
<1>2. TailInv => [\A i \in DOMAIN files : (QueueReset /\ i = Path) => ~Intact(i)]_vars
  BY <1>1
<1> QED BY <1>2, TailInvariant, PTL DEF NoSpuriousReset

-----------------------------------------------------------------------------
(* Nothing is unread at rest *)

\* One file at most is at the path.
OneLinked == \A i, j \in Linked : i = j

\* The watcher waits and reads with a watch on a file.
WatchHeld == w.pc \in {"wait", "read"} => watch \in DOMAIN files

WritePending == \E k \in DOMAIN events : events[k] = "write"

\* In the file that is watched and at the path, the position is the end or a write is
\* still to be handled, with the exceptions of lag.
Caught ==
  (w.pc = "wait" /\ watch = Path /\ lag = "none") => filePos = Size(watch) \/ WritePending

\* A read of this file is a read of its end, or a truncation is still to be handled.
ReadCatches ==
  (w.pc = "read" /\ watch = Path) => w.fd = watch /\ (filePos <= Size(watch) \/ WritePending)

RestInv == OneLinked /\ WatchHeld /\ Caught /\ ReadCatches

\* What TailInv does not say of the types.
OtherTypes ==
  /\ dynamic \in Kinds /\ status \in {"up", "fatal"}
  /\ watch \in {0} \cup DOMAIN files
  /\ events \in Seq({"write", "attrib", "rename", "remove"})
  /\ again \in BOOLEAN
  /\ SendTypes
  /\ lag \in {"none", "gap", "reset", "full"}
  /\ shown \in Seq(Byte)

-----------------------------------------------------------------------------
(* Texts and events *)

\* A part of a text.
LEMMA PartType ==
  ASSUME NEW s \in Seq(Byte), NEW m \in Nat \ {0}, NEW n \in Int, n <= Len(s)
  PROVE  SubSeq(s, m, n) \in Seq(Byte)
<1>1. \A k \in m .. n : s[k] \in Byte
  <2>1. Len(s) \in Nat
    BY LenProperties
  <2>2. \A k \in m .. n : k \in 1 .. Len(s)
    BY <2>1
  <2> QED BY <2>2, ElementOfSeq
<1> QED BY <1>1, SubSeqProperties

\* A trimmed text is a text.
LEMMA TrimType ==
  ASSUME NEW s \in Seq(Byte)
  PROVE  Trim(s) \in Seq(Byte)
<1> DEFINE kept == {i \in DOMAIN s : s[i] # Newline}
<1>1. Len(s) \in Nat /\ DOMAIN s = 1 .. Len(s)
  BY LenProperties
<1>2. CASE kept = {}
  BY <1>2, EmptySeq DEF Trim
<1>3. CASE kept # {}
  <2>1. kept \subseteq 1 .. Len(s)
    BY <1>1
  <2>2. kept \subseteq Nat /\ kept \subseteq 0 .. Len(s)
    BY <2>1
  <2>3. Trim(s) = SubSeq(s, Min(kept), Max(kept))
    BY <1>3 DEF Trim
  <2> HIDE DEF kept
  <2>4. Min(kept) \in kept
    BY <1>3, <2>2, LeastNumber DEF Min
  <2>5. Max(kept) \in kept
    BY <1>1, <1>3, <2>2, GreatestNumber DEF Max
  <2>6. Min(kept) \in 1 .. Len(s) /\ Max(kept) \in 1 .. Len(s)
    BY <2>1, <2>4, <2>5, Zenon
  <2>7. Min(kept) \in Nat \ {0} /\ Max(kept) \in Int /\ Max(kept) <= Len(s)
    BY <1>1, <2>6
  <2> QED BY <2>3, <2>7, PartType
<1> QED BY <1>2, <1>3

\* The parts of a split text are texts.
LEMMA SplitType ==
  ASSUME NEW s \in Seq(Byte)
  PROVE  Split(s) \in Seq(Seq(Byte))
<1> DEFINE cuts == {0, Len(s) + 1} \cup {i \in DOMAIN s : s[i] = Newline}
           Cut(k) == CHOOSE i \in cuts : Cardinality({j \in cuts : j < i}) = k - 1
           n == Cardinality(cuts) - 1
           f == [k \in 1 .. n |-> SubSeq(s, Cut(k) + 1, Cut(k + 1) - 1)]
<1>1. Len(s) \in Nat /\ DOMAIN s = 1 .. Len(s)
  BY LenProperties
<1>2. cuts \subseteq 0 .. Len(s) + 1 /\ Len(s) + 1 \in Nat
  BY <1>1
<1>3. Split(s) = f
  BY DEF Split
<1>4. 0 \in cuts
  OBVIOUS
<1> HIDE DEF cuts
<1>5. IsFiniteSet(cuts) /\ Cardinality(cuts) \in Nat /\ Cardinality(cuts) # 0
  BY <1>2, <1>4, BelowFinite, FS_EmptySet
<1>6. \A k \in 1 .. Cardinality(cuts) : Cut(k) \in cuts
  <2> SUFFICES ASSUME NEW k \in 1 .. Cardinality(cuts) PROVE Cut(k) \in cuts
    OBVIOUS
  <2>1. \E i \in cuts : Cardinality({j \in cuts : j < i}) = k - 1
    BY <1>2, BeforeTaken DEF Before
  <2> QED BY <2>1
<1>7. n \in Nat /\ \A k \in 1 .. n : k \in 1 .. Cardinality(cuts) /\ k + 1 \in 1 .. Cardinality(cuts)
  BY <1>5
<1> HIDE DEF n, Cut
<1>8. ASSUME NEW k \in 1 .. n PROVE SubSeq(s, Cut(k) + 1, Cut(k + 1) - 1) \in Seq(Byte)
  <2>1. Cut(k) \in 0 .. Len(s) + 1 /\ Cut(k + 1) \in 0 .. Len(s) + 1
    BY <1>2, <1>6, <1>7
  <2>2. Cut(k) + 1 \in Nat \ {0} /\ Cut(k + 1) - 1 \in Int /\ Cut(k + 1) - 1 <= Len(s)
    BY <1>1, <2>1
  <2> QED BY <2>2, PartType
<1>9. f \in [1 .. n -> Seq(Byte)]
  BY <1>8
<1> HIDE DEF f
<1> QED BY <1>3, <1>7, <1>9, SeqDef

\* The lines of a read are texts.
LEMMA LinesType ==
  ASSUME NEW s \in Seq(Byte)
  PROVE  Lines(s) \in Seq(Seq(Byte))
<1>1. CASE Trim(s) = <<>>
  BY <1>1, EmptySeq DEF Lines
<1>2. CASE Trim(s) # <<>>
  BY <1>2, TrimType, SplitType DEF Lines
<1> QED BY <1>1, <1>2

\* What unstack makes of an entry of the queue are events.
LEMMA ExpandType ==
  ASSUME NEW e \in Event
  PROVE  Expand(e) \in Seq(Event)
<1> DEFINE lines == Lines(e.text)
           f == [k \in DOMAIN lines |-> AddEvent(lines[k])]
<1>1. lines \in Seq(Seq(Byte)) /\ Expand(e) = IF e.type = "RESET" THEN <<e>> ELSE f
  BY LinesType DEF Event, Expand
<1> HIDE DEF lines
<1>2. Len(lines) \in Nat /\ DOMAIN lines = 1 .. Len(lines)
  BY <1>1, LenProperties
<1>3. \A k \in DOMAIN lines : AddEvent(lines[k]) \in Event
  BY <1>1, <1>2, ElementOfSeq DEF AddEvent, Event
<1>4. f \in [1 .. Len(lines) -> Event]
  BY <1>2, <1>3
<1> HIDE DEF f
<1>5. f \in Seq(Event)
  BY <1>2, <1>4, SeqDef
<1> QED BY <1>1, <1>5

-----------------------------------------------------------------------------
(* Every variable has its type *)

\* In the beginning the other variables have their types.
LEMMA OtherTypesInit ==
  ASSUME Init
  PROVE  OtherTypes
<1>1. /\ dynamic \in Kinds /\ status = "up" /\ watch = 0 /\ events = <<>> /\ again = TRUE
      /\ queue = <<>> /\ u = [pc |-> "poll", lines |-> <<>>] /\ stop = FALSE /\ out = <<>>
      /\ lag = "none" /\ shown = <<>>
  BY DEF Init
<1>2. ChannelCap \in Nat
  BY TailAssumption
<1>3. SendTypes
  <2>1. <<>> \in Seq(Event) /\ Len(<<>>) = 0
    BY EmptySeq
  <2>2. u \in [pc : {"poll", "send", "done"}, lines : Seq(Event)] /\ u.lines = <<>> /\ u.pc = "poll"
    BY <1>1, <2>1
  <2>3. out \in Seq(Event) /\ queue \in Seq(Event)
    BY <1>1, <2>1
  <2>4. Len(out) <= ChannelCap
    <3>1. Len(out) = 0
      BY <1>1, <2>1
    <3> QED BY <1>2, <3>1
  <2>5. u.pc = "send" <=> u.lines # <<>>
    BY <2>2
  <2> QED BY <1>1, <2>2, <2>3, <2>4, <2>5 DEF SendTypes
<1> QED BY <1>1, <1>3, EmptySeq DEF OtherTypes

\* The environment changes files, and what is notified of the file that is watched.
LEMMA EnvironmentTypes ==
  ASSUME TailInv, OtherTypes,
         \/ \E i \in DOMAIN files : \/ \E text \in Chunk : LogWrite(i, text)
                                    \/ LogTruncate(i) \/ LogFree(i)
         \/ LogRename \/ LogUnlink \/ LogCreate
  PROVE  OtherTypes'
<1> DEFINE K == {"write", "attrib", "rename", "remove"}
<1>1. FilesGrow
  BY EnvironmentGrows, TailAssumption
<1>2. UNCHANGED <<dynamic, status, watch, again, queue, u, out, shown, stop, lag>>
  BY DEF LogWrite, LogTruncate, LogFree, LogRename, LogUnlink, LogCreate, EnvUnchanged,
         procVars, watchVars, sendVars, auxVars
<1>3. events' = events \/ \E kind \in K : events' = Append(events, kind)
  BY DEF LogWrite, LogTruncate, LogFree, LogRename, LogUnlink, LogCreate, Notify
<1>4. events' \in Seq(K)
  <2>1. events \in Seq(K)
    BY DEF OtherTypes
  <2>2. ASSUME NEW kind \in K
        PROVE  Append(events, kind) \in Seq(K)
    <3> HIDE DEF K
    <3> QED BY <2>1, AppendProperties
  <2> HIDE DEF K
  <2> QED BY <1>3, <2>1, <2>2
<1>5. SendTypes'
  BY <1>2 DEF OtherTypes, SendTypes
<1>6. watch' \in {0} \cup DOMAIN files'
  BY <1>1, <1>2 DEF FilesGrow, OtherTypes
<1> QED BY <1>2, <1>4, <1>5, <1>6 DEF OtherTypes

\* What is read of a file is a text.
LEMMA ReadFromType ==
  ASSUME TailInv, w.pc = "read"
  PROVE  ReadFrom(w.fd) \in Seq(Byte)
<1>1. w.fd \in DOMAIN files /\ filePos \in Nat /\ files \in Seq(File)
  BY DEF TailInv, WatcherTypes
<1>2. files[w.fd].bytes \in Seq(Byte) /\ Size(w.fd) = Len(files[w.fd].bytes)
      /\ Size(w.fd) \in Nat
  BY <1>1, FileType
<1>3. BufferSize \in Nat
  BY TailAssumption
<1> DEFINE n == IF Size(w.fd) - filePos > BufferSize THEN filePos + BufferSize ELSE Size(w.fd)
<1>4. n \in Int /\ n <= Len(files[w.fd].bytes) /\ filePos + 1 \in Nat \ {0}
  BY <1>1, <1>2, <1>3
<1>5. ReadFrom(w.fd) = SubSeq(files[w.fd].bytes, filePos + 1, n)
  BY DEF ReadFrom
<1> HIDE DEF n
<1> QED BY <1>2, <1>4, <1>5, PartType

\* An entry for the queue is an event.
LEMMA QueueTypes ==
  ASSUME SendTypes, NEW e \in Event, queue' = Append(queue, e), UNCHANGED <<sendVars, stop>>
  PROVE  SendTypes'
<1>1. queue' \in Seq(Event)
  BY AppendProperties DEF SendTypes
<1> QED BY <1>1 DEF SendTypes, sendVars

\* The steps of watchServ keep the other types.
LEMMA WatcherStepTypes ==
  ASSUME TailInv, OtherTypes,
         \/ Fatal \/ StartAtEnd \/ AddWatch \/ QueueReset \/ OpenToRead \/ ReadFile
         \/ HandleRename \/ HandleRemove \/ HandleOther \/ CloseWatch
  PROVE  OtherTypes'
<1> DEFINE K == {"write", "attrib", "rename", "remove"}
<1> USE DEF procVars, fileVars, watchVars
<1>1. /\ dynamic \in Kinds /\ status \in {"up", "fatal"} /\ watch \in {0} \cup DOMAIN files
      /\ events \in Seq(K) /\ again \in BOOLEAN /\ SendTypes
      /\ lag \in {"none", "gap", "reset", "full"} /\ shown \in Seq(Byte)
      /\ dynamic \in BOOLEAN
  BY TailAssumption DEF OtherTypes
<1>2. events' \in Seq(K)
  <2>1. \/ events' = events \/ events' = <<>>
        \/ events # <<>> /\ events' = Tail(events)
    BY DEF Fatal, StartAtEnd, AddWatch, QueueReset, OpenToRead, ReadFile, HandleRename,
           HandleRemove, HandleOther, CloseWatch, Notified
  <2> QED BY <1>1, <2>1, EmptySeq, HeadTailProperties
<1>3. /\ dynamic' = dynamic /\ status' \in {"up", "fatal"} /\ files' = files
      /\ shown' = shown /\ again' \in BOOLEAN
      /\ lag' \in {"none", "gap", "reset", "full"}
  BY <1>1 DEF Fatal, StartAtEnd, AddWatch, QueueReset, OpenToRead, ReadFile, HandleRename,
              HandleRemove, HandleOther, CloseWatch, sendVars, auxVars
<1>4. watch' \in {0} \cup DOMAIN files
  BY <1>1, PathIsFile DEF Fatal, StartAtEnd, AddWatch, QueueReset, OpenToRead, ReadFile,
              HandleRename, HandleRemove, HandleOther, CloseWatch
<1>5. SendTypes'
  <2>1. CASE UNCHANGED <<queue, sendVars, stop>>
    BY <1>1, <2>1 DEF SendTypes, sendVars
  <2>2. CASE QueueReset
    <3>1. ResetEvent \in Event
      BY EmptySeq DEF ResetEvent, Event
    <3> QED BY <1>1, <2>2, <3>1, QueueTypes DEF QueueReset
  <2>3. CASE ReadFile
    <3>1. CASE ReadFrom(w.fd) = <<>>
      BY <2>1, <2>3, <3>1 DEF ReadFile
    <3>2. CASE ReadFrom(w.fd) # <<>>
      <4>1. AddEvent(ReadFrom(w.fd)) \in Event
        BY <2>3, ReadFromType DEF ReadFile, AddEvent, Event
      <4> QED BY <1>1, <2>3, <3>2, <4>1, QueueTypes DEF ReadFile
    <3> QED BY <3>1, <3>2
  <2>4. CASE CloseWatch
    <3>1. UNCHANGED <<queue, sendVars>> /\ stop' \in BOOLEAN
      BY <1>1, <2>4 DEF CloseWatch
    <3> QED BY <1>1, <3>1 DEF SendTypes, sendVars
  <2> QED
    BY <2>1, <2>2, <2>3, <2>4 DEF Fatal, StartAtEnd, AddWatch, OpenToRead, HandleRename,
                                  HandleRemove, HandleOther
<1> QED BY <1>1, <1>2, <1>3, <1>4, <1>5 DEF OtherTypes

\* The steps of the unstacker and of the hub keep the other types.
LEMMA SenderStepTypes ==
  ASSUME TailInv, OtherTypes, UnstackTake \/ UnstackSend \/ UnstackStop \/ HubReceive
  PROVE  OtherTypes'
<1> USE DEF procVars, fileVars, watchVars, auxVars
<1>1. UNCHANGED <<dynamic, status, files, watch, events, again, lag, stop>>
  BY DEF UnstackTake, UnstackSend, UnstackStop, HubReceive
<1>2. /\ queue \in Seq(Event) /\ out \in Seq(Event) /\ Len(out) <= ChannelCap
      /\ u.lines \in Seq(Event) /\ u.pc \in {"poll", "send", "done"}
      /\ u.pc = "send" <=> u.lines # <<>>
      /\ stop \in BOOLEAN /\ shown \in Seq(Byte) /\ Len(out) \in Nat
      /\ ChannelCap \in Nat
  BY TailAssumption, LenProperties DEF OtherTypes, SendTypes
<1>3. ASSUME NEW pc \in {"poll", "done"},
             \/ u' = u
             \/ u' = [pc |-> pc, lines |-> <<>>]
             \/ \E lines \in Seq(Event) :
                  u' = [pc |-> IF lines = <<>> THEN "poll" ELSE "send", lines |-> lines]
      PROVE  /\ u' \in [pc : {"poll", "send", "done"}, lines : Seq(Event)]
             /\ u'.pc = "send" <=> u'.lines # <<>>
  <2>1. CASE u' = u
    BY <2>1 DEF OtherTypes, SendTypes
  <2>2. CASE u' = [pc |-> pc, lines |-> <<>>]
    BY <2>2, EmptySeq
  <2>3. ASSUME NEW lines \in Seq(Event),
               u' = [pc |-> IF lines = <<>> THEN "poll" ELSE "send", lines |-> lines]
        PROVE  /\ u' \in [pc : {"poll", "send", "done"}, lines : Seq(Event)]
               /\ u'.pc = "send" <=> u'.lines # <<>>
    BY <2>3
  <2> QED BY <1>3, <2>1, <2>2, <2>3
<1>4. CASE UnstackTake
  <2>1. Head(queue) \in Event /\ Tail(queue) \in Seq(Event)
    BY <1>2, <1>4, HeadTailProperties DEF UnstackTake
  <2>2. Expand(Head(queue)) \in Seq(Event)
    BY <2>1, ExpandType
  <2>3. /\ u' \in [pc : {"poll", "send", "done"}, lines : Seq(Event)]
        /\ u'.pc = "send" <=> u'.lines # <<>>
    BY <1>3, <1>4, <2>2 DEF UnstackTake
  <2>4. queue' \in Seq(Event) /\ UNCHANGED <<out, shown>>
    BY <1>4, <2>1 DEF UnstackTake
  <2> QED BY <1>1, <1>2, <2>3, <2>4 DEF OtherTypes, SendTypes
<1>5. CASE UnstackSend
  <2>1. Head(u.lines) \in Event /\ Tail(u.lines) \in Seq(Event)
    BY <1>2, <1>5, HeadTailProperties DEF UnstackSend
  <2>2. /\ u' \in [pc : {"poll", "send", "done"}, lines : Seq(Event)]
        /\ u'.pc = "send" <=> u'.lines # <<>>
    BY <1>3, <1>5, <2>1 DEF UnstackSend, AfterSend
  <2>3. out' \in Seq(Event) /\ Len(out') <= ChannelCap
    BY <1>2, <1>5, <2>1, AppendProperties DEF UnstackSend
  <2>4. shown' \in Seq(Byte)
    <3>1. Head(u.lines).text \in Seq(Byte)
      BY <2>1 DEF Event
    <3> QED BY <1>2, <1>5, <3>1, EmptySeq, ConcatProperties DEF UnstackSend, Display
  <2>5. UNCHANGED queue
    BY <1>5 DEF UnstackSend
  <2> QED BY <1>1, <1>2, <2>2, <2>3, <2>4, <2>5 DEF OtherTypes, SendTypes
<1>6. CASE UnstackStop
  <2>1. /\ u' \in [pc : {"poll", "send", "done"}, lines : Seq(Event)]
        /\ u'.pc = "send" <=> u'.lines # <<>>
    BY <1>3, <1>6 DEF UnstackStop
  <2> QED BY <1>1, <1>2, <1>6, <2>1 DEF UnstackStop, OtherTypes, SendTypes
<1>7. CASE HubReceive
  <2>1. out' \in Seq(Event) /\ Len(out') <= ChannelCap
    BY <1>2, <1>7, HeadTailProperties DEF HubReceive
  <2>2. UNCHANGED <<queue, u, shown>>
    BY <1>7 DEF HubReceive
  <2> QED BY <1>1, <1>2, <2>1, <2>2 DEF OtherTypes, SendTypes
<1> QED BY <1>4, <1>5, <1>6, <1>7

\* Every step keeps the other types.
LEMMA OtherTypesStep ==
  ASSUME TailInv, OtherTypes, [Next]_vars
  PROVE  OtherTypes'
<1>1. CASE UNCHANGED vars
  BY <1>1 DEF OtherTypes, SendTypes, vars, procVars, fileVars, watchVars, sendVars, auxVars
<1> QED
  BY <1>1, EnvironmentTypes, WatcherStepTypes, SenderStepTypes DEF Next

\* Every variable of the tail keeps its type, and outputChannel holds no more than
\* fits, whatever the logging program does.
THEOREM TailTypeOK == Spec => []TypeOK
<1>1. Init => OtherTypes
  BY OtherTypesInit
<1>2. TailInv /\ OtherTypes /\ [Next]_vars => OtherTypes'
  BY OtherTypesStep
<1>3. TailInv /\ OtherTypes => TypeOK
  <2> SUFFICES ASSUME TailInv, OtherTypes PROVE TypeOK
    OBVIOUS
  <2>1. FileTypes /\ WatchTypes
    BY DEF TailInv, WatcherTypes, OtherTypes, FileTypes, WatchTypes
  <2>2. src \subseteq Nat \X Nat
    <3>1. DOMAIN files \subseteq Nat
      BY LenProperties DEF TailInv, WatcherTypes
    <3> QED BY <3>1 DEF TailInv, SourcesSeen
  <2>3. AuxTypes
    BY <2>2 DEF TailInv, WatcherTypes, OtherTypes, AuxTypes
  <2> QED BY <2>1, <2>3 DEF OtherTypes, TypeOK
<1> QED BY <1>1, <1>2, <1>3, TailInvariant, PTL DEF Spec

-----------------------------------------------------------------------------
(* Nothing is unread at rest: the steps *)

\* A notification about a file, if it is the one that is watched.
LEMMA NotifyEffect ==
  ASSUME OtherTypes, NEW i, NEW kind \in {"write", "attrib", "rename", "remove"},
         Notify(i, kind)
  PROVE  /\ WritePending => WritePending'
         /\ watch = i /\ kind = "write" => WritePending'
<1>1. events \in Seq({"write", "attrib", "rename", "remove"}) /\ Len(events) \in Nat
      /\ DOMAIN events = 1 .. Len(events)
  BY LenProperties DEF OtherTypes
<1>2. CASE events' = Append(events, kind)
  <2>1. /\ DOMAIN events' = 1 .. Len(events) + 1
        /\ \A k \in 1 .. Len(events) : events'[k] = events[k]
        /\ events'[Len(events) + 1] = kind
    BY <1>1, <1>2, AppendProperties, LenProperties
  <2>2. Len(events) + 1 \in DOMAIN events' /\ \A k \in DOMAIN events : k \in DOMAIN events'
    BY <1>1, <2>1
  <2> QED BY <1>1, <2>1, <2>2 DEF WritePending
<1>3. CASE events' = events /\ (watch = i => events # <<>> /\ events[Len(events)] = kind)
  <2>1. events # <<>> => Len(events) \in DOMAIN events
    BY <1>1, EmptySeq
  <2> QED BY <1>3, <2>1 DEF WritePending
<1> QED BY <1>2, <1>3 DEF Notify

\* What is left of the notifications when the first, no write, was handled.
LEMMA PendingRest ==
  ASSUME OtherTypes, events # <<>>, Head(events) # "write", events' = Tail(events), WritePending
  PROVE  WritePending'
<1>1. events \in Seq({"write", "attrib", "rename", "remove"}) /\ Len(events) \in Nat
      /\ DOMAIN events = 1 .. Len(events)
  BY LenProperties DEF OtherTypes
<1>2. /\ DOMAIN events' = 1 .. Len(events) - 1
      /\ \A k \in 1 .. Len(events) - 1 : events'[k] = events[k + 1]
      /\ Head(events) = events[1]
  <2>1. Tail(events) \in Seq({"write", "attrib", "rename", "remove"})
        /\ Len(Tail(events)) = Len(events) - 1
    BY <1>1, HeadTailProperties
  <2>2. DOMAIN events' = 1 .. Len(events) - 1
    BY <2>1, LenProperties
  <2> QED BY <1>1, <2>1, <2>2, HeadTailProperties
<1>3. PICK k \in DOMAIN events : events[k] = "write"
  BY DEF WritePending
<1>4. k \in 1 .. Len(events) /\ k # 1
  BY <1>1, <1>2, <1>3
<1>5. k - 1 \in 1 .. Len(events) - 1 /\ (k - 1) + 1 = k
  BY <1>1, <1>4
<1>6. events'[k - 1] = "write"
  BY <1>2, <1>3, <1>5
<1> QED BY <1>2, <1>5, <1>6 DEF WritePending

\* A step of the environment: the file that is watched is the one it was, at the path,
\* or a write to it is notified, or it is not at the path any more.
LEMMA EnvironmentRests ==
  ASSUME TailInv, OtherTypes, RestInv, OneLinked', FilesGrow, UNCHANGED <<watch, w, filePos, lag>>,
         WritePending => WritePending',
         watch \in DOMAIN files /\ watch = Path' => watch = Path,
         watch \in DOMAIN files /\ watch = Path' => Size(watch)' = Size(watch) \/ WritePending'
  PROVE  RestInv'
<1>1. WatchHeld'
  BY DEF RestInv, WatchHeld, FilesGrow
<1>2. w.pc \in {"wait", "read"} /\ watch = Path' =>
        watch = Path /\ (Size(watch)' = Size(watch) \/ WritePending')
  BY DEF RestInv, WatchHeld
<1>3. Caught'
  BY <1>2 DEF RestInv, Caught
<1>4. ReadCatches'
  BY <1>2 DEF RestInv, ReadCatches
<1> QED BY <1>1, <1>3, <1>4 DEF RestInv

\* As long as no file is linked or unlinked, the same one is at the path.
LEMMA SameLinks ==
  ASSUME OneLinked, DOMAIN files' = DOMAIN files,
         \A j \in DOMAIN files : files'[j].link = "linked" <=> files[j].link = "linked"
  PROVE  Path' = Path /\ OneLinked'
<1>1. Linked' = Linked
  BY DEF Linked
<1> QED BY <1>1 DEF Path, OneLinked

\* With no file linked, none is at the path.
LEMMA NoLinks ==
  ASSUME Linked' = {}
  PROVE  Path' = 0 /\ OneLinked'
BY DEF Path, OneLinked

\* Whatever the logging program does to a watched file that was read whole, it leaves
\* a write to be handled, or lag names the case.
LEMMA EnvironmentRestStep ==
  ASSUME TailInv, OtherTypes, RestInv,
         \/ \E i \in DOMAIN files : \/ \E text \in Chunk : LogWrite(i, text)
                                    \/ LogTruncate(i) \/ LogFree(i)
         \/ LogRename \/ LogUnlink \/ LogCreate
  PROVE  RestInv'
<1>1. FilesGrow /\ UNCHANGED <<watchVars, auxVars>>
  BY EnvironmentGrows, TailAssumption
<1>2. UNCHANGED <<watch, w, filePos, lag>>
  BY <1>1 DEF watchVars, auxVars, EnvUnchanged, LogWrite, LogTruncate, LogFree, LogRename,
              LogUnlink, LogCreate
<1>3. files \in Seq(File) /\ OneLinked /\ DOMAIN files = 1 .. Len(files) /\ Len(files) \in Nat
      /\ DOMAIN files \subseteq Nat \ {0}
  BY LenProperties DEF TailInv, WatcherTypes, RestInv
\* The file at i changes, and it is notified.
<1>4. ASSUME NEW i \in DOMAIN files, NEW f, files' = [files EXCEPT ![i] = f],
             NEW kind \in {"write", "attrib", "rename", "remove"}, Notify(i, kind),
             f.link = "linked" <=> files[i].link = "linked",
             f.bytes = files[i].bytes \/ kind = "write"
      PROVE  RestInv'
  <2>1. /\ DOMAIN files' = DOMAIN files /\ files'[i] = f
        /\ \A j \in DOMAIN files : j # i => files'[j] = files[j]
    BY <1>3, <1>4
  <2>2. Path' = Path /\ OneLinked'
    <3>1. \A j \in DOMAIN files : files'[j].link = "linked" <=> files[j].link = "linked"
      BY <1>4, <2>1
    <3> QED BY <1>3, <2>1, <3>1, SameLinks
  <2>3. WritePending => WritePending'
    BY <1>4, NotifyEffect
  <2>4. watch \in DOMAIN files => Size(watch)' = Size(watch) \/ WritePending'
    <3>1. CASE watch # i
      BY <1>2, <2>1, <3>1 DEF Size
    <3>2. CASE watch = i /\ f.bytes = files[i].bytes
      BY <1>2, <2>1, <3>2 DEF Size
    <3>3. CASE watch = i /\ kind = "write"
      BY <1>4, <3>3, NotifyEffect
    <3> QED BY <1>4, <3>1, <3>2, <3>3
  <2> QED BY <1>1, <1>2, <2>2, <2>3, <2>4, EnvironmentRests
<1>5. ASSUME NEW i \in DOMAIN files, NEW text \in Chunk, LogWrite(i, text) PROVE RestInv'
  <2> DEFINE f == [files[i] EXCEPT !.bytes = files[i].bytes \o text]
  <2>1. files' = [files EXCEPT ![i] = f] /\ Notify(i, "write")
    BY <1>5 DEF LogWrite
  <2>2. f.link = files[i].link
    BY <1>3, FileType DEF File
  <2> HIDE DEF f
  <2> QED BY <1>4, <2>1, <2>2
<1>6. ASSUME NEW i \in DOMAIN files, LogTruncate(i) PROVE RestInv'
  <2> DEFINE f == [bytes |-> <<>>, truncs |-> files[i].truncs + 1, link |-> files[i].link]
  <2>1. files' = [files EXCEPT ![i] = f] /\ Notify(i, "write") /\ f.link = files[i].link
    BY <1>6 DEF LogTruncate
  <2> HIDE DEF f
  <2> QED BY <1>4, <2>1
<1>7. ASSUME NEW i \in DOMAIN files, LogFree(i) PROVE RestInv'
  <2> DEFINE f == [files[i] EXCEPT !.link = "freed"]
  <2>1. files' = [files EXCEPT ![i] = f] /\ Notify(i, "remove")
    BY <1>7 DEF LogFree
  <2>2. f.link = "freed" /\ files[i].link = "unlinked" /\ f.bytes = files[i].bytes
    BY <1>3, <1>7, FileType DEF File, LogFree
  <2> HIDE DEF f
  <2> QED BY <1>4, <2>1, <2>2
<1>8. CASE LogRename \/ LogUnlink
  <2>1. PICK link \in {"renamed", "unlinked"}, kind \in {"rename", "attrib"} :
          files' = [files EXCEPT ![Path].link = link] /\ Path # 0 /\ Notify(Path, kind)
    BY <1>8 DEF LogRename, LogUnlink
  <2>2. Path \in Linked /\ Path \in DOMAIN files
    BY <2>1 DEF Path, Linked
  <2>3. Linked' = {}
    <3>1. DOMAIN files' = DOMAIN files /\ \A j \in DOMAIN files : j # Path => files'[j] = files[j]
      BY <2>1
    <3>2. files'[Path].link = link
      BY <1>3, <2>1, <2>2, FileType DEF File
    <3>3. \A j \in DOMAIN files : j # Path => files[j].link # "linked"
      BY <1>3, <2>2 DEF OneLinked, Linked
    <3> QED BY <3>1, <3>2, <3>3 DEF Linked
  <2>4. Path' = 0 /\ OneLinked'
    BY <2>3, NoLinks
  <2>5. WritePending => WritePending'
    BY <2>1, NotifyEffect
  <2>6. watch \in DOMAIN files => watch # Path'
    BY <1>3, <2>4
  <2> QED BY <1>1, <1>2, <2>4, <2>5, <2>6, EnvironmentRests
<1>9. CASE LogCreate
  <2>1. files' = Append(files, NewFile) /\ Path = 0 /\ UNCHANGED events
    BY <1>9 DEF LogCreate
  <2>2. NewFile \in File
    BY EmptySeq DEF NewFile, File
  <2>3. /\ DOMAIN files' = 1 .. Len(files) + 1
        /\ \A j \in 1 .. Len(files) : files'[j] = files[j]
        /\ files'[Len(files) + 1] = NewFile
    BY <1>3, <2>1, <2>2, AppendProperties, LenProperties
  <2>4. Linked = {}
    <3>1. Linked # {} => Path \in Linked
      BY DEF Path
    <3> QED BY <1>3, <2>1, <3>1 DEF Linked
  <2>5. Linked' = {Len(files) + 1}
    <3>1. \A j \in DOMAIN files' : j \in DOMAIN files \/ j = Len(files) + 1
      BY <1>3, <2>3
    <3>2. Len(files) + 1 \in DOMAIN files'
      BY <1>3, <2>3
    <3> QED BY <1>3, <2>3, <2>4, <3>1, <3>2 DEF Linked, NewFile
  <2>6. OneLinked' /\ Path' = Len(files) + 1
    BY <2>5 DEF OneLinked, Path
  <2>7. watch \in DOMAIN files => watch # Path'
    BY <1>3, <2>6
  <2>8. WritePending => WritePending'
    BY <2>1 DEF WritePending
  <2> QED BY <1>1, <1>2, <2>6, <2>7, <2>8, EnvironmentRests
<1> QED BY <1>5, <1>6, <1>7, <1>8, <1>9

\* A step of the watcher that leaves the files alone and waits or reads no more.
LEMMA NotWaiting ==
  ASSUME RestInv, UNCHANGED files, w'.pc \notin {"wait", "read"}
  PROVE  RestInv'
<1>1. OneLinked'
  BY DEF RestInv, OneLinked, Linked
<1> QED BY <1>1 DEF RestInv, WatchHeld, Caught, ReadCatches

\* A read that ends short of the end of the file, as it was at fstat, leaves a write
\* to be handled (watcher.go:52-77).
LEMMA ReadRests ==
  ASSUME TailInv, OtherTypes, RestInv, ReadFile
  PROVE  RestInv'
<1>1. /\ w.pc = "read" /\ w'.pc = "wait" /\ UNCHANGED <<files, watch, events>>
      /\ filePos' = IF ReadFrom(w.fd) = <<>> THEN filePos ELSE filePos + Len(ReadFrom(w.fd))
      /\ lag' = IF Len(ReadFrom(w.fd)) = BufferSize THEN "full" ELSE "none"
  BY DEF ReadFile, fileVars
<1>2. Path' = Path /\ OneLinked' /\ (WritePending <=> WritePending')
  BY <1>1 DEF RestInv, OneLinked, Linked, Path, WritePending
<1>3. WatchHeld' /\ ReadCatches'
  BY <1>1 DEF RestInv, WatchHeld, ReadCatches
<1>4. Caught'
  <2> SUFFICES ASSUME watch = Path, lag' = "none", ~WritePending
               PROVE  filePos' = Size(watch)
    BY <1>1, <1>2 DEF Caught, Size
  <2>1. w.fd = watch /\ filePos <= Size(watch) /\ watch \in DOMAIN files
    BY <1>1 DEF RestInv, ReadCatches, WatchHeld
  <2>2. /\ files[watch].bytes \in Seq(Byte) /\ Size(watch) = Len(files[watch].bytes)
        /\ Size(watch) \in Nat
    BY <2>1, FileType DEF TailInv, WatcherTypes
  <2>3. filePos \in Nat /\ BufferSize \in Nat \ {0}
    BY TailAssumption DEF TailInv, WatcherTypes
  <2> DEFINE n == IF Size(watch) - filePos > BufferSize THEN filePos + BufferSize
                                                        ELSE Size(watch)
             text == SubSeq(files[watch].bytes, filePos + 1, n)
  <2>4. ReadFrom(w.fd) = text
    BY <2>1 DEF ReadFrom
  <2>5. Len(text) = n - filePos
    <3>1. \A k \in filePos + 1 .. n : files[watch].bytes[k] \in Byte
      <4>1. \A k \in filePos + 1 .. n : k \in 1 .. Len(files[watch].bytes)
        BY <2>2, <2>3
      <4> QED BY <2>2, <4>1, ElementOfSeq
    <3>2. n \in Int /\ filePos + 1 \in Int /\ filePos <= n
      BY <2>1, <2>2, <2>3
    <3>3. Len(text) = IF filePos + 1 <= n THEN n - (filePos + 1) + 1 ELSE 0
      <4> HIDE DEF n
      <4> QED BY <3>1, <3>2, SubSeqProperties
    <3> HIDE DEF text, n
    <3> QED BY <2>3, <3>2, <3>3
  <2>6. n = Size(watch)
    <3> SUFFICES ASSUME Size(watch) - filePos > BufferSize PROVE FALSE
      OBVIOUS
    <3>1. Len(text) = BufferSize
      BY <2>2, <2>3, <2>5
    <3> QED BY <1>1, <2>4, <3>1
  <2>7. CASE text = <<>>
    <3>1. Len(text) = 0 /\ filePos' = filePos
      BY <1>1, <2>4, <2>7, EmptySeq
    <3> QED BY <2>2, <2>3, <2>5, <2>6, <3>1
  <2>8. CASE text # <<>>
    <3>1. filePos' = filePos + Len(text)
      BY <1>1, <2>4, <2>8
    <3> HIDE DEF text, n
    <3> QED BY <2>2, <2>3, <2>5, <2>6, <3>1
  <2> QED BY <2>7, <2>8
<1> QED BY <1>2, <1>3, <1>4 DEF RestInv

\* The other steps of watchServ, the unstacker and the hub leave nothing unread.
LEMMA WatcherRestStep ==
  ASSUME TailInv, OtherTypes, RestInv,
         \/ Fatal \/ StartAtEnd \/ AddWatch \/ QueueReset \/ OpenToRead \/ ReadFile
         \/ HandleRename \/ HandleRemove \/ HandleOther \/ CloseWatch
         \/ UnstackTake \/ UnstackSend \/ UnstackStop \/ HubReceive \/ UNCHANGED vars
  PROVE  RestInv'
<1> USE DEF fileVars, watchVars, auxVars
<1>0. UNCHANGED files
  BY DEF Fatal, StartAtEnd, AddWatch, QueueReset, OpenToRead, ReadFile, HandleRename,
         HandleRemove, HandleOther, CloseWatch, UnstackTake, UnstackSend, UnstackStop,
         HubReceive, vars
<1>a. Path' = Path /\ OneLinked' /\ \A i : Size(i)' = Size(i)
  BY <1>0 DEF RestInv, OneLinked, Linked, Path, Size
<1>b. w \in [pc : {"stat", "add", "wait", "read", "close", "done"}, fd : Nat]
  BY DEF TailInv, WatcherTypes
<1>1. CASE UNCHANGED <<watch, events, w, filePos, lag>>
  BY <1>0, <1>1, <1>a DEF RestInv, WatchHeld, Caught, ReadCatches, WritePending
<1>2. CASE StartAtEnd
  <2>1. w'.pc = "add"
    BY <1>2, <1>b DEF StartAtEnd
  <2> QED BY <1>0, <2>1, NotWaiting
<1>3. CASE AddWatch
  <2>1. /\ w'.pc = "wait" /\ watch' = Path /\ Path # 0 /\ UNCHANGED filePos
        /\ lag' = IF Size(Path) = filePos THEN "none" ELSE "gap"
    BY <1>3, <1>b DEF AddWatch
  <2>2. WatchHeld' /\ ReadCatches'
    BY <1>0, <2>1, PathIsFile DEF WatchHeld, ReadCatches
  <2>3. Caught'
    BY <1>a, <2>1 DEF Caught
  <2> QED BY <1>a, <2>2, <2>3 DEF RestInv
<1>4. CASE QueueReset
  <2>1. lag' = "reset" /\ w' = w /\ w.pc = "wait" /\ watch' = watch
    BY <1>4 DEF QueueReset, Notified
  <2> QED BY <1>0, <1>a, <2>1 DEF RestInv, WatchHeld, Caught, ReadCatches
<1>5. CASE OpenToRead
  <2>1. /\ w.pc = "wait" /\ w' = [pc |-> "read", fd |-> Path] /\ Size(Path) >= filePos
        /\ UNCHANGED <<watch, filePos>> /\ Path # 0
    BY <1>5 DEF OpenToRead, Notified
  <2>2. w'.pc = "read" /\ w'.fd = Path
    BY <2>1
  <2>3. WatchHeld' /\ Caught'
    BY <1>0, <2>1, <2>2 DEF RestInv, WatchHeld, Caught
  <2>4. ReadCatches'
    <3>1. Size(Path) \in Nat /\ filePos \in Nat
      BY <2>1, PathIsFile, FileType DEF TailInv, WatcherTypes
    <3> QED BY <1>a, <2>1, <2>2, <3>1 DEF ReadCatches
  <2> QED BY <1>a, <2>3, <2>4 DEF RestInv
<1>6. CASE HandleRename \/ HandleRemove
  <2>1. w'.pc = "close"
    BY <1>6, <1>b DEF HandleRename, HandleRemove
  <2> QED BY <1>0, <2>1, NotWaiting
<1>7. CASE HandleOther
  <2>1. /\ w.pc = "wait" /\ UNCHANGED <<watch, w, filePos, lag>>
        /\ events # <<>> /\ Head(events) = "attrib" /\ events' = Tail(events)
    BY <1>7 DEF HandleOther, Notified
  <2>2. WritePending => WritePending'
    BY <2>1, PendingRest
  <2>3. WatchHeld' /\ ReadCatches' /\ Caught'
    BY <1>0, <1>a, <2>1, <2>2 DEF RestInv, WatchHeld, Caught, ReadCatches
  <2> QED BY <1>a, <2>3 DEF RestInv
<1>8. CASE CloseWatch
  <2>1. w'.pc \in {"add", "done"}
    BY <1>8, <1>b DEF CloseWatch
  <2> QED BY <1>0, <2>1, NotWaiting
<1>9. CASE ReadFile
  BY <1>9, ReadRests
<1>10. CASE Fatal \/ UnstackTake \/ UnstackSend \/ UnstackStop \/ HubReceive \/ UNCHANGED vars
  BY <1>1, <1>10 DEF Fatal, UnstackTake, UnstackSend, UnstackStop, HubReceive, vars
<1> QED BY <1>2, <1>3, <1>4, <1>5, <1>6, <1>7, <1>8, <1>9, <1>10

\* When the watcher waits and has handled every notification of the file at the path,
\* the bytes it read are all those of the file behind the position it started from,
\* but for the three cases of lag and a position that was reached in another file or
\* before a truncation: for any size of the buffer and any merging of notifications.
THEOREM TailAtRestAllRead == Spec => []AtRestAllRead
<1>1. Init => RestInv
  <2> SUFFICES ASSUME Init PROVE RestInv
    OBVIOUS
  <2>1. w.pc = "stat" /\ Len(files) = 1
    BY DEF Init
  <2>2. OneLinked
    <3>1. DOMAIN files = 1 .. 1
      BY TailInit, TailAssumption, <2>1, LenProperties DEF TailInv, WatcherTypes
    <3> QED BY <3>1 DEF OneLinked, Linked
  <2> QED BY <2>1, <2>2 DEF RestInv, WatchHeld, Caught, ReadCatches
<1>2. TailInv /\ OtherTypes /\ RestInv /\ [Next]_vars => RestInv'
  BY EnvironmentRestStep, WatcherRestStep DEF Next
<1>3. TailInv /\ OtherTypes /\ RestInv => AtRestAllRead
  <2> SUFFICES ASSUME TailInv, OtherTypes, RestInv, AtRest, lag = "none", SameFile
               PROVE  /\ filePos = Size(watch)
                      /\ got = SubSeq(files[watch].bytes, from + 1, Size(watch))
    BY DEF AtRestAllRead
  <2>1. filePos = Size(watch)
    BY DEF RestInv, Caught, AtRest, WritePending
  <2>2. watch \in DOMAIN files
    BY DEF RestInv, WatchHeld, AtRest, OtherTypes
  <2>3. CASE src = {<<watch, files[watch].truncs>>}
    <3>1. Intact(watch)
      BY <2>3 DEF Intact
    <3>2. got = SubSeq(files[watch].bytes, from + 1, filePos)
      BY <2>2, <3>1 DEF TailInv, ReadIsFile
    <3> QED BY <2>1, <3>2
  <2>4. CASE src = {}
    <3>1. got = <<>> /\ filePos = from + Len(got) /\ from \in Nat
      BY <2>4 DEF TailInv, ReadIsFile, WatcherTypes
    <3>2. filePos = from
      BY <3>1, EmptySeq
    <3>3. files[watch].bytes \in Seq(Byte)
      BY <2>2, FileType DEF TailInv, WatcherTypes
    <3>4. SubSeq(files[watch].bytes, from + 1, from) = <<>>
      BY <3>1, <3>3, NoPart
    <3> QED BY <2>1, <3>1, <3>2, <3>4
  <2>5. src = {} \/ src = {<<watch, files[watch].truncs>>}
    BY DEF SameFile
  <2> QED BY <2>1, <2>3, <2>4, <2>5
<1>4. Init => OtherTypes
  BY OtherTypesInit
<1>5. TailInv /\ OtherTypes /\ [Next]_vars => OtherTypes'
  BY OtherTypesStep
<1> QED BY <1>1, <1>2, <1>3, <1>4, <1>5, TailInvariant, PTL DEF Spec

-----------------------------------------------------------------------------
(* The refinement: what is found in the file and not sent yet *)

\* f[k] is first followed by what the first k entries become.
Chain(f, first, entries) ==
  \A k \in 0 .. Len(entries) :
    f[k] = IF k = 0 THEN first ELSE f[k - 1] \o Expand(entries[k])

\* Whatever is such a chain ends in ThenExpanded.
LEMMA ChainIsThenExpanded ==
  ASSUME NEW first, NEW entries \in Seq(Event),
         NEW f \in [0 .. Len(entries) -> Seq(Event)], Chain(f, first, entries)
  PROVE  ThenExpanded(first, entries) = f[Len(entries)]
<1> DEFINE F(x) == [k \in 0 .. Len(entries) |->
                     IF k = 0 THEN first ELSE x[k - 1] \o Expand(entries[k])]
           after == CHOOSE x : x = F(x)
           g == [k \in 1 .. Len(entries) |-> Expand(entries[k])]
<1>1. Len(entries) \in Nat
  BY LenProperties
<1>2. ThenExpanded(first, entries) = after[Len(entries)]
  BY DEF ThenExpanded
<1>3. f = F(f)
  BY DEF Chain
<1>4. after = F(after)
  <2> HIDE DEF F
  <2> QED BY <1>3
<1>5. \A k \in 0 .. Len(entries) : after[k] = IF k = 0 THEN first ELSE after[k - 1] \o Expand(entries[k])
  <2> HIDE DEF after
  <2> QED BY <1>4
<1> HIDE DEF after, F
<1>6. \A k \in 0 .. Len(entries) : k # 0 => g[k] = Expand(entries[k])
  BY <1>1
<1> HIDE DEF g
<1>7. IsChain(after, Len(entries), first, g) /\ IsChain(f, Len(entries), first, g)
  BY <1>5, <1>6 DEF Chain, IsChain
<1>8. \A k \in 0 .. Len(entries) : after[k] = f[k]
  BY <1>1, <1>7, ChainUnique
<1> QED BY <1>1, <1>2, <1>8

\* Expanding the entries of the queue one after the other gives a value after each.
LEMMA ThenExpandedChain ==
  ASSUME NEW first \in Seq(Event), NEW entries \in Seq(Event)
  PROVE  \E f \in [0 .. Len(entries) -> Seq(Event)] :
           Chain(f, first, entries) /\ ThenExpanded(first, entries) = f[Len(entries)]
<1> DEFINE g == [k \in 1 .. Len(entries) |-> Expand(entries[k])]
<1>1. Len(entries) \in Nat
  BY LenProperties
<1>2. g \in [1 .. Len(entries) -> Seq(Event)]
  BY ElementOfSeq, ExpandType
<1>3. \A k \in 0 .. Len(entries) : k # 0 => g[k] = Expand(entries[k])
  BY <1>1
<1> HIDE DEF g
<1>4. PICK f \in [0 .. Len(entries) -> Seq(Event)] : IsChain(f, Len(entries), first, g)
  BY <1>1, <1>2, ChainExists
<1>5. Chain(f, first, entries)
  BY <1>3, <1>4 DEF Chain, IsChain
<1> QED BY <1>5, ChainIsThenExpanded

\* The events still to be sent are a sequence of events.
LEMMA ThenExpandedType ==
  ASSUME NEW first \in Seq(Event), NEW entries \in Seq(Event)
  PROVE  ThenExpanded(first, entries) \in Seq(Event)
<1>1. PICK f \in [0 .. Len(entries) -> Seq(Event)] : ThenExpanded(first, entries) = f[Len(entries)]
  BY ThenExpandedChain
<1>2. Len(entries) \in 0 .. Len(entries)
  BY LenProperties
<1> QED BY <1>1, <1>2

\* With an empty queue they are those of the read in hand.
LEMMA ThenExpandedEmpty ==
  ASSUME NEW first \in Seq(Event)
  PROVE  ThenExpanded(first, <<>>) = first
<1>1. <<>> \in Seq(Event) /\ Len(<<>>) = 0
  BY EmptySeq
<1>2. PICK f : f = [k \in 0 .. 0 |-> first]
  OBVIOUS
<1>3. f \in [0 .. Len(<<>>) -> Seq(Event)] /\ f[0] = first
  BY <1>1, <1>2
<1>4. Chain(f, first, <<>>)
  BY <1>1, <1>3 DEF Chain
<1>5. ThenExpanded(first, <<>>) = f[Len(<<>>)]
  BY <1>1, <1>3, <1>4, ChainIsThenExpanded
<1> QED BY <1>1, <1>3, <1>5

\* An entry that is queued comes last.
LEMMA ThenExpandedAppend ==
  ASSUME NEW first \in Seq(Event), NEW entries \in Seq(Event), NEW e \in Event
  PROVE  ThenExpanded(first, Append(entries, e)) = ThenExpanded(first, entries) \o Expand(e)
<1>1. PICK more : more = Append(entries, e)
  OBVIOUS
<1>2. PICK n : n = Len(entries)
  OBVIOUS
<1>3. /\ n \in Nat /\ more \in Seq(Event) /\ Len(more) = n + 1 /\ more[n + 1] = e
      /\ \A k \in 1 .. n : more[k] = entries[k]
  BY <1>1, <1>2, AppendProperties, LenProperties
<1>4. PICK f \in [0 .. n -> Seq(Event)] :
        Chain(f, first, entries) /\ ThenExpanded(first, entries) = f[n]
  BY <1>2, ThenExpandedChain
<1>5. PICK h : h = [k \in 0 .. n + 1 |-> IF k = n + 1 THEN f[n] \o Expand(e) ELSE f[k]]
  OBVIOUS
<1>6. h \in [0 .. n + 1 -> Seq(Event)]
  <2>1. f[n] \o Expand(e) \in Seq(Event)
    <3>1. f[n] \in Seq(Event)
      BY <1>3
    <3> QED BY <3>1, ExpandType, ConcatProperties
  <2>2. \A k \in 0 .. n + 1 : k # n + 1 => k \in 0 .. n
    BY <1>3
  <2> QED BY <1>5, <2>1, <2>2
<1>7. Chain(h, first, more)
  <2> SUFFICES ASSUME NEW k \in 0 .. n + 1
               PROVE  h[k] = IF k = 0 THEN first ELSE h[k - 1] \o Expand(more[k])
    BY <1>3 DEF Chain
  <2>1. CASE k = n + 1
    <3>1. k # 0 /\ k - 1 = n /\ n \in 0 .. n + 1 /\ n # n + 1 /\ n + 1 \in 0 .. n + 1
      BY <1>3, <2>1
    <3>2. h[k] = f[n] \o Expand(e) /\ h[n] = f[n]
      BY <1>5, <2>1, <3>1
    <3>3. more[k] = e
      BY <1>3, <2>1
    <3> QED BY <3>1, <3>2, <3>3
  <2>2. CASE k # n + 1
    <3>1. k \in 0 .. n /\ (k # 0 => k - 1 \in 0 .. n + 1 /\ k - 1 # n + 1 /\ k \in 1 .. n)
      BY <1>3, <2>2
    <3>2. h[k] = f[k] /\ (k # 0 => h[k - 1] = f[k - 1] /\ more[k] = entries[k])
      BY <1>3, <1>5, <2>2, <3>1
    <3>3. f[k] = IF k = 0 THEN first ELSE f[k - 1] \o Expand(entries[k])
      BY <1>2, <1>4, <3>1 DEF Chain
    <3> QED BY <3>2, <3>3
  <2> QED BY <2>1, <2>2
<1>8. ThenExpanded(first, more) = h[n + 1]
  <2>1. h \in [0 .. Len(more) -> Seq(Event)]
    BY <1>3, <1>6
  <2>2. ThenExpanded(first, more) = h[Len(more)]
    BY <1>3, <1>7, <2>1, ChainIsThenExpanded
  <2> QED BY <1>3, <2>2
<1>9. h[n + 1] = f[n] \o Expand(e)
  <2>1. n + 1 \in 0 .. n + 1
    BY <1>3
  <2> QED BY <1>5, <2>1
<1> QED BY <1>1, <1>4, <1>8, <1>9

\* Taking the first entry out when nothing is left of the one before changes nothing.
LEMMA ThenExpandedTake ==
  ASSUME NEW entries \in Seq(Event), entries # <<>>
  PROVE  ThenExpanded(Expand(Head(entries)), Tail(entries)) = ThenExpanded(<<>>, entries)
<1>1. PICK rest : rest = Tail(entries)
  OBVIOUS
<1>2. PICK n : n = Len(rest)
  OBVIOUS
<1>3. /\ n \in Nat /\ rest \in Seq(Event) /\ Len(entries) = n + 1
      /\ \A k \in 1 .. n : rest[k] = entries[k + 1]
      /\ Head(entries) = entries[1] /\ Head(entries) \in Event
  <2>1. Len(entries) \in Nat /\ Len(entries) # 0
    BY LenProperties, EmptySeq
  <2>2. rest \in Seq(Event) /\ Len(rest) = Len(entries) - 1
    BY <1>1, HeadTailProperties
  <2> QED BY <1>1, <1>2, <2>1, <2>2, HeadTailProperties
<1>4. PICK f \in [0 .. n + 1 -> Seq(Event)] :
        Chain(f, <<>>, entries) /\ ThenExpanded(<<>>, entries) = f[n + 1]
  <2>1. <<>> \in Seq(Event)
    BY EmptySeq
  <2> QED BY <1>3, <2>1, ThenExpandedChain, ZenonT(60)
<1>5. PICK h : h = [k \in 0 .. n |-> f[k + 1]]
  OBVIOUS
<1>6. h \in [0 .. n -> Seq(Event)]
  <2>1. \A k \in 0 .. n : k + 1 \in 0 .. n + 1
    BY <1>3
  <2> QED BY <1>5, <2>1
<1>7. Chain(h, Expand(Head(entries)), rest)
  <2> SUFFICES ASSUME NEW k \in 0 .. n
               PROVE  h[k] = IF k = 0 THEN Expand(Head(entries)) ELSE h[k - 1] \o Expand(rest[k])
    BY <1>2 DEF Chain
  <2>1. k + 1 \in 0 .. n + 1 /\ k + 1 # 0 /\ (k + 1) - 1 = k
        /\ (k # 0 => k \in 1 .. n /\ k - 1 \in 0 .. n /\ (k - 1) + 1 = k)
    BY <1>3
  <2>2. f[k + 1] = f[k] \o Expand(entries[k + 1])
    BY <1>3, <1>4, <2>1 DEF Chain
  <2>3. CASE k = 0
    <3>1. f[0] = <<>>
      <4>1. 0 \in 0 .. Len(entries)
        BY <1>3
      <4> QED BY <1>4, <4>1 DEF Chain
    <3>2. entries[k + 1] = Head(entries)
      BY <1>3, <2>3
    <3>3. <<>> \o Expand(Head(entries)) = Expand(Head(entries))
      BY <1>3, ExpandType, ConcatEmptySeq
    <3> QED BY <1>5, <2>2, <2>3, <3>1, <3>2, <3>3
  <2>4. CASE k # 0
    <3>1. h[k] = f[k + 1] /\ h[k - 1] = f[k] /\ rest[k] = entries[k + 1]
      BY <1>3, <1>5, <2>1, <2>4
    <3> QED BY <2>2, <2>4, <3>1
  <2> QED BY <2>3, <2>4
<1>8. ThenExpanded(Expand(Head(entries)), rest) = h[n]
  BY <1>2, <1>3, <1>6, <1>7, ChainIsThenExpanded
<1>9. h[n] = f[n + 1]
  BY <1>3, <1>5
<1> QED BY <1>1, <1>4, <1>8, <1>9

\* Sequences of events can be put together in any order of brackets.
LEMMA EventsMove ==
  ASSUME NEW x \in Seq(Event), NEW y \in Seq(Event), NEW z \in Seq(Event)
  PROVE  x \o (y \o z) = (x \o y) \o z
BY ConcatMoves

\* What is to be sent next comes first.
LEMMA ThenExpandedSend ==
  ASSUME NEW first \in Seq(Event), first # <<>>, NEW entries \in Seq(Event)
  PROVE  ThenExpanded(first, entries) = <<Head(first)>> \o ThenExpanded(Tail(first), entries)
<1>1. PICK n : n = Len(entries)
  OBVIOUS
<1>2. PICK one : one = <<Head(first)>>
  OBVIOUS
<1>3. n \in Nat /\ one \in Seq(Event) /\ Tail(first) \in Seq(Event)
  BY <1>1, <1>2, LenProperties, HeadTailProperties
<1>4. first = one \o Tail(first)
  BY <1>2, HeadTailProperties, ConcatProperties
<1>0. \A x, y \in Seq(Event) : one \o (x \o y) = (one \o x) \o y
  BY <1>3, EventsMove
<1>5. PICK f \in [0 .. n -> Seq(Event)] :
        Chain(f, Tail(first), entries) /\ ThenExpanded(Tail(first), entries) = f[n]
  BY <1>1, <1>3, ThenExpandedChain
<1>6. PICK h : h = [k \in 0 .. n |-> one \o f[k]]
  OBVIOUS
<1>7. h \in [0 .. n -> Seq(Event)]
  BY <1>3, <1>6, ConcatProperties
<1>8. Chain(h, first, entries)
  <2> SUFFICES ASSUME NEW k \in 0 .. n
               PROVE  h[k] = IF k = 0 THEN first ELSE h[k - 1] \o Expand(entries[k])
    BY <1>1 DEF Chain
  <2>1. f[k] = IF k = 0 THEN Tail(first) ELSE f[k - 1] \o Expand(entries[k])
    BY <1>1, <1>5 DEF Chain
  <2>2. CASE k = 0
    BY <1>4, <1>6, <2>1, <2>2
  <2>3. CASE k # 0
    <3>1. k - 1 \in 0 .. n /\ k \in 1 .. n
      BY <1>3, <2>3
    <3>2. f[k - 1] \in Seq(Event)
      BY <3>1
    <3>3. Expand(entries[k]) \in Seq(Event)
      BY <1>1, <3>1, ElementOfSeq, ExpandType
    <3>4. PICK x \in Seq(Event) : x = f[k - 1]
      BY <3>2
    <3>5. PICK y \in Seq(Event) : y = Expand(entries[k])
      BY <3>3
    <3>6. one \o (x \o y) = (one \o x) \o y
      BY <1>0
    <3>7. h[k] = one \o f[k] /\ h[k - 1] = one \o x
      BY <1>6, <3>1, <3>4
    <3>8. f[k] = x \o y
      BY <2>1, <2>3, <3>4, <3>5
    <3> QED BY <2>3, <3>5, <3>6, <3>7, <3>8
  <2> QED BY <2>2, <2>3
<1>9. ThenExpanded(first, entries) = h[n]
  BY <1>1, <1>7, <1>8, ChainIsThenExpanded
<1>10. h[n] = one \o f[n]
  BY <1>3, <1>6
<1> QED BY <1>2, <1>5, <1>9, <1>10

-----------------------------------------------------------------------------
(* The refinement: every step is one of EventQueue, or a stutter *)

Waiting == IF u.pc = "done" THEN <<>> ELSE Unsent

\* What waits in front of the channel is a sequence of events.
LEMMA WaitingType ==
  ASSUME SendTypes
  PROVE  Waiting \in Seq(Event)
BY EmptySeq, ThenExpandedType DEF SendTypes, Waiting, Unsent

\* Nothing changes for the hub.
LEMMA QueueStutters ==
  ASSUME UNCHANGED <<dynamic, stop, queue, u, out>>
  PROVE  UNCHANGED EventQueueOfLog!vars
BY DEF EventQueueOfLog!vars, Waiting, Unsent

\* An entry that the watcher queues: its events are found.
LEMMA QueuedIsFound ==
  ASSUME SendTypes, NEW e \in Event, queue' = Append(queue, e), ~stop,
         UNCHANGED <<dynamic, stop, u, out>>
  PROVE  EventQueueOfLog!Found
<1>1. u.lines \in Seq(Event) /\ queue \in Seq(Event)
  BY DEF SendTypes
<1>2. Unsent' = Unsent \o Expand(e) /\ Unsent \in Seq(Event) /\ Expand(e) \in Seq(Event)
  BY <1>1, ThenExpandedAppend, ThenExpandedType, ExpandType DEF Unsent
<1>3. PICK more \in Seq(Event) : Waiting' = Waiting \o more
  <2>1. CASE u.pc = "done"
    <3>1. Waiting' = Waiting \o <<>> /\ <<>> \in Seq(Event)
      BY <2>1, EmptySeq, ConcatEmptySeq DEF Waiting
    <3> QED BY <3>1
  <2>2. CASE u.pc # "done"
    BY <1>2, <2>2 DEF Waiting
  <2> QED BY <2>1, <2>2
<1>4. PICK s \in Seq(Event) : s = Waiting
  BY WaitingType
<1>5. EventQueueOfLog!IsPrefixOf(s, s \o more)
  <2>1. Len(s) \in Nat /\ Len(s) <= Len(s \o more) /\ s \o more \in Seq(Event)
        /\ \A k \in 1 .. Len(s) : (s \o more)[k] = s[k]
    BY LenProperties, ConcatProperties
  <2>2. PICK t \in Seq(Event) : t = s \o more
    BY <2>1
  <2>3. SubSeq(t, 1, Len(s)) = s
    <3>1. \A k \in 1 .. Len(s) : t[k] \in Event
      BY <2>1, <2>2, ElementOfSeq
    <3>2. /\ SubSeq(t, 1, Len(s)) \in Seq(Event)
          /\ Len(SubSeq(t, 1, Len(s))) = Len(s)
          /\ \A k \in 1 .. Len(s) : SubSeq(t, 1, Len(s))[k] = t[k]
      BY <2>1, <3>1, SubSeqProperties
    <3>3. \A k \in 1 .. Len(s) : SubSeq(t, 1, Len(s))[k] = s[k]
      BY <2>1, <2>2, <3>2
    <3> QED BY <3>2, <3>3, SeqEqual
  <2> QED BY <2>1, <2>2, <2>3 DEF EventQueueOfLog!IsPrefixOf
<1> QED BY <1>3, <1>4, <1>5 DEF EventQueueOfLog!Found, Waiting

\* Sending an event (unstacker.go:23-27) is the HandOver of the queue.
LEMMA UnstackSendHandsOver ==
  ASSUME SendTypes, UnstackSend
  PROVE  EventQueueOfLog!HandOver
<1>1. /\ u.lines \in Seq(Event) /\ queue \in Seq(Event) /\ u.lines # <<>> /\ u.pc = "send"
      /\ out' = Append(out, Head(u.lines)) /\ queue' = queue /\ dynamic' = dynamic
      /\ stop' = stop
      /\ u'.lines = Tail(u.lines) /\ u'.pc # "done"
  BY DEF SendTypes, UnstackSend, AfterSend, procVars
<1>2. Waiting = ThenExpanded(u.lines, queue) /\ Waiting' = ThenExpanded(Tail(u.lines), queue)
  BY <1>1 DEF Waiting, Unsent
<1>3. Waiting = <<Head(u.lines)>> \o Waiting'
  BY <1>1, <1>2, ThenExpandedSend
<1>4. Head(u.lines) \in Event /\ Tail(u.lines) \in Seq(Event)
  BY <1>1, HeadTailProperties
<1>5. Waiting' \in Seq(Event)
  BY <1>1, <1>2, <1>4, ThenExpandedType
<1>6. Waiting # <<>> /\ Head(Waiting) = Head(u.lines) /\ Tail(Waiting) = Waiting'
  <2>1. PICK e \in Event : e = Head(u.lines)
    BY <1>4
  <2>2. PICK s \in Seq(Event) : s = Waiting'
    BY <1>5
  <2>3. <<e>> \o s # <<>> /\ Head(<<e>> \o s) = e /\ Tail(<<e>> \o s) = s
    BY HeadTailOfPushed
  <2> QED BY <1>3, <2>1, <2>2, <2>3
<1> QED BY <1>1, <1>6 DEF EventQueueOfLog!HandOver, Waiting

\* Taking a read (unstacker.go:14-20) is no step of the queue: its events were there
\* when it was queued.
LEMMA UnstackTakeStutters ==
  ASSUME SendTypes, UnstackTake
  PROVE  UNCHANGED EventQueueOfLog!vars
<1>1. /\ queue \in Seq(Event) /\ queue # <<>> /\ u.lines = <<>> /\ u.pc # "done" /\ u'.pc # "done"
      /\ u'.lines = Expand(Head(queue)) /\ queue' = Tail(queue)
      /\ UNCHANGED <<dynamic, stop, out>>
  BY DEF SendTypes, UnstackTake, procVars
<1>2. Waiting' = Waiting
  BY <1>1, ThenExpandedTake DEF Waiting, Unsent
<1> QED BY <1>1, <1>2 DEF EventQueueOfLog!vars, Waiting

\* stop is set when watchServ has returned (dynamic.go:69-70).
StopsAtEnd == stop => w.pc = "done"

\* A watcher that returned does nothing any more.
LEMMA StopsAtEndStep ==
  ASSUME TailInv, StopsAtEnd, [Next]_vars
  PROVE  StopsAtEnd'
<1> USE DEF StopsAtEnd, procVars, fileVars, watchVars, sendVars, auxVars
<1>0. w \in [pc : {"stat", "add", "wait", "read", "close", "done"}, fd : Nat]
  BY DEF TailInv, WatcherTypes
<1>1. CASE CloseWatch
  <2>1. CASE again
    <3>1. stop' = FALSE
      BY <1>1, <2>1 DEF CloseWatch
    <3> QED BY <3>1
  <2>2. CASE ~again
    <3>1. w'.pc = "done"
      BY <1>0, <1>1, <2>2 DEF CloseWatch
    <3> QED BY <3>1
  <2> QED BY <2>1, <2>2
<1>2. CASE UNCHANGED <<stop, w>>
  BY <1>2
<1>3. CASE \/ \E i \in DOMAIN files : \/ \E text \in Chunk : LogWrite(i, text)
                                      \/ LogTruncate(i) \/ LogFree(i)
           \/ LogRename \/ LogUnlink \/ LogCreate
  BY <1>2, <1>3 DEF LogWrite, LogTruncate, LogFree, LogRename, LogUnlink, LogCreate, EnvUnchanged
<1>4. CASE \/ Fatal \/ QueueReset \/ HandleOther
           \/ UnstackTake \/ UnstackSend \/ UnstackStop \/ HubReceive \/ UNCHANGED vars
  BY <1>2, <1>4 DEF Fatal, QueueReset, HandleOther, UnstackTake, UnstackSend, UnstackStop,
                    HubReceive, vars
<1>5. CASE StartAtEnd \/ AddWatch \/ OpenToRead \/ ReadFile \/ HandleRename \/ HandleRemove
  BY <1>5 DEF StartAtEnd, AddWatch, OpenToRead, ReadFile, HandleRename, HandleRemove, Notified
<1> QED BY <1>1, <1>3, <1>4, <1>5 DEF Next

\* Every step of the tail is a step of EventQueue, or a stutter.
LEMMA TailStepHandsOver ==
  ASSUME TailInv, OtherTypes, StopsAtEnd, [Next]_vars
  PROVE  [EventQueueOfLog!Next]_(EventQueueOfLog!vars)
<1> USE DEF procVars, fileVars, watchVars, sendVars, auxVars
<1>0. SendTypes
  BY DEF OtherTypes
<1>1. CASE UNCHANGED <<dynamic, stop, queue, u, out>>
  BY <1>1, QueueStutters
<1>2. CASE QueueReset
  <2>1. ResetEvent \in Event
    BY EmptySeq DEF ResetEvent, Event
  <2>2. EventQueueOfLog!Found
    BY <1>0, <1>2, <2>1, QueuedIsFound DEF QueueReset, Notified, StopsAtEnd
  <2> QED BY <2>2 DEF EventQueueOfLog!Next
<1>3. CASE ReadFile
  <2>1. CASE ReadFrom(w.fd) = <<>>
    BY <1>1, <1>3, <2>1 DEF ReadFile
  <2>2. CASE ReadFrom(w.fd) # <<>>
    <3>1. AddEvent(ReadFrom(w.fd)) \in Event
      BY <1>3, ReadFromType DEF ReadFile, AddEvent, Event
    <3>2. EventQueueOfLog!Found
      BY <1>0, <1>3, <2>2, <3>1, QueuedIsFound DEF ReadFile, StopsAtEnd
    <3> QED BY <3>2 DEF EventQueueOfLog!Next
  <2> QED BY <2>1, <2>2
<1>4. CASE UnstackTake
  BY <1>0, <1>4, UnstackTakeStutters
<1>5. CASE UnstackSend
  BY <1>0, <1>5, UnstackSendHandsOver DEF EventQueueOfLog!Next
<1>6. CASE UnstackStop
  <2>1. EventQueueOfLog!Drop
    BY <1>6 DEF UnstackStop, EventQueueOfLog!Drop
  <2> QED BY <2>1 DEF EventQueueOfLog!Next
<1>7. CASE HubReceive
  <2>1. EventQueueOfLog!Receive
    BY <1>7 DEF HubReceive, EventQueueOfLog!Receive, Unsent
  <2> QED BY <2>1 DEF EventQueueOfLog!Next
<1>8. CASE UNCHANGED vars
  BY <1>1, <1>8 DEF vars
<1>9. CASE \/ \E i \in DOMAIN files : \/ \E text \in Chunk : LogWrite(i, text)
                                      \/ LogTruncate(i) \/ LogFree(i)
           \/ LogRename \/ LogUnlink \/ LogCreate
  BY <1>1, <1>9 DEF LogWrite, LogTruncate, LogFree, LogRename, LogUnlink, LogCreate, EnvUnchanged
<1>10. CASE \/ Fatal \/ StartAtEnd \/ AddWatch \/ OpenToRead \/ HandleRename \/ HandleRemove
            \/ HandleOther
  BY <1>1, <1>10 DEF Fatal, StartAtEnd, AddWatch, OpenToRead, HandleRename, HandleRemove,
                     HandleOther
<1>11. CASE CloseWatch
  <2>1. ~stop /\ stop \in BOOLEAN /\ stop' = (dynamic /\ ~again)
        /\ UNCHANGED <<dynamic, queue, u, out>>
    BY <1>0, <1>11 DEF CloseWatch, StopsAtEnd, SendTypes
  <2>2. CASE dynamic /\ ~again
    <3>1. stop' = TRUE /\ stop = FALSE
      BY <2>1, <2>2
    <3>2. EventQueueOfLog!Stop
      BY <2>1, <2>2, <3>1 DEF EventQueueOfLog!Stop, Unsent
    <3> QED BY <3>2 DEF EventQueueOfLog!Next
  <2>3. CASE ~(dynamic /\ ~again)
    BY <1>1, <2>1, <2>3
  <2> QED BY <2>2, <2>3
<1> QED
  BY <1>2, <1>3, <1>4, <1>5, <1>6, <1>7, <1>8, <1>9, <1>10, <1>11 DEF Next

\* The tail of a log is a first-in first-out queue to the hub: whatever notifications
\* are merged, however reads are cut and lines are split, an event is handed over once,
\* in the order of the file, and none is dropped unless stop was set for the tail of an
\* instance, whose watcher then finds nothing any more (watcher.go, unstacker.go:46).
THEOREM TailHandsOverInOrder == Spec => HandsOverInOrder
<1>1. Init => EventQueueOfLog!Init
  <2> SUFFICES ASSUME Init PROVE EventQueueOfLog!Init
    OBVIOUS
  <2>1. dynamic \in BOOLEAN
    BY TailAssumption DEF Init
  <2>2. Unsent = <<>>
    <3>1. u.lines = <<>> /\ queue = <<>>
      BY DEF Init
    <3>2. <<>> \in Seq(Event)
      BY EmptySeq
    <3> QED BY <3>1, <3>2, ThenExpandedEmpty DEF Unsent
  <2> QED BY <2>1, <2>2 DEF Init, EventQueueOfLog!Init
<1>2. Init => OtherTypes
  BY OtherTypesInit
<1>3. TailInv /\ OtherTypes /\ [Next]_vars => OtherTypes'
  BY OtherTypesStep
<1>4. Init => StopsAtEnd
  BY DEF Init, StopsAtEnd
<1>5. TailInv /\ StopsAtEnd /\ [Next]_vars => StopsAtEnd'
  BY StopsAtEndStep
<1>6. TailInv /\ OtherTypes /\ StopsAtEnd /\ [Next]_vars
        => [EventQueueOfLog!Next]_(EventQueueOfLog!vars)
  BY TailStepHandsOver
<1> QED
  BY <1>1, <1>2, <1>3, <1>4, <1>5, <1>6, TailInvariant, PTL
     DEF Spec, HandsOverInOrder, EventQueueOfLog!Spec

-----------------------------------------------------------------------------
(* Splitting and trimming lose no byte *)

\* A text with one more byte, of which a newline is left out.
Kept(text, b) == IF b = Newline THEN text ELSE Append(text, b)
KeepOne == [x \in Seq(Byte) \X Byte |-> Kept(x[1], x[2])]

\* A text with one more event.
ShowEvent == [x \in Seq(Byte) \X Event |-> Display(x[1], x[2])]

\* A byte is kept, or left out when it is a newline.
LEMMA KeepTakesIn ==
  /\ TakesIn(KeepOne, Seq(Byte), Byte)
  /\ \A x \in Seq(Byte), b \in Byte : KeepOne[<<x, b>>] = Kept(x, b) /\ Kept(x, b) \in Seq(Byte)
<1>1. \A x \in Seq(Byte), b \in Byte : Kept(x, b) \in Seq(Byte)
  BY AppendProperties DEF Kept
<1> QED BY <1>1 DEF TakesIn, KeepOne

\* An event adds its text to what is on display, or clears it.
LEMMA ShowTakesIn ==
  /\ TakesIn(ShowEvent, Seq(Byte), Event)
  /\ \A x \in Seq(Byte), e \in Event :
       ShowEvent[<<x, e>>] = Display(x, e) /\ Display(x, e) \in Seq(Byte)
<1>1. \A x \in Seq(Byte), e \in Event : Display(x, e) \in Seq(Byte)
  BY EmptySeq, ConcatProperties DEF Display, Event
<1> QED BY <1>1 DEF TakesIn, ShowEvent

\* The two recursive functions of the model are such folds.
LEMMA JoinedIsFolded ==
  ASSUME NEW s \in Seq(Byte)
  PROVE  Joined(s) = Folded(KeepOne, <<>>, s)
<1> DEFINE F(x) == [k \in 0 .. Len(s) |->
                     IF k = 0 THEN <<>>
                     ELSE IF s[k] = Newline THEN x[k - 1] ELSE Append(x[k - 1], s[k])]
           joined == CHOOSE x : x = F(x)
<1>1. Len(s) \in Nat /\ <<>> \in Seq(Byte)
  BY LenProperties, EmptySeq
<1>2. PICK f \in [0 .. Len(s) -> Seq(Byte)] :
        IsFold(f, KeepOne, <<>>, s) /\ Folded(KeepOne, <<>>, s) = f[Len(s)]
  <2>1. PICK none \in Seq(Byte) : none = <<>>
    BY <1>1
  <2>2. \E f \in [0 .. Len(s) -> Seq(Byte)] :
          IsFold(f, KeepOne, none, s) /\ Folded(KeepOne, none, s) = f[Len(s)]
    BY KeepTakesIn, FoldedIs
  <2> QED BY <2>1, <2>2
<1>3. \A k \in 0 .. Len(s) : k # 0 => k \in 1 .. Len(s) /\ k - 1 \in 0 .. Len(s) /\ s[k] \in Byte
  BY <1>1, ElementOfSeq
<1>4. f[0] = <<>> /\ \A k \in 0 .. Len(s) : k # 0 => f[k] = Kept(f[k - 1], s[k])
  BY <1>2, <1>3, KeepTakesIn DEF IsFold
<1>5. f = F(f)
  BY <1>4 DEF Kept
<1>6. joined = F(joined)
  <2> HIDE DEF F
  <2> QED BY <1>5
<1>7. PICK g : g = joined
  OBVIOUS
<1>8. g = F(g)
  <2> HIDE DEF joined, F
  <2> QED BY <1>6, <1>7
<1> HIDE DEF joined
<1> DEFINE P == {k \in 0 .. Len(s) : g[k] = f[k]}
<1>9. 0 \in P
  <2>1. 0 \in 0 .. Len(s)
    BY <1>1
  <2>2. g[0] = <<>>
    BY <1>8, <2>1
  <2> QED BY <1>4, <2>1, <2>2
<1>10. ASSUME NEW k \in 1 .. Len(s), k - 1 \in P PROVE k \in P
  <2>1. k \in 0 .. Len(s) /\ k # 0
    BY <1>1
  <2>2. g[k] = Kept(g[k - 1], s[k])
    BY <1>8, <2>1 DEF Kept
  <2>3. g[k - 1] = f[k - 1]
    BY <1>10
  <2> QED BY <1>4, <2>1, <2>2, <2>3
<1>11. Len(s) \in P
  <2>1. Len(s) \in 0 .. Len(s)
    BY <1>1
  <2> HIDE DEF P
  <2> QED BY <1>1, <1>9, <1>10, <2>1, CountUp
<1>12. Joined(s) = joined[Len(s)]
  BY DEF Joined, joined
<1> QED BY <1>2, <1>7, <1>11, <1>12

\* What is on display after some events is a fold over them.
LEMMA DisplayedIsFolded ==
  ASSUME NEW text \in Seq(Byte), NEW s \in Seq(Event)
  PROVE  Displayed(text, s) = Folded(ShowEvent, text, s)
<1> DEFINE F(x) == [k \in 0 .. Len(s) |-> IF k = 0 THEN text ELSE Display(x[k - 1], s[k])]
           after == CHOOSE x : x = F(x)
<1>1. Len(s) \in Nat
  BY LenProperties
<1>2. PICK f \in [0 .. Len(s) -> Seq(Byte)] :
        IsFold(f, ShowEvent, text, s) /\ Folded(ShowEvent, text, s) = f[Len(s)]
  BY ShowTakesIn, FoldedIs
<1>3. \A k \in 0 .. Len(s) : k # 0 => k \in 1 .. Len(s) /\ k - 1 \in 0 .. Len(s) /\ s[k] \in Event
  BY <1>1, ElementOfSeq
<1>4. f[0] = text /\ \A k \in 0 .. Len(s) : k # 0 => f[k] = Display(f[k - 1], s[k])
  BY <1>2, <1>3, ShowTakesIn DEF IsFold
<1>5. f = F(f)
  BY <1>4
<1>6. after = F(after)
  <2> HIDE DEF F
  <2> QED BY <1>5
<1>7. PICK g : g = after
  OBVIOUS
<1>8. g = F(g)
  <2> HIDE DEF after, F
  <2> QED BY <1>6, <1>7
<1> HIDE DEF after
<1> DEFINE P == {k \in 0 .. Len(s) : g[k] = f[k]}
<1>9. 0 \in P
  <2>1. 0 \in 0 .. Len(s)
    BY <1>1
  <2>2. g[0] = text
    BY <1>8, <2>1
  <2> QED BY <1>4, <2>1, <2>2
<1>10. ASSUME NEW k \in 1 .. Len(s), k - 1 \in P PROVE k \in P
  <2>1. k \in 0 .. Len(s) /\ k # 0
    BY <1>1
  <2>2. g[k] = Display(g[k - 1], s[k])
    BY <1>8, <2>1
  <2>3. g[k - 1] = f[k - 1]
    BY <1>10
  <2> QED BY <1>4, <2>1, <2>2, <2>3
<1>11. Len(s) \in P
  <2>1. Len(s) \in 0 .. Len(s)
    BY <1>1
  <2> HIDE DEF P
  <2> QED BY <1>1, <1>9, <1>10, <2>1, CountUp
<1>12. Displayed(text, s) = after[Len(s)]
  BY DEF Displayed, after
<1> QED BY <1>2, <1>7, <1>11, <1>12

\* A text behind another is joined behind it.
LEMMA JoinedConcat ==
  ASSUME NEW s \in Seq(Byte), NEW t \in Seq(Byte)
  PROVE  /\ Joined(t) \in Seq(Byte) /\ Joined(s) \in Seq(Byte)
         /\ Joined(s \o t) = Joined(s) \o Joined(t)
<1>1. <<>> \in Seq(Byte) /\ s \o t \in Seq(Byte)
  BY EmptySeq, ConcatProperties
<1>2. PICK x \in Seq(Byte) : x = Joined(s)
  BY <1>1, JoinedIsFolded, KeepTakesIn, FoldedIs
<1>3. PICK y \in Seq(Byte) : y = Joined(t)
  BY <1>1, JoinedIsFolded, KeepTakesIn, FoldedIs
<1>4. Joined(s \o t) = Folded(KeepOne, x, t)
  <2>1. PICK none \in Seq(Byte) : none = <<>>
    BY <1>1
  <2>2. Folded(KeepOne, none, s \o t) = Folded(KeepOne, Folded(KeepOne, none, s), t)
    BY KeepTakesIn, FoldedConcat
  <2>3. Joined(s \o t) = Folded(KeepOne, none, s \o t) /\ x = Folded(KeepOne, none, s)
    BY <1>1, <1>2, <2>1, JoinedIsFolded
  <2> QED BY <2>2, <2>3
<1>5. Folded(KeepOne, x, t) = x \o y
  <2> DEFINE R == {p \in Seq(Byte) \X Seq(Byte) : p[1] = x \o p[2]}
  <2>1. <<x, <<>>>> \in R
    BY <1>1, ConcatEmptySeq
  <2>2. ASSUME NEW v \in Seq(Byte), NEW z \in Seq(Byte), NEW j \in 1 .. Len(t), <<v, z>> \in R
        PROVE  <<KeepOne[<<v, t[j]>>], KeepOne[<<z, t[j]>>]>> \in R
    <3>1. PICK b \in Byte : b = t[j]
      BY ElementOfSeq
    <3>2. v = x \o z
      BY <2>2
    <3>3. Kept(v, b) = x \o Kept(z, b)
      <4>1. Append(x \o z, b) = x \o Append(z, b)
        <5>1. /\ x \o z \in Seq(Byte) /\ <<b>> \in Seq(Byte)
              /\ Append(x \o z, b) = (x \o z) \o <<b>> /\ Append(z, b) = z \o <<b>>
          BY ConcatProperties, AppendIsConcat, SMTT(60)
        <5>2. x \o (z \o <<b>>) = (x \o z) \o <<b>>
          BY <5>1, ConcatMoves, SMTT(60)
        <5> QED BY <5>1, <5>2
      <4> QED BY <3>2, <4>1 DEF Kept
    <3>4. Kept(v, b) \in Seq(Byte) /\ Kept(z, b) \in Seq(Byte)
      BY KeepTakesIn
    <3>5. KeepOne[<<v, b>>] = Kept(v, b) /\ KeepOne[<<z, b>>] = Kept(z, b)
      BY KeepTakesIn
    <3> QED BY <3>1, <3>3, <3>4, <3>5
  <2> HIDE DEF R
  <2>3. PICK none \in Seq(Byte) : none = <<>>
    BY <1>1
  <2>4. <<Folded(KeepOne, x, t), Folded(KeepOne, none, t)>> \in R
    <3>1. <<x, none>> \in R
      BY <2>1, <2>3
    <3>2. \A v \in Seq(Byte), z \in Seq(Byte), j \in 1 .. Len(t) :
            <<v, z>> \in R => <<KeepOne[<<v, t[j]>>], KeepOne[<<z, t[j]>>]>> \in R
      BY <2>2
    <3> QED BY <3>1, <3>2, KeepTakesIn, FoldedRelated
  <2>5. Folded(KeepOne, x, t) = x \o Folded(KeepOne, none, t)
    BY <2>4 DEF R
  <2> QED BY <1>3, <2>3, <2>5, JoinedIsFolded
<1> QED BY <1>2, <1>3, <1>4, <1>5

\* f takes the bytes of s in: what is kept of the first k of them is f[k].
Joins(f, s) ==
  /\ f \in [0 .. Len(s) -> Seq(Byte)] /\ f[0] = <<>>
  /\ \A k \in 1 .. Len(s) : f[k] = Kept(f[k - 1], s[k])

\* A text without its newlines is built byte by byte...
LEMMA JoinsExists ==
  ASSUME NEW s \in Seq(Byte)
  PROVE  \E f : Joins(f, s) /\ f[Len(s)] = Joined(s)
<1>1. <<>> \in Seq(Byte)
  BY EmptySeq
<1>2. PICK f \in [0 .. Len(s) -> Seq(Byte)] :
        IsFold(f, KeepOne, <<>>, s) /\ Folded(KeepOne, <<>>, s) = f[Len(s)]
  <2>1. PICK none \in Seq(Byte) : none = <<>>
    BY <1>1
  <2>2. \E f \in [0 .. Len(s) -> Seq(Byte)] :
          IsFold(f, KeepOne, none, s) /\ Folded(KeepOne, none, s) = f[Len(s)]
    BY KeepTakesIn, FoldedIs
  <2> QED BY <2>1, <2>2
<1>3. ASSUME NEW k \in 1 .. Len(s) PROVE f[k] = Kept(f[k - 1], s[k])
  <2>1. f[k - 1] \in Seq(Byte)
    <3>1. k - 1 \in 0 .. Len(s)
      BY LenProperties
    <3> QED BY <3>1
  <2>2. s[k] \in Byte
    BY ElementOfSeq
  <2> QED BY <1>2, <2>1, <2>2, KeepTakesIn DEF IsFold
<1>4. f[0] = <<>>
  BY <1>2 DEF IsFold
<1> QED BY <1>2, <1>3, <1>4, JoinedIsFolded DEF Joins

\* ... and there is one way to build it.
LEMMA JoinsIsJoined ==
  ASSUME NEW s \in Seq(Byte), NEW f, Joins(f, s)
  PROVE  Joined(s) = f[Len(s)]
<1>1. <<>> \in Seq(Byte)
  BY EmptySeq
<1>2. ASSUME NEW k \in 1 .. Len(s) PROVE f[k] = KeepOne[<<f[k - 1], s[k]>>]
  <2>1. k - 1 \in 0 .. Len(s)
    BY LenProperties
  <2>2. f[k - 1] \in Seq(Byte) /\ s[k] \in Byte /\ f[k] = Kept(f[k - 1], s[k])
    BY <2>1, ElementOfSeq DEF Joins
  <2> QED BY <2>2, KeepTakesIn
<1>3. IsFold(f, KeepOne, <<>>, s)
  BY <1>2 DEF IsFold, Joins
<1>4. PICK none \in Seq(Byte) : none = <<>>
  BY <1>1
<1>5. Folded(KeepOne, none, s) = f[Len(s)]
  <2>1. IsFold(f, KeepOne, none, s)
    BY <1>3, <1>4
  <2> QED BY <2>1, KeepTakesIn, FoldedBy
<1> QED BY <1>4, <1>5, JoinedIsFolded

\* A part without newlines is kept whole...
LEMMA LineKept ==
  ASSUME NEW s \in Seq(Byte), NEW f, Joins(f, s), NEW i \in 0 .. Len(s), NEW j \in i .. Len(s),
         \A k \in i + 1 .. j : s[k] # Newline
  PROVE  f[j] = f[i] \o SubSeq(s, i + 1, j) /\ SubSeq(s, i + 1, j) \in Seq(Byte)
<1>1. PICK n \in Nat : n = Len(s)
  BY LenProperties
<1>2. i \in Nat /\ j \in Nat /\ i <= j /\ j <= n
  BY <1>1
<1> DEFINE P == {d \in 0 .. j - i : f[i + d] = f[i] \o SubSeq(s, i + 1, i + d)}
<1>3. \A d \in 0 .. j - i : f[i + d] \in Seq(Byte)
  <2>1. \A d \in 0 .. j - i : i + d \in 0 .. Len(s)
    BY <1>1, <1>2
  <2> QED BY <2>1 DEF Joins
<1>4. \A d \in 0 .. j - i : SubSeq(s, i + 1, i + d) \in Seq(Byte)
  <2> SUFFICES ASSUME NEW d \in 0 .. j - i PROVE SubSeq(s, i + 1, i + d) \in Seq(Byte)
    OBVIOUS
  <2>1. i + 1 \in Nat \ {0} /\ i + d \in Int /\ i + d <= Len(s)
    BY <1>1, <1>2
  <2> QED BY <2>1, PartType
<1>5. 0 \in P
  <2>1. SubSeq(s, i + 1, i + 0) = <<>>
    <3>1. i + 1 \in Int /\ i + 0 \in Int /\ i + 0 < i + 1
      BY <1>2
    <3> QED BY <3>1, SubSeqEmpty
  <2>2. i + 0 = i /\ 0 \in 0 .. j - i
    BY <1>2
  <2>3. f[i] \in Seq(Byte)
    BY <1>3, <2>2
  <2>4. f[i] \o <<>> = f[i]
    BY <2>3, ConcatEmptySeq
  <2> QED BY <2>1, <2>2, <2>4
<1>6. ASSUME NEW d \in 1 .. j - i, d - 1 \in P PROVE d \in P
  <2>1. /\ d \in 0 .. j - i /\ d - 1 \in 0 .. j - i /\ i + d \in 1 .. Len(s)
        /\ (i + d) - 1 = i + (d - 1) /\ i + 1 \in 1 .. Len(s) /\ i + d \in i + 1 .. Len(s)
        /\ i + d \in i + 1 .. j
    BY <1>1, <1>2
  <2>2. PICK b \in Byte : b = s[i + d] /\ b # Newline
    BY <2>1, ElementOfSeq
  <2>3. f[i + d] = Append(f[i + (d - 1)], b)
    <3>1. f[i + d] = Kept(f[i + (d - 1)], b)
      BY <2>1, <2>2 DEF Joins
    <3> QED BY <2>2, <3>1 DEF Kept
  <2>4. f[i + (d - 1)] = f[i] \o SubSeq(s, i + 1, i + (d - 1))
    BY <1>6
  <2>5. SubSeq(s, i + 1, i + d) = SubSeq(s, i + 1, i + (d - 1)) \o <<b>>
    BY <2>1, <2>2, SubSeqRecursiveSecond
  <2>6. PICK x \in Seq(Byte) : x = f[i]
    <3>1. i + 0 = i /\ 0 \in 0 .. j - i
      BY <1>2
    <3> QED BY <1>3, <3>1
  <2>7. PICK y \in Seq(Byte) : y = SubSeq(s, i + 1, i + (d - 1))
    BY <1>4, <2>1
  <2>8. f[i + d] = (x \o y) \o <<b>>
    BY <2>3, <2>4, <2>6, <2>7, ConcatProperties, AppendIsConcat, ZenonT(60)
  <2>9. x \o (y \o <<b>>) = (x \o y) \o <<b>>
    <3>1. <<b>> \in Seq(Byte)
      OBVIOUS
    <3> QED BY <3>1, ConcatMoves
  <2> QED BY <2>1, <2>5, <2>6, <2>7, <2>8, <2>9
<1>7. j - i \in P
  <2>1. j - i \in Nat /\ j - i \in 0 .. j - i
    BY <1>2
  <2> HIDE DEF P
  <2> QED BY <1>5, <1>6, <2>1, CountUp
<1>8. i + (j - i) = j
  BY <1>2
<1> QED BY <1>4, <1>7, <1>8

\* ... and of one that is nothing else, nothing is kept.
LEMMA BlankLeftOut ==
  ASSUME NEW s \in Seq(Byte), NEW f, Joins(f, s), NEW i \in 0 .. Len(s), NEW j \in i .. Len(s),
         \A k \in i + 1 .. j : s[k] = Newline
  PROVE  f[j] = f[i]
<1>1. PICK n \in Nat : n = Len(s)
  BY LenProperties
<1>2. i \in Nat /\ j \in Nat /\ i <= j /\ j <= n
  BY <1>1
<1> DEFINE P == {d \in 0 .. j - i : f[i + d] = f[i]}
<1>3. 0 \in P
  BY <1>2
<1>4. ASSUME NEW d \in 1 .. j - i, d - 1 \in P PROVE d \in P
  <2>1. /\ d \in 0 .. j - i /\ i + d \in 1 .. Len(s) /\ (i + d) - 1 = i + (d - 1)
        /\ i + d \in i + 1 .. j
    BY <1>1, <1>2
  <2>2. f[i + d] = f[i + (d - 1)]
    BY <2>1 DEF Joins, Kept
  <2> QED BY <1>4, <2>1, <2>2
<1>5. j - i \in P
  <2>1. j - i \in Nat /\ j - i \in 0 .. j - i
    BY <1>2
  <2> HIDE DEF P
  <2> QED BY <1>3, <1>4, <2>1, CountUp
<1>6. i + (j - i) = j
  BY <1>2
<1> QED BY <1>5, <1>6

\* What strings.Trim takes away are newlines.
LEMMA JoinedTrim ==
  ASSUME NEW s \in Seq(Byte)
  PROVE  Joined(Trim(s)) = Joined(s)
<1> DEFINE kept == {i \in DOMAIN s : s[i] # Newline}
<1>1. PICK n \in Nat : n = Len(s) /\ DOMAIN s = 1 .. n
  BY LenProperties
<1>2. PICK f : Joins(f, s) /\ f[n] = Joined(s)
  BY <1>1, JoinsExists
<1>3. f[0] = <<>>
  BY <1>2 DEF Joins
<1>4. CASE kept = {}
  <2>1. \A k \in 0 + 1 .. n : s[k] = Newline
    BY <1>1, <1>4
  <2>2. 0 \in 0 .. Len(s) /\ n \in 0 .. Len(s)
    BY <1>1
  <2>3. f[n] = f[0]
    BY <1>1, <1>2, <2>1, <2>2, BlankLeftOut
  <2>4. Joined(<<>>) = <<>>
    <3>1. PICK none \in Seq(Byte) : none = <<>> /\ Len(none) = 0
      BY EmptySeq
    <3>2. PICK g : Joins(g, none) /\ g[Len(none)] = Joined(none)
      BY JoinsExists
    <3> QED BY <3>1, <3>2 DEF Joins
  <2>5. Trim(s) = <<>>
    BY <1>4 DEF Trim
  <2> QED BY <1>2, <1>3, <2>3, <2>4, <2>5
<1>5. CASE kept # {}
  <2>1. kept \subseteq 1 .. n
    BY <1>1
  <2>2. kept \subseteq Nat /\ kept \subseteq 0 .. n
    BY <2>1
  <2>3. Trim(s) = SubSeq(s, Min(kept), Max(kept))
    BY <1>5 DEF Trim
  <2>4. \A k \in 1 .. n : s[k] # Newline => k \in kept
    BY <1>1
  <2> HIDE DEF kept
  <2>5. PICK lo \in kept : lo = Min(kept) /\ \A k \in kept : lo <= k
    BY <1>5, <2>2, LeastNumber DEF Min
  <2>6. PICK hi \in kept : hi = Max(kept) /\ \A k \in kept : hi >= k
    BY <1>1, <1>5, <2>2, GreatestNumber DEF Max
  <2>7. lo \in 1 .. n /\ hi \in 1 .. n /\ lo <= hi
    BY <2>1, <2>5
  <2>8. \A k \in 1 .. n : k < lo \/ k > hi => s[k] = Newline
    <3>1. \A k \in 1 .. n : k < lo => ~(lo <= k)
      BY <2>7
    <3>2. \A k \in 1 .. n : k > hi => ~(hi >= k)
      BY <2>7
    <3> QED BY <2>4, <2>5, <2>6, <3>1, <3>2
  <2>9. f[lo - 1] = <<>>
    <3>1. 0 \in 0 .. Len(s) /\ lo - 1 \in 0 .. Len(s)
      BY <1>1, <2>7
    <3>2. \A k \in 0 + 1 .. lo - 1 : k \in 1 .. n /\ k < lo
      BY <2>7
    <3>3. \A k \in 0 + 1 .. lo - 1 : s[k] = Newline
      BY <2>8, <3>2
    <3> QED BY <1>2, <1>3, <3>1, <3>3, BlankLeftOut
  <2>10. f[n] = f[hi]
    <3>1. hi \in 0 .. Len(s) /\ n \in hi .. Len(s)
      BY <1>1, <2>7
    <3>2. \A k \in hi + 1 .. n : k \in 1 .. n /\ k > hi
      BY <2>7
    <3>3. \A k \in hi + 1 .. n : s[k] = Newline
      BY <2>8, <3>2
    <3> QED BY <1>2, <3>1, <3>3, BlankLeftOut
  <2>11. PICK t \in Seq(Byte) : /\ t = SubSeq(s, lo, hi) /\ Len(t) = hi - lo + 1
                                /\ \A k \in 1 .. hi - lo + 1 : t[k] = s[lo + k - 1]
    <3>1. \A k \in lo .. hi : s[k] \in Byte
      <4>1. \A k \in lo .. hi : k \in 1 .. Len(s)
        BY <1>1, <2>7
      <4> QED BY <4>1, ElementOfSeq
    <3>2. lo \in Int /\ hi \in Int /\ lo <= hi
      BY <2>7
    <3>3. /\ SubSeq(s, lo, hi) \in Seq(Byte)
          /\ Len(SubSeq(s, lo, hi)) = IF lo <= hi THEN hi - lo + 1 ELSE 0
          /\ \A k \in 1 .. hi - lo + 1 : SubSeq(s, lo, hi)[k] = s[lo + k - 1]
      BY <3>1, <3>2, SubSeqProperties
    <3> QED BY <3>2, <3>3
  <2>12. PICK h : h = [k \in 0 .. hi - lo + 1 |-> f[(lo - 1) + k]]
    OBVIOUS
  <2>13. Joins(h, t)
    <3>1. h \in [0 .. Len(t) -> Seq(Byte)]
      <4>1. \A k \in 0 .. hi - lo + 1 : (lo - 1) + k \in 0 .. Len(s)
        BY <1>1, <2>7
      <4> QED BY <1>2, <2>11, <2>12, <4>1 DEF Joins
    <3>2. h[0] = <<>>
      <4>1. 0 \in 0 .. hi - lo + 1 /\ (lo - 1) + 0 = lo - 1
        BY <2>7
      <4> QED BY <2>9, <2>12, <4>1
    <3>3. ASSUME NEW k \in 1 .. hi - lo + 1 PROVE h[k] = Kept(h[k - 1], t[k])
      <4>1. /\ k \in 0 .. hi - lo + 1 /\ k - 1 \in 0 .. hi - lo + 1
            /\ (lo - 1) + k \in 1 .. Len(s) /\ ((lo - 1) + k) - 1 = (lo - 1) + (k - 1)
            /\ lo + k - 1 = (lo - 1) + k
        BY <1>1, <2>7
      <4>2. f[(lo - 1) + k] = Kept(f[(lo - 1) + (k - 1)], s[(lo - 1) + k])
        BY <1>2, <4>1 DEF Joins
      <4> QED BY <2>11, <2>12, <4>1, <4>2
    <3> QED BY <2>11, <3>1, <3>2, <3>3 DEF Joins
  <2>14. Joined(t) = h[Len(t)]
    BY <2>13, JoinsIsJoined
  <2>15. h[Len(t)] = f[hi]
    <3>1. hi - lo + 1 \in 0 .. hi - lo + 1 /\ (lo - 1) + (hi - lo + 1) = hi
      BY <2>7
    <3> QED BY <2>11, <2>12, <3>1
  <2> QED BY <1>2, <2>3, <2>5, <2>6, <2>10, <2>11, <2>14, <2>15
<1> QED BY <1>4, <1>5

\* The lines between the newlines are all that is kept.
LEMMA SplitShown ==
  ASSUME NEW x \in Seq(Byte), NEW s \in Seq(Byte), NEW es \in Seq(Event),
         DOMAIN es = DOMAIN Split(s), \A k \in DOMAIN es : es[k] = AddEvent(Split(s)[k])
  PROVE  Displayed(x, es) = x \o Joined(s)
<1> DEFINE cuts == {0, Len(s) + 1} \cup {i \in DOMAIN s : s[i] = Newline}
           Cut(k) == CHOOSE i \in cuts : Cardinality({j \in cuts : j < i}) = k - 1
<1>1. PICK n \in Nat : n = Len(s) /\ DOMAIN s = 1 .. n
  BY LenProperties
<1>2. PICK f : Joins(f, s) /\ f[n] = Joined(s)
  BY <1>1, JoinsExists
<1>3. PICK C : C = cuts
  OBVIOUS
<1>4. /\ C \subseteq 0 .. n + 1 /\ 0 \in C /\ n + 1 \in C
      /\ \A i \in 1 .. n : i \in C <=> s[i] = Newline
  BY <1>1, <1>3
<1>5. PICK m : m = Cardinality(C) - 1
  OBVIOUS
<1>6. IsFiniteSet(C) /\ Cardinality(C) \in Nat /\ Cardinality(C) = m + 1 /\ m \in Nat
  <2>0. n + 1 \in Nat
    OBVIOUS
  <2>1. IsFiniteSet(C) /\ Cardinality(C) \in Nat
    BY <1>4, <2>0, BelowFinite
  <2>2. Cardinality(C) # 0
    BY <1>4, <2>1, FS_EmptySet
  <2> QED BY <1>5, <2>1, <2>2
<1>7. PICK c : c = [k \in 1 .. m + 1 |-> Cut(k)]
  OBVIOUS
<1>8. \A k \in 1 .. m + 1 : c[k] \in C /\ Before(C, c[k]) = k - 1
  <2> SUFFICES ASSUME NEW k \in 1 .. m + 1 PROVE Cut(k) \in C /\ Before(C, Cut(k)) = k - 1
    BY <1>7
  <2>0. n + 1 \in Nat /\ k \in 1 .. Cardinality(C)
    BY <1>6
  <2>1. \E i \in C : Before(C, i) = k - 1
    BY <1>4, <2>0, BeforeTaken
  <2> QED BY <1>3, <2>1 DEF Before
<1>9. Split(s) = [k \in 1 .. m |-> SubSeq(s, c[k] + 1, c[k + 1] - 1)]
  <2>1. Split(s) = [k \in 1 .. Cardinality(cuts) - 1 |-> SubSeq(s, Cut(k) + 1, Cut(k + 1) - 1)]
    BY DEF Split, cuts, Cut
  <2>2. Split(s) = [k \in 1 .. m |-> SubSeq(s, Cut(k) + 1, Cut(k + 1) - 1)]
    BY <1>3, <1>5, <2>1
  <2> HIDE DEF cuts, Cut
  <2>3. \A k \in 1 .. m : c[k] = Cut(k) /\ c[k + 1] = Cut(k + 1)
    <3>1. \A k \in 1 .. m : k \in 1 .. m + 1 /\ k + 1 \in 1 .. m + 1
      BY <1>6
    <3> QED BY <1>7, <3>1
  <2> QED BY <2>2, <2>3
<1> HIDE DEF cuts, Cut
<1>10. \A i, j \in C : i < j => Before(C, i) + 1 <= Before(C, j)
  <2> SUFFICES ASSUME NEW i \in C, NEW j \in C, i < j PROVE Before(C, i) + 1 <= Before(C, j)
    OBVIOUS
  <2>1. n + 1 \in Nat
    OBVIOUS
  <2> QED BY <1>4, <2>1, BeforeGrows
<1>11. ASSUME NEW k \in 1 .. m
       PROVE  /\ c[k] \in 0 .. n /\ c[k + 1] \in 1 .. n + 1 /\ c[k] < c[k + 1]
              /\ c[k] \in C /\ c[k + 1] \in C
              /\ \A i \in c[k] + 1 .. c[k + 1] - 1 : s[i] # Newline
  <2>1. k \in 1 .. m + 1 /\ k + 1 \in 1 .. m + 1 /\ k - 1 < (k + 1) - 1
        /\ ~(((k + 1) - 1) + 1 <= k - 1)
    BY <1>6
  <2>2. PICK i \in C : i = c[k] /\ Before(C, i) = k - 1
    BY <1>8, <2>1
  <2>3. PICK j \in C : j = c[k + 1] /\ Before(C, j) = (k + 1) - 1
    BY <1>8, <2>1
  <2>4. i \in 0 .. n + 1 /\ j \in 0 .. n + 1
    BY <1>4
  <2>5. i < j
    <3>1. i # j /\ ~(j < i)
      BY <1>10, <2>1, <2>2, <2>3
    <3> QED BY <2>4, <3>1
  <2>6. i \in 0 .. n /\ j \in 1 .. n + 1
    BY <2>4, <2>5
  <2>7. ASSUME NEW l \in i + 1 .. j - 1 PROVE s[l] # Newline
    <3>1. l \in 1 .. n /\ i < l /\ l < j
      BY <2>6
    <3>2. l \notin C
      <4> SUFFICES ASSUME l \in C PROVE FALSE
        OBVIOUS
      <4>1. Before(C, i) + 1 <= Before(C, l) /\ Before(C, l) + 1 <= Before(C, j)
        BY <1>10, <3>1
      <4>2. Before(C, l) \in Nat
        <5>1. n + 1 \in Nat
          OBVIOUS
        <5> QED BY <1>4, <5>1, BeforeGrows
      <4> QED BY <2>2, <2>3, <4>1, <4>2
    <3> QED BY <1>4, <3>1, <3>2
  <2> QED BY <2>2, <2>3, <2>5, <2>6, <2>7
<1>12. c[1] = 0
  <2>1. 1 \in 1 .. m + 1
    BY <1>6
  <2>2. PICK i \in C : i = c[1] /\ Before(C, i) = 1 - 1
    BY <1>8, <2>1
  <2>3. n + 1 \in Nat
    OBVIOUS
  <2>4. Before(C, 0) \in Nat
    BY <1>4, <2>3, BeforeGrows
  <2>5. ~(0 < i)
    BY <1>4, <1>10, <2>2, <2>4
  <2>6. i \in 0 .. n + 1
    BY <1>4
  <2> QED BY <2>2, <2>5, <2>6
<1>13. c[m + 1] = n + 1
  <2>1. m + 1 \in 1 .. m + 1 /\ n + 1 \in Nat /\ (m + 1) - 1 = m
    BY <1>6
  <2>2. PICK i \in C : i = c[m + 1] /\ Before(C, i) = m
    BY <1>8, <2>1
  <2>3. Before(C, n + 1) \in Nat /\ Before(C, n + 1) + 1 <= m + 1
    BY <1>4, <1>6, <2>1, BeforeGrows
  <2>4. ~(i < n + 1)
    <3>1. i < n + 1 => m + 1 <= Before(C, n + 1)
      BY <1>4, <1>10, <2>2
    <3> QED BY <1>6, <2>3, <3>1
  <2>5. i \in 0 .. n + 1
    BY <1>4
  <2> QED BY <2>2, <2>4, <2>5
<1>14. PICK g : g = [i \in 0 .. n + 1 |-> IF i = n + 1 THEN f[n] ELSE f[i]]
  OBVIOUS
<1>15. \A i \in 0 .. n : f[i] \in Seq(Byte)
  BY <1>1, <1>2 DEF Joins
<1>16. \A i \in 0 .. n + 1 : g[i] \in Seq(Byte)
  <2>1. \A i \in 0 .. n + 1 : i # n + 1 => i \in 0 .. n
    OBVIOUS
  <2>2. n \in 0 .. n
    OBVIOUS
  <2> QED BY <1>14, <1>15, <2>1, <2>2
\* A line is kept whole, and the newline behind it is not.
<1>17. ASSUME NEW k \in 1 .. m
       PROVE  /\ SubSeq(s, c[k] + 1, c[k + 1] - 1) \in Seq(Byte)
              /\ g[c[k + 1]] = g[c[k]] \o SubSeq(s, c[k] + 1, c[k + 1] - 1)
  <2>1. PICK i \in 0 .. n : i = c[k]
    BY <1>11
  <2>2. PICK j \in 0 .. n : j = c[k + 1] - 1 /\ c[k + 1] = j + 1 /\ i <= j
    <3>1. c[k + 1] \in 1 .. n + 1 /\ i < c[k + 1]
      BY <1>11, <2>1
    <3>2. c[k + 1] - 1 \in 0 .. n /\ c[k + 1] = (c[k + 1] - 1) + 1 /\ i <= c[k + 1] - 1
      BY <3>1
    <3> QED BY <3>2
  <2>3. \A l \in i + 1 .. j : s[l] # Newline
    BY <1>11, <2>1, <2>2
  <2>4. i \in 0 .. Len(s) /\ j \in i .. Len(s)
    BY <1>1, <2>2
  <2>5. f[j] = f[i] \o SubSeq(s, i + 1, j) /\ SubSeq(s, i + 1, j) \in Seq(Byte)
    BY <1>2, <2>3, <2>4, LineKept
  <2>6. g[i] = f[i]
    <3>1. i \in 0 .. n + 1 /\ i # n + 1
      OBVIOUS
    <3> QED BY <1>14, <3>1
  <2>7. g[j + 1] = f[j]
    <3>1. CASE j = n
      <4>1. j + 1 \in 0 .. n + 1 /\ j + 1 = n + 1
        BY <3>1
      <4> QED BY <1>14, <3>1, <4>1
    <3>2. CASE j # n
      <4>1. j + 1 \in 0 .. n + 1 /\ j + 1 # n + 1 /\ j + 1 \in 1 .. n /\ (j + 1) - 1 = j
        BY <3>2
      <4>2. s[j + 1] = Newline
        BY <1>4, <1>11, <2>2, <4>1
      <4>3. f[j + 1] = f[j]
        BY <1>1, <1>2, <4>1, <4>2 DEF Joins, Kept
      <4> QED BY <1>14, <4>1, <4>3
    <3> QED BY <3>1, <3>2
  <2> QED BY <2>1, <2>2, <2>5, <2>6, <2>7
<1>18. Len(es) = m
  <2>1. DOMAIN es = 1 .. m
    BY <1>9
  <2>2. Len(es) \in Nat /\ DOMAIN es = 1 .. Len(es)
    BY LenProperties
  <2>3. PICK l \in Nat : l = Len(es) /\ \A k : k \in 1 .. m <=> k \in 1 .. l
    BY <2>1, <2>2
  <2>4. (m = 0 \/ m \in 1 .. l) /\ (l = 0 \/ l \in 1 .. m)
    <3>1. (m = 0 \/ m \in 1 .. m) /\ (l = 0 \/ l \in 1 .. l)
      BY <1>6
    <3> QED BY <2>3, <3>1
  <2>5. m = l
    <3> HIDE <2>3
    <3> QED BY <1>6, <2>4
  <2> QED BY <2>3, <2>5
<1>19. PICK h \in [0 .. m -> Seq(Byte)] : IsFold(h, ShowEvent, x, es) /\ Displayed(x, es) = h[m]
  <2>1. \E h \in [0 .. Len(es) -> Seq(Byte)] :
          IsFold(h, ShowEvent, x, es) /\ Folded(ShowEvent, x, es) = h[Len(es)]
    BY ShowTakesIn, FoldedIs
  <2> QED BY <1>18, <2>1, DisplayedIsFolded
<1> DEFINE P == {k \in 0 .. m : h[k] = x \o g[c[k + 1]]}
<1>20. 0 \in P
  <2>1. 0 \in 0 .. m /\ 0 + 1 = 1
    BY <1>6
  <2>2. h[0] = x
    BY <1>19 DEF IsFold
  <2>3. g[0] = <<>>
    <3>1. 0 \in 0 .. n + 1 /\ 0 # n + 1
      OBVIOUS
    <3> QED BY <1>2, <1>14, <3>1 DEF Joins
  <2>4. x \o <<>> = x
    BY ConcatEmptySeq
  <2> QED BY <1>12, <2>1, <2>2, <2>3, <2>4
<1>21. ASSUME NEW k \in 1 .. m, k - 1 \in P PROVE k \in P
  <2>1. k \in 0 .. m /\ k - 1 \in 0 .. m /\ (k - 1) + 1 = k /\ k \in 1 .. Len(es)
    BY <1>6, <1>18
  <2>2. PICK line \in Seq(Byte) : line = SubSeq(s, c[k] + 1, c[k + 1] - 1)
    BY <1>17
  <2>3. es[k] = AddEvent(line)
    <3>1. k \in DOMAIN es
      BY <1>9
    <3> QED BY <1>9, <2>2, <3>1
  <2>4. h[k - 1] = x \o g[c[k]] /\ h[k - 1] \in Seq(Byte)
    BY <1>21, <2>1
  <2>5. h[k] = h[k - 1] \o line
    <3>1. h[k] = ShowEvent[<<h[k - 1], es[k]>>]
      BY <1>19, <2>1 DEF IsFold
    <3>2. es[k] \in Event
      BY <2>1, ElementOfSeq
    <3>3. h[k] = Display(h[k - 1], es[k])
      BY <2>4, <3>1, <3>2, ShowTakesIn
    <3> QED BY <2>3, <3>3 DEF Display, AddEvent
  <2>6. PICK y \in Seq(Byte) : y = g[c[k]]
    <3>1. c[k] \in 0 .. n + 1
      BY <1>11
    <3> QED BY <1>16, <3>1
  <2>7. g[c[k + 1]] = y \o line
    BY <1>17, <2>2, <2>6
  <2>8. x \o (y \o line) = (x \o y) \o line
    BY ConcatMoves, SMTT(60)
  <2> QED BY <2>1, <2>4, <2>5, <2>6, <2>7, <2>8
<1>22. m \in P
  <2>1. m \in 0 .. m
    BY <1>6
  <2> HIDE DEF P
  <2> QED BY <1>6, <1>20, <1>21, <2>1, CountUp
<1>23. g[n + 1] = f[n]
  <2>1. n + 1 \in 0 .. n + 1
    OBVIOUS
  <2> QED BY <1>14, <2>1
<1> QED BY <1>2, <1>13, <1>19, <1>22, <1>23

\* What the events of an entry of the queue make of the text on display.
LEMMA ExpandShown ==
  ASSUME NEW x \in Seq(Byte), NEW text \in Seq(Byte)
  PROVE  /\ Displayed(x, Expand(AddEvent(text))) = x \o Joined(text)
         /\ Displayed(x, Expand(ResetEvent)) = <<>>
<1>1. AddEvent(text) \in Event /\ ResetEvent \in Event
  BY EmptySeq DEF AddEvent, ResetEvent, Event
<1>2. PICK t \in Seq(Byte) : t = Trim(text) /\ Joined(t) = Joined(text)
  BY TrimType, JoinedTrim
<1>3. PICK es \in Seq(Event) : es = Expand(AddEvent(text))
  BY <1>1, ExpandType
<1>4. es = [k \in DOMAIN Lines(text) |-> AddEvent(Lines(text)[k])]
  BY <1>3 DEF Expand, AddEvent
<1>5. ASSUME t = <<>> PROVE Displayed(x, es) = x \o Joined(text)
  <2>1. Lines(text) = <<>>
    BY <1>2, <1>5 DEF Lines
  <2>2. PICK none \in Seq(Event) : none = <<>>
    BY EmptySeq
  <2>3. es = <<>>
    <3>1. DOMAIN Lines(text) = {}
      BY <2>1
    <3>2. DOMAIN es = {}
      BY <1>4, <3>1
    <3>3. Len(es) \in Nat /\ DOMAIN es = 1 .. Len(es)
      BY LenProperties
    <3>4. Len(es) = 0
      BY <3>2, <3>3
    <3> QED BY <3>4, EmptySeq
  <2>4. Displayed(x, <<>>) = x
    <3>1. Folded(ShowEvent, x, <<>>) = x
      BY ShowTakesIn, FoldedEmpty
    <3> QED BY <2>2, <3>1, DisplayedIsFolded
  <2>5. Joined(<<>>) = <<>>
    <3>1. PICK text0 \in Seq(Byte) : text0 = <<>>
      BY EmptySeq
    <3>2. Folded(KeepOne, text0, <<>>) = text0
      BY KeepTakesIn, FoldedEmpty
    <3> QED BY <3>1, <3>2, JoinedIsFolded
  <2>6. Joined(text) = <<>> /\ x \o <<>> = x
    BY <1>2, <1>5, <2>5, ConcatEmptySeq
  <2> QED BY <2>3, <2>4, <2>6
<1>6. ASSUME t # <<>> PROVE Displayed(x, es) = x \o Joined(text)
  <2>1. Lines(text) = Split(t)
    BY <1>2, <1>6 DEF Lines
  <2>2. DOMAIN es = DOMAIN Split(t) /\ \A k \in DOMAIN es : es[k] = AddEvent(Split(t)[k])
    BY <1>4, <2>1
  <2>3. Displayed(x, es) = x \o Joined(t)
    BY <2>2, SplitShown
  <2> QED BY <1>2, <2>3
<1>7. Displayed(x, Expand(ResetEvent)) = <<>>
  <2>1. PICK e \in Event : e = ResetEvent
    BY <1>1
  <2>2. PICK none \in Seq(Event) : none = <<>>
    BY EmptySeq
  <2>3. Expand(ResetEvent) = Append(none, e)
    <3>1. Expand(ResetEvent) = <<e>>
      BY <2>1 DEF Expand, ResetEvent
    <3>2. Append(none, e) = <<e>>
      BY <2>2
    <3> QED BY <3>1, <3>2
  <2>4. Folded(ShowEvent, x, Append(none, e)) = ShowEvent[<<Folded(ShowEvent, x, none), e>>]
    BY ShowTakesIn, FoldedAppend
  <2>5. Folded(ShowEvent, x, none) \in Seq(Byte)
    BY ShowTakesIn, FoldedIs
  <2>6. Folded(ShowEvent, x, Append(none, e)) = Display(Folded(ShowEvent, x, none), e)
    BY <2>4, <2>5, ShowTakesIn
  <2>7. Append(none, e) \in Seq(Event)
    BY AppendProperties
  <2> QED BY <2>1, <2>3, <2>6, <2>7, DisplayedIsFolded DEF Display, ResetEvent
<1> QED BY <1>3, <1>5, <1>6, <1>7

\* What is behind is displayed behind.
LEMMA DisplayedConcat ==
  ASSUME NEW x \in Seq(Byte), NEW s \in Seq(Event), NEW t \in Seq(Event)
  PROVE  /\ Displayed(x, s) \in Seq(Byte)
         /\ Displayed(x, s \o t) = Displayed(Displayed(x, s), t)
<1>1. s \o t \in Seq(Event)
  BY ConcatProperties
<1>2. Folded(ShowEvent, x, s) \in Seq(Byte)
  BY ShowTakesIn, FoldedIs
<1>3. Folded(ShowEvent, x, s \o t) = Folded(ShowEvent, Folded(ShowEvent, x, s), t)
  BY ShowTakesIn, FoldedConcat
<1> QED BY <1>1, <1>2, <1>3, DisplayedIsFolded

\* The watcher queues an entry.
LEMMA QueuedShown ==
  ASSUME SendTypes, shown \in Seq(Byte), NEW e \in Event,
         queue' = Append(queue, e), UNCHANGED <<u, shown>>
  PROVE  Displayed(shown', Unsent') = Displayed(Displayed(shown, Unsent), Expand(e))
<1>1. u.lines \in Seq(Event) /\ queue \in Seq(Event)
  BY DEF SendTypes
<1>2. Unsent' = Unsent \o Expand(e) /\ Unsent \in Seq(Event) /\ Expand(e) \in Seq(Event)
  BY <1>1, ThenExpandedAppend, ThenExpandedType, ExpandType DEF Unsent
<1>3. PICK s \in Seq(Event) : s = Unsent
  BY <1>2
<1>4. PICK t \in Seq(Event) : t = Expand(e)
  BY <1>2
<1>5. Displayed(shown, s \o t) = Displayed(Displayed(shown, s), t)
  BY DisplayedConcat
<1> QED BY <1>2, <1>3, <1>4, <1>5

\* In the beginning nothing was read and nothing is on display.
LEMMA TextInit ==
  ASSUME Init
  PROVE  TextIsFile
<1>1. u.lines = <<>> /\ queue = <<>> /\ shown = <<>> /\ got = <<>>
  BY DEF Init
<1>2. PICK es \in Seq(Event) : es = <<>>
  BY EmptySeq
<1>3. PICK text \in Seq(Byte) : text = <<>>
  BY EmptySeq
<1>4. Unsent = <<>>
  BY <1>1, <1>2, ThenExpandedEmpty DEF Unsent
<1>5. Folded(ShowEvent, text, <<>>) = text /\ Folded(KeepOne, text, <<>>) = text
  BY ShowTakesIn, KeepTakesIn, FoldedEmpty
<1>6. Displayed(text, es) = text /\ Joined(text) = text
  BY <1>2, <1>3, <1>5, DisplayedIsFolded, JoinedIsFolded
<1> QED BY <1>1, <1>2, <1>3, <1>4, <1>6 DEF TextIsFile

\* A read (watcher.go:52-77) adds the same bytes to what was read and, by its lines,
\* to what will be shown.
LEMMA TextReadFile ==
  ASSUME TailInv, OtherTypes, TextIsFile, ReadFile
  PROVE  TextIsFile'
<1> SUFFICES ASSUME u.pc # "done"
             PROVE  Displayed(shown', Unsent') = Joined(got')
  BY DEF TextIsFile, ReadFile, sendVars
<1>1. SendTypes /\ shown \in Seq(Byte) /\ got \in Seq(Byte) /\ UNCHANGED <<u, shown>>
  BY DEF OtherTypes, TailInv, WatcherTypes, ReadFile, sendVars
<1>2. Displayed(shown, Unsent) = Joined(got)
  BY DEF TextIsFile
<1>3. PICK text \in Seq(Byte) : text = ReadFrom(w.fd)
  BY ReadFromType DEF ReadFile
<1>4. CASE text = <<>>
  <2>1. UNCHANGED <<queue, got>>
    BY <1>3, <1>4 DEF ReadFile
  <2> QED BY <1>1, <1>2, <2>1 DEF Unsent
<1>5. CASE text # <<>>
  <2>1. queue' = Append(queue, AddEvent(text)) /\ got' = got \o text
    BY <1>3, <1>5 DEF ReadFile
  <2>2. AddEvent(text) \in Event
    BY DEF AddEvent, Event
  <2>3. Displayed(shown', Unsent') = Displayed(Joined(got), Expand(AddEvent(text)))
    BY <1>1, <1>2, <2>1, <2>2, QueuedShown
  <2>4. Joined(got \o text) = Joined(got) \o Joined(text) /\ Joined(got) \in Seq(Byte)
    BY <1>1, JoinedConcat
  <2>5. PICK x \in Seq(Byte) : x = Joined(got)
    BY <2>4
  <2>6. Displayed(x, Expand(AddEvent(text))) = x \o Joined(text)
    BY ExpandShown
  <2> QED BY <2>1, <2>3, <2>4, <2>5, <2>6
<1> QED BY <1>4, <1>5

\* A reset (watcher.go:46-51) forgets what was read, and its event all that will be
\* shown before it.
LEMMA TextQueueReset ==
  ASSUME TailInv, OtherTypes, TextIsFile, QueueReset
  PROVE  TextIsFile'
<1> SUFFICES ASSUME u.pc # "done"
             PROVE  Displayed(shown', Unsent') = Joined(got')
  BY DEF TextIsFile, QueueReset, sendVars
<1>1. /\ SendTypes /\ shown \in Seq(Byte) /\ got \in Seq(Byte) /\ UNCHANGED <<u, shown>>
      /\ queue' = Append(queue, ResetEvent) /\ got' = <<>>
  BY DEF OtherTypes, TailInv, WatcherTypes, QueueReset, sendVars
<1>2. ResetEvent \in Event
  BY EmptySeq DEF ResetEvent, Event
<1>3. PICK x \in Seq(Byte) : x = Displayed(shown, Unsent)
  BY <1>1, JoinedConcat DEF TextIsFile
<1>4. Displayed(shown', Unsent') = Displayed(x, Expand(ResetEvent))
  BY <1>1, <1>2, <1>3, QueuedShown
<1>5. Displayed(x, Expand(ResetEvent)) = <<>>
  BY ExpandShown
<1>6. Joined(<<>>) = <<>>
  <2>1. PICK text \in Seq(Byte) : text = <<>>
    BY EmptySeq
  <2>2. Folded(KeepOne, text, <<>>) = text
    BY KeepTakesIn, FoldedEmpty
  <2> QED BY <2>1, <2>2, JoinedIsFolded
<1> QED BY <1>1, <1>4, <1>5, <1>6

\* An event that is sent is shown, and no longer to be shown.
LEMMA TextUnstackSend ==
  ASSUME TailInv, OtherTypes, TextIsFile, UnstackSend
  PROVE  TextIsFile'
<1>1. /\ u.lines \in Seq(Event) /\ queue \in Seq(Event) /\ u.lines # <<>> /\ u.pc = "send"
      /\ queue' = queue /\ u'.lines = Tail(u.lines) /\ got' = got
      /\ shown' = Display(shown, Head(u.lines)) /\ shown \in Seq(Byte)
  BY DEF OtherTypes, SendTypes, UnstackSend, AfterSend, auxVars
<1>2. PICK e \in Event : e = Head(u.lines)
  BY <1>1, HeadTailProperties
<1>3. Tail(u.lines) \in Seq(Event)
  BY <1>1, HeadTailProperties
<1>4. PICK rest \in Seq(Event) : rest = Unsent'
  BY <1>1, <1>3, ThenExpandedType DEF Unsent
<1>5. Unsent = <<e>> \o rest
  BY <1>1, <1>2, <1>4, ThenExpandedSend, ZenonT(60) DEF Unsent
<1>6. PICK all \in Seq(Event) : all = <<e>> \o rest
  <2>1. <<e>> \in Seq(Event)
    OBVIOUS
  <2> QED BY <2>1, ConcatProperties
<1>7. all # <<>> /\ Head(all) = e /\ Tail(all) = rest
  BY <1>6, HeadTailOfPushed
<1>8. Folded(ShowEvent, shown, all) = Folded(ShowEvent, ShowEvent[<<shown, Head(all)>>], Tail(all))
  BY <1>1, <1>7, ShowTakesIn, FoldedHead
<1>9. PICK x \in Seq(Byte) : x = Display(shown, e) /\ x = ShowEvent[<<shown, e>>]
  BY <1>1, ShowTakesIn
<1>10. Displayed(shown, all) = Displayed(x, rest)
  BY <1>1, <1>7, <1>8, <1>9, DisplayedIsFolded
<1> QED BY <1>1, <1>2, <1>4, <1>5, <1>6, <1>9, <1>10 DEF TextIsFile

\* Every step keeps the text that of the file.
LEMMA TextStep ==
  ASSUME TailInv, OtherTypes, TextIsFile, [Next]_vars
  PROVE  TextIsFile'
<1> USE DEF procVars, fileVars, watchVars, sendVars, auxVars
<1>1. CASE UNCHANGED <<queue, u, shown, got>>
  BY <1>1 DEF TextIsFile, Unsent
<1>2. CASE QueueReset
  BY <1>2, TextQueueReset
<1>3. CASE ReadFile
  BY <1>3, TextReadFile
<1>4. CASE UnstackTake
  <2>1. /\ queue \in Seq(Event) /\ queue # <<>> /\ u.lines = <<>> /\ u.pc # "done"
        /\ u'.lines = Expand(Head(queue)) /\ queue' = Tail(queue) /\ UNCHANGED <<shown, got>>
    BY <1>4 DEF OtherTypes, SendTypes, UnstackTake
  <2>2. Unsent' = Unsent
    BY <2>1, ThenExpandedTake DEF Unsent
  <2> QED BY <2>1, <2>2 DEF TextIsFile
<1>5. CASE UnstackSend
  BY <1>5, TextUnstackSend
<1>6. CASE UnstackStop
  BY <1>6 DEF UnstackStop, TextIsFile
<1>7. CASE HubReceive \/ UNCHANGED vars
  BY <1>1, <1>7 DEF HubReceive, vars
<1>8. CASE \/ \E i \in DOMAIN files : \/ \E text \in Chunk : LogWrite(i, text)
                                      \/ LogTruncate(i) \/ LogFree(i)
           \/ LogRename \/ LogUnlink \/ LogCreate
  BY <1>1, <1>8 DEF LogWrite, LogTruncate, LogFree, LogRename, LogUnlink, LogCreate, EnvUnchanged
<1>9. CASE \/ Fatal \/ StartAtEnd \/ AddWatch \/ OpenToRead \/ HandleRename \/ HandleRemove
           \/ HandleOther \/ CloseWatch
  BY <1>1, <1>9 DEF Fatal, StartAtEnd, AddWatch, OpenToRead, HandleRename, HandleRemove,
                    HandleOther, CloseWatch
<1> QED
  BY <1>2, <1>3, <1>4, <1>5, <1>6, <1>7, <1>8, <1>9 DEF Next

\* For any text, any way in which reads cut it and any pace of the hub: what was sent,
\* then what the lines not sent yet will make of it, is what was read from the file but
\* for its line breaks.  Trimming and splitting lose, repeat and move no byte, and a
\* reset falls where it was found (unstacker.go:15-40).
THEOREM TailTextIsFile == Spec => []TextIsFile
<1>1. Init => TextIsFile
  BY TextInit
<1>2. TailInv /\ OtherTypes /\ TextIsFile /\ [Next]_vars => TextIsFile'
  BY TextStep
<1>3. Init => OtherTypes
  BY OtherTypesInit
<1>4. TailInv /\ OtherTypes /\ [Next]_vars => OtherTypes'
  BY OtherTypesStep
<1> QED BY <1>1, <1>2, <1>3, <1>4, TailInvariant, PTL DEF Spec
=============================================================================
