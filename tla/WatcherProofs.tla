---------------------------- MODULE WatcherProofs ----------------------------
(***************************************************************************)
(* Proofs about a watcher for any numbers of lines, of files that get the  *)
(* name of the log, and of failures and restarts.                          *)
(***************************************************************************)
EXTENDS WatcherProperties, SequenceTheorems, TLAPS

-----------------------------------------------------------------------------
(* The inductive invariant, part by part.                                  *)

DiskType ==
    /\ content \in [Files -> Seq(1..MaxLines)] /\ lines \in 0..MaxLines
    /\ created \in Files
    /\ writer \in 1..created /\ path \in {NoFile, created}
    /\ partial => lines < MaxLines
    /\ path = NoFile => created < MaxFiles
    /\ late \subseteq 1..lines

Event == {"write", "gone", "created"}
TailType ==
    /\ pc \in {"opening", "watching", "draining", "selecting", "finishing"}
    /\ file \in 0..created /\ pos \in Nat
    /\ pc = "opening" <=> file = NoFile
    /\ queue \in Seq(Event)
    /\ queue # <<>> => Watching
    /\ file # NoFile => pos <= Len(content[file])

FlagType ==
    /\ partial \in BOOLEAN /\ mid \in BOOLEAN /\ resumeFromStart \in BOOLEAN
    /\ excused \in BOOLEAN /\ stalled \in BOOLEAN

OutputType ==
    /\ parsed \in Seq(1..MaxLines) /\ torn \subseteq 1..MaxLines
    /\ skipped \subseteq 1..lines /\ cut \subseteq 1..MaxLines
    /\ opened \subseteq 1..created /\ faults \in 0..MaxFaults

\* Lines lie in the files in the order of both, and in no file beyond the one
\* the server has open.
Written ==
    /\ \A f \in Files : \A k \in 1..Len(content[f]) : content[f][k] <= lines
    /\ \A f \in Files : \A j, k \in 1..Len(content[f]) :
          j < k => content[f][j] < content[f][k]
    /\ \A f, g \in Files : f < g =>
          \A j \in 1..Len(content[f]) : \A k \in 1..Len(content[g]) :
             content[f][j] < content[g][k]
    /\ \A f \in Files : writer < f => content[f] = <<>>
    /\ \A l \in 1..lines : \E f \in Files : \E k \in 1..Len(content[f]) : content[f][k] = l

\* Where the watcher is among the files, and what it has been told.
Gone == \E i \in 1..Len(queue) : queue[i] \in {"gone", "created"}
Placed ==
    /\ file # NoFile => file \in opened /\ \A g \in opened : g <= file
    /\ resumeFromStart => pc = "opening" /\ \A g \in opened : path = NoFile \/ g < path
    /\ pc = "opening" => excused <=> ~resumeFromStart
    /\ pc # "opening" => ~excused
    /\ pc = "finishing" \/ Gone => path # file

\* What has been read comes from files that have been opened, and before what
\* the cursor has ahead.
InOrder ==
    /\ InOrderOnce
    /\ \A i \in 1..Len(parsed) : \E g \in opened :
          \E k \in 1..Len(content[g]) : content[g][k] = parsed[i]
    /\ file # NoFile =>
          \A i \in 1..Len(parsed) : \A k \in (pos + 1)..Len(content[file]) :
             parsed[i] < content[file][k]

\* A cursor inside a line: the next line is cut, and there is more of it to come.
MidLine ==
    /\ torn \subseteq cut
    /\ mid => /\ file # NoFile /\ NextLine \in cut
              /\ pos = Len(content[file]) => HalfLine(file)

\* Unless a read failed, what a waiting watcher has not read was announced to
\* it, or ended in a file without a name after its end was announced.
Announced ==
    pc = "selecting" /\ ~stalled =>
        /\ queue = <<>> => pos = Len(content[file])
        /\ queue # <<>> =>
              \/ Head(queue) = "write"
              \/ \A k \in (pos + 1)..Len(content[file]) : content[file][k] \in late

\* Every line of a file opened once is accounted for, up to the cursor in the
\* file that is open; after an error only those before what has been read.
Done(l) == l \in Parsed \cup skipped \cup late
Accounted ==
    /\ file # NoFile => \A k \in 1..pos : Done(content[file][k])
    /\ \A f \in opened \ {file} : \A k \in 1..Len(content[f]) :
          \/ Done(content[f][k])
          \/ excused /\ \A i \in 1..Len(parsed) : parsed[i] < content[f][k]

Types == DiskType /\ TailType /\ FlagType /\ OutputType
WatcherInv == Types /\ Written /\ Placed /\ InOrder /\ MidLine /\ Announced /\ Accounted

LEMMA WatcherBounds == MaxLines \in Nat /\ MaxFaults \in Nat /\ MaxFiles \in Nat \ {0}
  BY WatcherAssumption

LEMMA TypesSuffice == ASSUME Types PROVE WatcherTypeOK
<1>1. created \in Int /\ 1 <= created
  BY WatcherBounds DEF Types, DiskType, Files
<1>2. path \in {NoFile} \cup 1..created
  BY <1>1 DEF Types, DiskType
<1>3. skipped \cup late \subseteq 1..lines
  BY DEF Types, DiskType, OutputType
<1>4. {excused, stalled} \subseteq BOOLEAN
  BY DEF Types, FlagType
<1> QED
  BY <1>2, <1>3, <1>4, Zenon DEF Types, DiskType, TailType, FlagType, OutputType, WatcherTypeOK, Event

LEMMA FileLines ==
  ASSUME DiskType, NEW f \in Files
  PROVE  /\ content[f] \in Seq(1..MaxLines) /\ Len(content[f]) \in Nat
         /\ \A k \in 1..Len(content[f]) : content[f][k] \in 1..MaxLines
<1>1. content[f] \in Seq(1..MaxLines)
  BY DEF DiskType
<1>2. Len(content[f]) \in Nat
  BY <1>1, LenProperties
<1>3. \A k \in 1..Len(content[f]) : content[f][k] \in 1..MaxLines
  BY <1>1, ElementOfSeq
<1> QED
  BY <1>1, <1>2, <1>3

LEMMA ParsedLines ==
  ASSUME OutputType
  PROVE  /\ Len(parsed) \in Nat
         /\ \A i \in 1..Len(parsed) : parsed[i] \in 1..MaxLines
<1>1. parsed \in Seq(1..MaxLines)
  BY DEF OutputType
<1>2. Len(parsed) \in Nat
  BY <1>1, LenProperties
<1>3. \A i \in 1..Len(parsed) : parsed[i] \in 1..MaxLines
  BY <1>1, ElementOfSeq
<1> QED
  BY <1>2, <1>3

LEMMA FileIsAFile ==
  ASSUME DiskType, TailType
  PROVE  /\ file # NoFile => file \in Files /\ file \in 1..created
         /\ path # NoFile => path \in Files
         /\ writer \in Files
  BY WatcherBounds DEF DiskType, TailType, Files, NoFile

\* What an event adds to the queue.
LEMMA Notified ==
  ASSUME TailType, NEW e \in Event, Notify(e)
  PROVE  /\ queue' \in Seq(Event)
         /\ queue' # <<>> => Watching
         /\ Watching => queue' # <<>>
         /\ queue # <<>> => queue' # <<>> /\ Head(queue') = Head(queue)
         /\ queue = <<>> /\ queue' # <<>> => Head(queue') = e
         /\ Gone' => Gone \/ e \in {"gone", "created"}
<1>1. queue \in Seq(Event) /\ Len(queue) \in Nat /\ (queue # <<>> => Watching)
  BY DEF TailType
<1>2. CASE ~Watching \/ (queue # <<>> /\ queue[Len(queue)] = e)
  <2>1. queue' = queue /\ (Watching => queue # <<>>)
    BY <1>2 DEF Notify
  <2> QED
    BY <1>1, <2>1 DEF Gone
<1>3. CASE ~(~Watching \/ (queue # <<>> /\ queue[Len(queue)] = e))
  <2>1. queue' = Append(queue, e)
    BY <1>3 DEF Notify
  <2>2. /\ queue' \in Seq(Event) /\ Len(queue') = Len(queue) + 1 /\ queue' # <<>>
        /\ queue'[Len(queue) + 1] = e
        /\ \A i \in 1..Len(queue) : queue'[i] = queue[i]
    BY <1>1, <2>1, AppendProperties
  <2>3. Head(queue') = queue'[1]
    BY <2>2
  <2>4. queue # <<>> => Len(queue) > 0 /\ Head(queue) = queue[1]
    BY <1>1
  <2>5. queue = <<>> => Len(queue) = 0
    OBVIOUS
  <2> QED
    BY <1>1, <1>3, <2>2, <2>3, <2>4, <2>5 DEF Gone
<1> QED
  BY <1>2, <1>3

\* What the end of a line adds to the disk.
LEMMA LineEnds ==
  ASSUME DiskType, EndLine
  PROVE  /\ lines' = lines + 1 /\ lines < MaxLines
         /\ content' \in [Files -> Seq(1..MaxLines)]
         /\ \A f \in Files : f # writer => content'[f] = content[f]
         /\ writer \in Files
         /\ Len(content'[writer]) = Len(content[writer]) + 1
         /\ content'[writer][Len(content[writer]) + 1] = lines + 1
         /\ \A k \in 1..Len(content[writer]) : content'[writer][k] = content[writer][k]
<1>1. writer \in Files
  BY WatcherBounds DEF DiskType, Files
<1>2. content[writer] \in Seq(1..MaxLines) /\ lines + 1 \in 1..MaxLines /\ lines < MaxLines
  BY <1>1, WatcherBounds DEF DiskType, EndLine
<1>3. content' = [content EXCEPT ![writer] = Append(content[writer], lines + 1)]
  BY DEF EndLine
<1>4. Append(content[writer], lines + 1) \in Seq(1..MaxLines)
  BY <1>2, AppendProperties
<1>5. content \in [Files -> Seq(1..MaxLines)]
  BY DEF DiskType
<1>6. content'[writer] = Append(content[writer], lines + 1)
  BY <1>1, <1>3, <1>5
<1> QED
  BY <1>1, <1>2, <1>3, <1>4, <1>5, <1>6, AppendProperties DEF EndLine

-----------------------------------------------------------------------------
(* Types.                                                                  *)

LEMMA InitWatcher == Init => WatcherInv
<1> SUFFICES ASSUME Init PROVE WatcherInv
  OBVIOUS
<1>1. /\ 1 \in Files /\ MaxLines \in Nat /\ MaxFaults \in Nat /\ MaxFiles \in Nat
  BY WatcherBounds DEF Files
<1>2. /\ <<>> \in Seq(1..MaxLines) /\ <<>> \in Seq(Event)
      /\ Len(parsed) = 0 /\ Len(queue) = 0 /\ \A f \in Files : Len(content[f]) = 0
  BY DEF Init
<1>3. DiskType
  BY <1>1, <1>2 DEF Init, DiskType, NoFile
<1>4. TailType
  BY <1>2 DEF Init, TailType, NoFile, Watching
<1>5. OutputType
  BY <1>1, <1>2 DEF Init, OutputType
<1>9. FlagType
  BY Zenon DEF Init, FlagType
<1>6. Written
  BY <1>1, <1>2 DEF Init, Written
<1>7. Placed
  BY <1>2 DEF Init, Placed, NoFile, Gone
<1>8. InOrder /\ MidLine /\ Announced /\ Accounted
  BY <1>2 DEF Init, InOrder, InOrderOnce, MidLine, Announced, Accounted
<1> QED
  BY <1>3, <1>4, <1>5, <1>6, <1>7, <1>8, <1>9 DEF WatcherInv, Types

LEMMA DiskTypeStep == ASSUME Types, [Next]_vars PROVE DiskType'
<1>0. /\ DiskType /\ created \in Int /\ MaxFiles \in Nat /\ lines \in Nat /\ MaxLines \in Nat
  BY WatcherBounds DEF Types, DiskType, Files
<1>1. CASE EndLine
  <2>1. late' \subseteq 1..lines'
    BY <1>0, <1>1, LineEnds DEF DiskType, EndLine
  <2>2. lines' \in 0..MaxLines
    BY <1>0, <1>1, LineEnds
  <2>3. UNCHANGED <<writer, path, created>> /\ partial' = FALSE
    BY <1>1 DEF EndLine
  <2> QED
    BY <1>0, <1>1, <2>1, <2>2, <2>3, LineEnds DEF DiskType
<1>2. CASE BeginLine \/ Rename \/ Create \/ Replace \/ Reopen
  <2>1. CASE BeginLine
    BY <1>0, <2>1 DEF DiskType, BeginLine
  <2>2. CASE Rename
    BY <1>0, <2>2 DEF DiskType, Rename, NoFile
  <2>4. CASE Reopen
    <3>1. path = created /\ created \in 1..created
      BY <1>0, <2>4 DEF DiskType, Reopen, NoFile, Files
    <3> QED
      BY <1>0, <2>4, <3>1 DEF DiskType, Reopen
  <2>3. CASE Create \/ Replace
    <3>1. created' = created + 1 /\ path' = created' /\ created < MaxFiles
      BY <1>0, <2>3 DEF DiskType, Create, Replace
    <3>2. UNCHANGED <<content, lines, partial, writer, late>>
      BY <2>3 DEF Create, Replace
    <3>3. created' \in Files /\ writer \in 1..created'
      BY <1>0, <3>1 DEF DiskType, Files
    <3> QED
      BY <1>0, <3>1, <3>2, <3>3 DEF DiskType, NoFile, Files
  <2> QED
    BY <1>2, <2>1, <2>2, <2>3, <2>4
<1>3. CASE UNCHANGED disk
  BY <1>0, <1>3 DEF DiskType, disk
<1>4. UNCHANGED disk \/ EndLine \/ BeginLine \/ Rename \/ Create \/ Replace \/ Reopen
  BY DEF Next, Follow, Open, Add, AddFails, ReadLine, EndOfFile, Select, ReadFails,
         EventsClosed, Restart, vars
<1> QED
  BY <1>1, <1>2, <1>3, <1>4

\* What the server and logrotate leave alone, and what they tell the watcher.
Serve == BeginLine \/ EndLine \/ Rename \/ Create \/ Replace \/ Reopen
LEMMA Served ==
  ASSUME TailType, Serve
  PROVE  /\ UNCHANGED <<pc, file, cursor, resumeFromStart, output, history, faults>>
         /\ queue' \in Seq(Event)
         /\ queue' # <<>> => Watching
         /\ queue # <<>> => queue' # <<>> /\ Head(queue') = Head(queue)
         /\ Gone' => Gone \/ Rename \/ Create \/ Replace
  BY Notified
     DEF Serve, BeginLine, EndLine, Rename, Create, Replace, Reopen, Untouched, TailType, Gone, Event

LEMMA TailTypeStep == ASSUME Types, DiskType', [Next]_vars PROVE TailType'
<1>0. /\ DiskType /\ TailType /\ created \in Nat \ {0} /\ created' \in Nat \ {0}
      /\ <<>> \in Seq(Event)
  BY WatcherBounds DEF Types, DiskType, Files
<1>1. CASE Serve
  <2>1. /\ UNCHANGED <<pc, file, pos, mid, resumeFromStart>>
        /\ queue' \in Seq(Event) /\ (queue' # <<>> => Watching)
    BY <1>0, <1>1, Served DEF cursor
  <2>2. file' \in 0..created'
    BY <1>0, <1>1, <2>1
       DEF TailType, Serve, BeginLine, EndLine, Rename, Create, Replace, Reopen, Files
  <2>3. file' # NoFile => pos' <= Len(content'[file'])
    <3>1. CASE EndLine
      <4>1. file # NoFile => /\ file \in Files /\ Len(content[file]) \in Nat
                             /\ pos \in Nat /\ pos <= Len(content[file])
        BY <1>0, FileIsAFile, FileLines DEF TailType
      <4>2. \A f \in Files : \/ content'[f] = content[f]
                             \/ f = writer /\ Len(content'[f]) = Len(content[f]) + 1
        BY <1>0, <3>1, LineEnds
      <4> QED
        BY <2>1, <4>1, <4>2
    <3>2. CASE content' = content
      BY <1>0, <2>1, <3>2 DEF TailType
    <3> QED
      BY <1>1, <3>1, <3>2 DEF Serve, BeginLine, Rename, Create, Replace, Reopen
  <2> QED
    <3>1. pc' = pc /\ file' = file /\ pos' = pos /\ Watching' = Watching
      BY <2>1 DEF Watching
    <3> QED
      BY <1>0, <2>1, <2>2, <2>3, <3>1 DEF TailType
<1>2. CASE Open
  <2>1. /\ path \in Files /\ path \in 1..created /\ created' = created /\ content' = content
        /\ file' = path /\ pc' = "watching" /\ queue' = queue /\ resumeFromStart' = FALSE
        /\ pos' = 0 \/ pos' = Len(content[path])
    BY <1>0, <1>2, FileIsAFile DEF Open, disk, AfterOpen, DiskType, NoFile
  <2>2. pos' \in Nat /\ pos' <= Len(content[path])
    BY <1>0, <2>1, FileLines
  <2>3. queue = <<>>
    BY <1>0, <1>2 DEF Open, TailType, Watching
  <2> QED
    BY <1>0, <2>1, <2>2, <2>3 DEF TailType, NoFile, Watching
<1>3. CASE Add
  BY <1>0, <1>3 DEF Add, TailType, AfterAdd, disk, cursor, Watching
<1>4. CASE AddFails \/ EventsClosed \/ Restart
  <2>1. Return
    BY <1>0, <1>4 DEF AddFails, EventsClosed, Restart, TailType
  <2> QED
    BY <1>0, <2>1 DEF Return, TailType, NoFile, Files
<1>5. CASE ReadLine
  <2>1. file \in Files /\ Len(content[file]) \in Nat /\ pos \in Nat
    BY <1>0, <1>5, FileIsAFile, FileLines DEF ReadLine, Draining, TailType
  <2>2. /\ pos' = pos + 1 /\ pos' <= Len(content[file])
        /\ UNCHANGED <<pc, file, content, created, queue>>
    BY <1>5, <2>1 DEF ReadLine, disk
  <2> QED
    BY <1>0, <2>1, <2>2 DEF TailType, Watching
<1>6. CASE EndOfFile \/ ReadFails
  <2>1. UNCHANGED <<content, created>> /\ DrainEnds /\ pc # "opening"
    BY <1>0, <1>6 DEF EndOfFile, ReadFails, disk, TailType, DrainEnds, Return
  <2> QED
    <3>1. CASE Return
      BY <1>0, <3>1 DEF Return, TailType, NoFile, Files
    <3>2. CASE pc = "draining" /\ pc' = "selecting" /\ UNCHANGED <<file, pos, queue>>
      BY <1>0, <2>1, <3>2 DEF TailType, Watching
    <3> QED
      BY <2>1, <3>1, <3>2 DEF DrainEnds
<1>7. CASE Select
  <2>1. UNCHANGED <<content, created>>
    BY <1>7 DEF Select, disk
  <2>2. CASE Return
    BY <1>0, <2>2 DEF Return, TailType, NoFile, Files
  <2>3. CASE /\ Head(queue) \in DOMAIN Reaction
             /\ pc' = Reaction[Head(queue)] /\ queue' = Tail(queue)
             /\ UNCHANGED <<file, cursor, resumeFromStart, skipped>>
    <3>1. pc' \in {"draining", "finishing"}
      BY <2>3 DEF Reaction
    <3>2. queue' \in Seq(Event)
      BY <1>0, <1>7, <2>3 DEF Select, TailType
    <3>3. pc = "selecting"
      BY <1>7 DEF Select
    <3> QED
      BY <1>0, <2>1, <2>3, <3>1, <3>2, <3>3 DEF TailType, cursor, Watching
  <2> QED
    BY <1>7, <2>2, <2>3 DEF Select
<1>8. CASE UNCHANGED vars
  BY <1>0, <1>8 DEF TailType, vars, disk, cursor, Watching
<1> QED
  BY <1>1, <1>2, <1>3, <1>4, <1>5, <1>6, <1>7, <1>8 DEF Next, Follow, Serve

LEMMA FlagTypeStep == ASSUME Types, [Next]_vars PROVE FlagType'
<1> USE DEF Types, FlagType
<1>1. CASE Serve
  BY <1>1 DEF Serve, BeginLine, EndLine, Rename, Create, Replace, Reopen, Untouched,
              cursor, history
<1>2. CASE Open \/ Add \/ AddFails
  BY <1>2 DEF Open, Add, AddFails, AfterOpen, HalfLine, Return, disk, cursor, history
<1>3. CASE ReadLine \/ EndOfFile
  BY <1>3 DEF ReadLine, EndOfFile, DrainEnds, Draining, Restored, AfterRotation, Return,
              disk, cursor, history
<1>4. CASE ReadFails
  BY <1>4 DEF ReadFails, DrainEnds, Draining, AfterRotation, Return, disk, cursor, history
<1>5. CASE Select
  BY <1>5 DEF Select, Return, disk, cursor, history
<1>6. CASE EventsClosed \/ Restart \/ UNCHANGED vars
  BY <1>6 DEF EventsClosed, Restart, Return, vars, disk, cursor, history
<1> QED
  BY <1>1, <1>2, <1>3, <1>4, <1>5, <1>6 DEF Next, Follow, Serve

LEMMA LinesOfFile ==
  ASSUME Types, Written, NEW f \in Files
  PROVE  /\ Elements(content[f]) \subseteq 1..lines
         /\ \A k \in 1..Len(content[f]) : content[f][k] \in 1..lines
<1>1. /\ lines \in Nat /\ DiskType
      /\ \A k \in 1..Len(content[f]) : content[f][k] \in 1..MaxLines
  BY FileLines DEF Types, DiskType
<1>2. \A k \in 1..Len(content[f]) : content[f][k] \in 1..lines
  BY <1>1 DEF Written
<1> QED
  BY <1>2 DEF Elements

LEMMA NextLineType ==
  ASSUME Types, file # NoFile, pos < Len(content[file]) \/ HalfLine(file)
  PROVE  NextLine \in 1..MaxLines
<1>1. /\ lines \in Nat /\ pos \in Nat /\ file \in Files /\ MaxLines \in Nat
      /\ partial => lines < MaxLines
  BY FileIsAFile, WatcherBounds DEF Types, DiskType, TailType
<1>2. /\ Len(content[file]) \in Nat
      /\ \A k \in 1..Len(content[file]) : content[file][k] \in 1..MaxLines
  BY <1>1, FileLines DEF Types
<1>3. CASE pos < Len(content[file])
  BY <1>1, <1>2, <1>3 DEF NextLine
<1>4. CASE ~(pos < Len(content[file]))
  BY <1>1, <1>4 DEF NextLine, HalfLine
<1> QED
  BY <1>3, <1>4

LEMMA FaultCount ==
  ASSUME OutputType, NEW kind, Fault(kind)
  PROVE  faults' \in 0..MaxFaults
  BY WatcherBounds DEF OutputType, Fault

LEMMA OutputTypeStep == ASSUME Types, Written, [Next]_vars PROVE OutputType'
<1>0. /\ OutputType /\ lines \in Nat /\ created \in Nat \ {0} /\ MaxLines \in Nat
  BY WatcherBounds DEF Types, DiskType, Files
<1>1. CASE Serve
  <2>1. UNCHANGED <<parsed, torn, skipped, cut, opened, faults>>
    BY <1>1, Served DEF Types, output, history
  <2>2. lines' \in Nat /\ lines <= lines' /\ created' \in Nat /\ created <= created'
    BY <1>0, <1>1 DEF Serve, BeginLine, EndLine, Rename, Create, Replace, Reopen
  <2>3. skipped' \subseteq 1..lines' /\ opened' \subseteq 1..created'
    BY <1>0, <2>1, <2>2 DEF OutputType
  <2> QED
    BY <1>0, <2>1, <2>3 DEF OutputType
<1>2. CASE Open
  <2>1. /\ path \in 1..created /\ opened' = opened \cup {path}
        /\ UNCHANGED <<parsed, torn, faults, lines, created>>
    BY <1>0, <1>2 DEF Open, disk, output, Types, DiskType, NoFile
  <2>2. skipped' \subseteq 1..lines
    BY <1>0, <1>2 DEF Open, OutputType
  <2>3. HalfLine(path) => lines + 1 \in 1..MaxLines
    BY <1>0 DEF HalfLine, Types, DiskType
  <2>4. cut' \subseteq 1..MaxLines
    BY <1>0, <1>2, <2>3 DEF Open, OutputType
  <2> QED
    BY <1>0, <2>1, <2>2, <2>4 DEF OutputType
<1>3. CASE Add \/ AddFails \/ EndOfFile \/ EventsClosed \/ Restart \/ UNCHANGED vars
  <2>1. UNCHANGED <<parsed, torn, skipped, cut, opened, lines, created>>
    BY <1>3 DEF Add, AddFails, EndOfFile, EventsClosed, Restart, vars, disk, output, history
  <2>2. faults' \in 0..MaxFaults
    BY <1>0, <1>3, FaultCount
       DEF Add, AddFails, EndOfFile, EventsClosed, Restart, vars, OutputType
  <2> QED
    BY <1>0, <2>1, <2>2 DEF OutputType
<1>4. CASE ReadLine
  <2>1. file \in Files /\ pos \in Nat /\ pos < Len(content[file]) /\ Len(content[file]) \in Nat
    BY <1>4, FileIsAFile, FileLines DEF ReadLine, Draining, Types, TailType
  <2>2. content[file][pos + 1] \in 1..MaxLines
    BY <2>1, FileLines DEF Types
  <2>3. parsed' \in Seq(1..MaxLines) /\ torn' \subseteq 1..MaxLines
    BY <1>0, <1>4, <2>2, AppendProperties DEF ReadLine, OutputType
  <2>4. UNCHANGED <<skipped, cut, opened, faults, lines, created>>
    BY <1>4 DEF ReadLine, disk, history
  <2> QED
    BY <1>0, <2>3, <2>4 DEF OutputType
<1>5. CASE ReadFails
  <2>1. file # NoFile /\ file \in Files
    BY <1>5, FileIsAFile DEF ReadFails, Draining, Types, TailType
  <2>2. skipped' \subseteq 1..lines
    BY <1>0, <1>5, <2>1, LinesOfFile DEF ReadFails, OutputType, Unread
  <2>3. cut' = cut \/ (NextLine \in 1..MaxLines /\ cut' = cut \cup {NextLine})
    BY <1>5, <2>1, NextLineType DEF ReadFails
  <2>4. UNCHANGED <<parsed, torn, opened, lines, created>> /\ faults' \in 0..MaxFaults
    BY <1>0, <1>5, FaultCount DEF ReadFails, disk, output
  <2> QED
    BY <1>0, <2>2, <2>3, <2>4 DEF OutputType
<1>6. CASE Select
  <2>1. file \in Files
    BY <1>6, FileIsAFile DEF Select, Types, TailType
  <2>2. skipped' \subseteq 1..lines
    BY <1>0, <1>6, <2>1, LinesOfFile DEF Select, OutputType, Unread
  <2>3. UNCHANGED <<parsed, torn, cut, opened, faults, lines, created>>
    BY <1>6 DEF Select, disk, output
  <2> QED
    BY <1>0, <2>2, <2>3 DEF OutputType
<1> QED
  BY <1>1, <1>2, <1>3, <1>4, <1>5, <1>6 DEF Next, Follow, Serve

LEMMA TypesStep == ASSUME Types, Written, [Next]_vars PROVE Types'
  BY DiskTypeStep, TailTypeStep, FlagTypeStep, OutputTypeStep DEF Types

-----------------------------------------------------------------------------
(* The files.                                                              *)

LEMMA WrittenStep == ASSUME Types, Written, [Next]_vars PROVE Written'
<1>0. /\ DiskType /\ lines \in Nat /\ writer \in Files
      /\ \A f \in Files : /\ Len(content[f]) \in Nat
                          /\ \A k \in 1..Len(content[f]) : content[f][k] \in 1..lines
  BY FileLines, FileIsAFile, LinesOfFile DEF Types, DiskType
<1>1. CASE EndLine
  <2>1. /\ lines' = lines + 1 /\ writer' = writer
        /\ \A f \in Files : f # writer => content'[f] = content[f]
        /\ Len(content'[writer]) = Len(content[writer]) + 1
        /\ content'[writer][Len(content[writer]) + 1] = lines'
        /\ \A k \in 1..Len(content[writer]) : content'[writer][k] = content[writer][k]
    BY <1>0, <1>1, LineEnds DEF EndLine
  <2>2. ASSUME NEW f \in Files, NEW k \in 1..Len(content'[f])
        PROVE  \/ k \in 1..Len(content[f]) /\ content'[f][k] = content[f][k]
               \/ f = writer /\ k = Len(content[f]) + 1 /\ content'[f][k] = lines'
    BY <1>0, <2>1
  <2>3. ASSUME NEW f \in Files, NEW k \in 1..Len(content'[f]) PROVE content'[f][k] <= lines'
    <3>1. CASE k \in 1..Len(content[f]) /\ content'[f][k] = content[f][k]
      BY <1>0, <2>1, <3>1
    <3>2. CASE content'[f][k] = lines'
      BY <1>0, <2>1, <3>2
    <3> QED
      BY <2>2, <3>1, <3>2
  <2>4. ASSUME NEW f \in Files, NEW j \in 1..Len(content'[f]), NEW k \in 1..Len(content'[f]),
               j < k
        PROVE  content'[f][j] < content'[f][k]
    <3>1. j \in 1..Len(content[f]) /\ content'[f][j] = content[f][j]
      BY <1>0, <2>1, <2>2, <2>4
    <3>2. content[f][j] \in 1..lines
      BY <1>0, <3>1
    <3> QED
      BY <2>1, <2>2, <2>4, <3>1, <3>2, <1>0 DEF Written
  <2>5. ASSUME NEW f \in Files, NEW g \in Files, f < g,
               NEW j \in 1..Len(content'[f]), NEW k \in 1..Len(content'[g])
        PROVE  content'[f][j] < content'[g][k]
    <3>1. content[g] # <<>> \/ g = writer
      BY <1>0, <2>1, <2>2, <2>5
    <3>2. g <= writer
      BY <3>1, <1>0, WatcherBounds DEF Written, Files
    <3>3. f # writer /\ j \in 1..Len(content[f]) /\ content'[f][j] = content[f][j]
      BY <2>1, <2>5, <3>2, WatcherBounds DEF Files
    <3>4. content[f][j] \in 1..lines
      BY <1>0, <3>3
    <3> QED
      BY <1>0, <2>1, <2>2, <2>5, <3>3, <3>4 DEF Written
  <2>6. \A f \in Files : writer' < f => content'[f] = <<>>
    BY <1>0, <2>1, WatcherBounds DEF Written, Files
  <2>7. ASSUME NEW l \in 1..lines'
        PROVE  \E f \in Files : \E k \in 1..Len(content'[f]) : content'[f][k] = l
    <3>1. CASE l = lines'
      BY <1>0, <2>1, <3>1
    <3>2. CASE l \in 1..lines
      <4>1. PICK f \in Files : \E k \in 1..Len(content[f]) : content[f][k] = l
        BY <3>2 DEF Written
      <4>3. PICK k \in 1..Len(content[f]) : content[f][k] = l
        BY <4>1
      <4>2. k \in 1..Len(content'[f]) /\ content'[f][k] = l
        BY <1>0, <2>1, <4>3
      <4> QED
        BY <4>2
    <3> QED
      BY <1>0, <2>1, <3>1, <3>2
  <2> QED
    BY <2>3, <2>4, <2>5, <2>6, <2>7 DEF Written
<1>2. CASE Reopen
  <2>1. writer' = path /\ UNCHANGED <<content, lines>> /\ path = created /\ writer <= created
    BY <1>2 DEF Reopen, Types, DiskType
  <2>2. \A f \in Files : writer' < f => content'[f] = <<>>
    BY <1>0, <2>1, WatcherBounds DEF Written, Files, Types, DiskType
  <2> QED
    BY <2>1, <2>2 DEF Written
<1>3. CASE UNCHANGED <<content, lines, writer>>
  BY <1>3 DEF Written
<1>4. EndLine \/ Reopen \/ UNCHANGED <<content, lines, writer>>
  BY DEF Next, Follow, BeginLine, Rename, Create, Replace, Open, Add, AddFails, ReadLine,
         EndOfFile, Select, ReadFails, EventsClosed, Restart, vars, disk
<1> QED
  BY <1>1, <1>2, <1>3, <1>4

LEMMA PlacedStep == ASSUME Types, Types', Placed, [Next]_vars PROVE Placed'
<1>0. /\ DiskType /\ TailType /\ FlagType /\ created \in Nat \ {0}
      /\ opened \subseteq 1..created /\ \A g \in opened : g \in Nat /\ g <= created
  BY WatcherBounds DEF Types, DiskType, OutputType, Files
<1>1. CASE Serve
  <2>1. UNCHANGED <<pc, file, resumeFromStart, excused, opened>>
    BY <1>0, <1>1, Served DEF history
  <2>2. Gone' => Gone \/ Rename \/ Create \/ Replace
    BY <1>0, <1>1, Served
  <2>3. \/ path' = path /\ ~(Rename \/ Create \/ Replace)
        \/ path' = NoFile
        \/ path' = created + 1
    BY <1>0, <1>1 DEF Serve, BeginLine, EndLine, Rename, Create, Replace, Reopen, DiskType
  <2>4. path' # path => path' = NoFile \/ path' = created + 1
    BY <2>3
  <2>5. Watching' = Watching /\ (Gone' => Watching')
    <3>1. Gone' => queue' # <<>>
      BY DEF Gone
    <3> QED
      BY <1>0, <1>1, <2>1, <3>1, Served DEF Watching
  <2>6. pc' = "finishing" \/ Gone' => path' # file'
    <3>1. Watching => file # NoFile /\ file \in 1..created
      BY <1>0 DEF TailType, Watching, NoFile
    <3>2. pc' = "finishing" \/ Gone' => Watching
      BY <2>1, <2>5 DEF Watching
    <3> QED
      BY <1>0, <2>1, <2>2, <2>3, <3>1, <3>2 DEF Placed, NoFile
  <2>7. resumeFromStart' =>
           pc' = "opening" /\ \A g \in opened' : path' = NoFile \/ g < path'
    BY <1>0, <2>1, <2>3 DEF Placed
  <2> QED
    BY <2>1, <2>6, <2>7 DEF Placed
<1>2. CASE Open
  <2>1. /\ path = created /\ file' = path /\ path' = path /\ opened' = opened \cup {path}
        /\ resumeFromStart' = FALSE /\ excused' = FALSE /\ pc' = "watching" /\ queue' = <<>>
    BY <1>0, <1>2 DEF Open, AfterOpen, disk, DiskType, TailType, Watching
  <2>2. ~Gone'
    BY <2>1 DEF Gone
  <2> QED
    BY <1>0, <2>1, <2>2 DEF Placed
<1>3. CASE AddFails \/ EventsClosed \/ Restart
  <2>1. Return /\ excused' = TRUE /\ opened' = opened /\ path' = path
    BY <1>3 DEF AddFails, EventsClosed, Restart, disk
  <2>2. resumeFromStart' = FALSE
    <3>1. AddFails \/ EventsClosed => resumeFromStart' = resumeFromStart /\ pc # "opening"
      BY DEF AddFails, EventsClosed
    <3>2. Restart => resumeFromStart' = FALSE
      BY DEF Restart
    <3> QED
      BY <1>0, <1>3, <3>1, <3>2 DEF Placed, FlagType
  <2>3. ~Gone'
    BY <2>1 DEF Return, Gone
  <2> QED
    BY <2>1, <2>2, <2>3 DEF Return, Placed
<1>4. CASE Add \/ ReadLine \/ UNCHANGED vars
  <2>1. /\ UNCHANGED <<file, resumeFromStart, queue, path, opened, excused>>
        /\ pc' = pc \/ (pc = "watching" /\ pc' = "draining")
    BY <1>4 DEF Add, AfterAdd, ReadLine, vars, disk, history
  <2>2. Gone' = Gone
    BY <2>1 DEF Gone
  <2> QED
    BY <2>1, <2>2 DEF Placed
<1>5. CASE EndOfFile \/ ReadFails
  <2>1. DrainEnds /\ UNCHANGED <<path, opened, excused>> /\ pc \in {"draining", "finishing"}
    BY <1>5 DEF EndOfFile, ReadFails, disk, Draining
  <2>2. CASE pc = "draining" /\ pc' = "selecting" /\ UNCHANGED <<file, resumeFromStart, queue>>
    <3>1. Gone' = Gone
      BY <2>2 DEF Gone
    <3> QED
      BY <2>1, <2>2, <3>1 DEF Placed
  <2>3. CASE pc = "finishing" /\ Return /\ resumeFromStart' = TRUE
    <3>1. /\ ~Gone' /\ pc' = "opening" /\ file' = NoFile /\ ~excused
          /\ path # file /\ file # NoFile
      BY <1>0, <2>3 DEF Return, Gone, Placed, TailType
    <3>2. \A g \in opened : path = NoFile \/ g < path
      BY <1>0, <3>1 DEF Placed, DiskType, TailType
    <3> QED
      BY <2>1, <2>3, <3>1, <3>2 DEF Placed
  <2> QED
    BY <2>1, <2>2, <2>3 DEF DrainEnds, AfterRotation
<1>6. CASE Select
  <2>1. /\ UNCHANGED <<path, opened, excused>> /\ pc = "selecting" /\ queue # <<>>
        /\ queue \in Seq(Event) /\ file # NoFile
    BY <1>0, <1>6 DEF Select, disk, TailType
  <2>2. /\ Head(queue) = queue[1] /\ Len(queue) \in Nat \ {0}
        /\ Len(Tail(queue)) = Len(queue) - 1
        /\ \A i \in 1..Len(Tail(queue)) : Tail(queue)[i] = queue[i + 1]
    BY <2>1, HeadTailProperties, EmptySeq
  <2>3. Head(queue) \in {"gone", "created"} => path # file
    BY <2>2 DEF Placed, Gone
  <2>4. CASE /\ pc' = Reaction[Head(queue)] /\ queue' = Tail(queue)
             /\ Head(queue) \in DOMAIN Reaction
             /\ UNCHANGED <<file, resumeFromStart>>
    <3>1. /\ pc' \in {"draining", "finishing"}
          /\ pc' = "finishing" => Head(queue) = "gone"
      BY <2>4 DEF Reaction
    <3>2. Gone' => Gone
      BY <2>2, <2>4 DEF Gone
    <3> QED
      BY <2>1, <2>3, <2>4, <3>1, <3>2 DEF Placed
  <2>5. CASE Head(queue) = "created" /\ Return /\ resumeFromStart' = TRUE
    <3>1. /\ ~Gone' /\ pc' = "opening" /\ file' = NoFile /\ ~excused /\ path # file
      BY <2>1, <2>3, <2>5 DEF Return, Gone, Placed
    <3>2. \A g \in opened : path = NoFile \/ g < path
      BY <1>0, <2>1, <3>1 DEF Placed, DiskType, TailType
    <3> QED
      BY <2>1, <2>5, <3>1, <3>2 DEF Placed
  <2> QED
    BY <1>6, <2>4, <2>5 DEF Select
<1> QED
  BY <1>1, <1>2, <1>3, <1>4, <1>5, <1>6 DEF Next, Follow, Serve

-----------------------------------------------------------------------------
(* What the watcher has handed over.                                       *)

\* The lines of the files at the end of one, and ahead of the cursor.
LEMMA LinesStay ==
  ASSUME Types, EndLine
  PROVE  /\ lines' = lines + 1 /\ writer \in Files
         /\ \A f \in Files :
               /\ Len(content[f]) \in Nat /\ Len(content'[f]) \in Nat
               /\ \A k \in 1..Len(content[f]) :
                     k \in 1..Len(content'[f]) /\ content'[f][k] = content[f][k]
               /\ \A k \in 1..Len(content'[f]) :
                     \/ k \in 1..Len(content[f])
                     \/ /\ f = writer /\ k = Len(content[f]) + 1 /\ content'[f][k] = lines + 1
<1>1. \A f \in Files : Len(content[f]) \in Nat
  BY FileLines DEF Types
<1> QED
  BY <1>1, LineEnds DEF Types

LEMMA InOrderStep ==
  ASSUME WatcherInv, Types', [Next]_vars
  PROVE  InOrder'
<1>0. /\ Types /\ Written /\ InOrder /\ lines \in Nat /\ Len(parsed) \in Nat
      /\ DiskType /\ TailType /\ OutputType
      /\ opened \subseteq Files
      /\ \A i \in 1..Len(parsed) : parsed[i] \in 1..lines
  <2>1. Types /\ Written /\ InOrder /\ DiskType /\ OutputType /\ TailType
    BY DEF WatcherInv, Types
  <2>2. opened \subseteq Files
    BY <2>1, WatcherBounds DEF DiskType, OutputType, Files
  <2>3. lines \in Nat /\ Len(parsed) \in Nat
    BY <2>1, ParsedLines DEF DiskType
  <2>4. \A i \in 1..Len(parsed) : parsed[i] \in 1..lines
    BY <2>1, <2>2, LinesOfFile DEF InOrder
  <2> QED
    BY <2>1, <2>2, <2>3, <2>4
<1>1. CASE EndLine
  <2>1. UNCHANGED <<file, pos, parsed, opened>>
    BY <1>1 DEF EndLine, Untouched, cursor, output, history
  <2>2. InOrderOnce'
    BY <1>0, <2>1 DEF InOrder, InOrderOnce
  <2>3. \A i \in 1..Len(parsed) : \E g \in opened :
           \E k \in 1..Len(content'[g]) : content'[g][k] = parsed[i]
    BY <1>0, <1>1, LinesStay DEF InOrder
  <2>4. ASSUME file # NoFile, NEW i \in 1..Len(parsed),
               NEW k \in (pos + 1)..Len(content'[file])
        PROVE  parsed[i] < content'[file][k]
    <3>1. file \in Files /\ pos \in Nat
      BY <1>0, <2>4, FileIsAFile DEF TailType
    <3>2. k \in 1..Len(content'[file])
      BY <1>0, <1>1, <3>1, LinesStay
    <3>3. CASE k \in 1..Len(content[file])
      <4>1. k \in (pos + 1)..Len(content[file]) /\ content'[file][k] = content[file][k]
        BY <1>0, <1>1, <3>1, <3>3, LinesStay
      <4> QED
        BY <1>0, <2>4, <4>1 DEF InOrder
    <3>4. CASE content'[file][k] = lines + 1
      BY <1>0, <3>4
    <3> QED
      BY <1>0, <1>1, <3>1, <3>2, <3>3, <3>4, LinesStay
  <2> QED
    BY <2>1, <2>2, <2>3, <2>4 DEF InOrder
<1>2. CASE Open
  <2>1. /\ path \in Files /\ file' = path /\ opened' = opened \cup {path}
        /\ UNCHANGED <<content, parsed>>
        /\ \/ resumeFromStart /\ pos' = 0
           \/ pos' = Len(content[path])
    BY <1>0, <1>2, FileIsAFile DEF Open, disk, output
  <2>2. ASSUME NEW i \in 1..Len(parsed), NEW k \in (pos' + 1)..Len(content[path])
        PROVE  parsed[i] < content[path][k]
    <3>1. Len(content[path]) \in Nat
      BY <1>0, <2>1, FileLines
    <3>2. resumeFromStart /\ k \in 1..Len(content[path])
      BY <2>1, <2>2, <3>1
    <3>3. \A g \in opened : g < path
      BY <1>2, <3>2 DEF Open, WatcherInv, Placed
    <3>4. PICK g \in opened : \E j \in 1..Len(content[g]) : content[g][j] = parsed[i]
      BY <1>0 DEF InOrder
    <3> QED
      BY <1>0, <2>1, <3>2, <3>3, <3>4 DEF Written
  <2> QED
    BY <1>0, <2>1, <2>2 DEF InOrder, InOrderOnce
<1>3. CASE ReadLine
  <2>1. /\ file # NoFile /\ file \in Files /\ pos \in Nat /\ pos < Len(content[file])
        /\ Len(content[file]) \in Nat /\ pos + 1 \in 1..Len(content[file])
        /\ parsed \in Seq(1..MaxLines) /\ content[file][pos + 1] \in 1..MaxLines
    BY <1>0, <1>3, FileIsAFile, FileLines DEF ReadLine, Draining, TailType, OutputType
  <2>2. /\ Len(parsed') = Len(parsed) + 1
        /\ parsed'[Len(parsed) + 1] = content[file][pos + 1]
        /\ \A i \in 1..Len(parsed) : parsed'[i] = parsed[i]
    BY <1>3, <2>1, AppendProperties DEF ReadLine
  <2>3. UNCHANGED <<file, content, opened>> /\ pos' = pos + 1
    BY <1>3 DEF ReadLine, disk, history
  <2>4. file \in opened
    BY <2>1 DEF WatcherInv, Placed
  <2>5. \A i \in 1..Len(parsed) : parsed[i] < content[file][pos + 1]
    BY <1>0, <2>1 DEF InOrder
  <2>6. ASSUME NEW i \in 1..Len(parsed')
        PROVE  i \in 1..Len(parsed) \/ i = Len(parsed) + 1
    BY <1>0, <2>2
  <2>7. InOrderOnce'
    BY <1>0, <2>2, <2>5, <2>6 DEF InOrder, InOrderOnce
  <2>8. \A i \in 1..Len(parsed') : \E g \in opened :
           \E k \in 1..Len(content[g]) : content[g][k] = parsed'[i]
    BY <1>0, <2>1, <2>2, <2>4, <2>6 DEF InOrder
  <2>9. ASSUME NEW i \in 1..Len(parsed'), NEW k \in (pos' + 1)..Len(content[file])
        PROVE  parsed'[i] < content[file][k]
    <3>1. CASE i \in 1..Len(parsed)
      <4>1. k \in (pos + 1)..Len(content[file])
        BY <2>1, <2>3
      <4> QED
        BY <1>0, <2>1, <2>2, <3>1, <4>1 DEF InOrder
    <3>2. CASE i = Len(parsed) + 1
      <4>1. k \in 1..Len(content[file]) /\ pos + 1 < k
        BY <2>1, <2>3
      <4> QED
        BY <1>0, <2>1, <2>2, <3>2, <4>1 DEF Written
    <3> QED
      BY <2>6, <3>1, <3>2
  <2> QED
    BY <2>1, <2>3, <2>7, <2>8, <2>9 DEF InOrder
<1>4. CASE /\ UNCHANGED <<content, parsed, opened>>
           /\ file' = NoFile \/ UNCHANGED <<file, pos>>
  BY <1>0, <1>4 DEF InOrder, InOrderOnce
<1>5. \/ EndLine \/ Open \/ ReadLine
      \/ /\ UNCHANGED <<content, parsed, opened>>
         /\ file' = NoFile \/ UNCHANGED <<file, pos>>
  BY DEF Next, Follow, BeginLine, Rename, Create, Replace, Reopen, Untouched, Add, AddFails,
         EndOfFile, DrainEnds, Return, Select, ReadFails, EventsClosed, Restart, vars, disk,
         cursor, output, history
<1> QED
  BY <1>1, <1>2, <1>3, <1>4, <1>5

\* A reader that knows the beginning of its next line reads the line whole.
LEMMA MidLineStep ==
  ASSUME WatcherInv, Types', [Next]_vars
  PROVE  MidLine'
<1>0. /\ Types /\ MidLine /\ pos \in Nat
      /\ file # NoFile => pos <= Len(content[file])
      /\ \A f \in Files : Len(content[f]) \in Nat
      /\ DiskType /\ TailType
  BY FileLines DEF WatcherInv, Types, TailType
<1>1. CASE EndLine
  <2>1. UNCHANGED <<file, pos, mid, torn, cut, writer>> /\ partial
    BY <1>1 DEF EndLine, Untouched, cursor, output, history
  <2>2. ASSUME mid
        PROVE  file # NoFile /\ NextLine' = NextLine /\ pos < Len(content'[file])
    <3>1. file # NoFile /\ file \in Files
      BY <1>0, <2>2, FileIsAFile DEF MidLine
    <3>2. CASE pos < Len(content[file])
      BY <1>0, <1>1, <2>1, <3>1, <3>2, LinesStay DEF NextLine
    <3>3. CASE pos = Len(content[file])
      <4>1. writer = file
        BY <2>2, <3>3 DEF MidLine, WatcherInv, HalfLine
      <4>2. /\ Len(content'[file]) = Len(content[file]) + 1
            /\ content'[file][Len(content[file]) + 1] = lines + 1
        BY <1>0, <1>1, <4>1, LineEnds
      <4> QED
        BY <1>0, <2>1, <3>1, <3>3, <4>2 DEF NextLine
    <3> QED
      BY <1>0, <3>1, <3>2, <3>3
  <2> QED
    BY <1>0, <2>1, <2>2 DEF MidLine
<1>2. CASE BeginLine \/ Reopen
  <2>1. UNCHANGED <<file, pos, mid, torn, cut, content, lines>>
    BY <1>2 DEF BeginLine, Reopen, Untouched, cursor, output, history
  <2>2. NextLine' = NextLine
    BY <2>1 DEF NextLine
  <2>3. \A f : HalfLine(f) => HalfLine(f)'
    BY <1>2 DEF BeginLine, Reopen, HalfLine
  <2> QED
    BY <1>0, <2>1, <2>2, <2>3 DEF MidLine
<1>3. CASE Open
  <2>1. /\ file' = path /\ path # NoFile /\ path \in Files
        /\ content' = content /\ lines' = lines /\ partial' = partial /\ writer' = writer
        /\ torn' = torn /\ cut \subseteq cut'
    BY <1>0, <1>3, FileIsAFile DEF Open, disk, output
  <2>2. mid' => pos' = Len(content[path]) /\ HalfLine(path) /\ lines + 1 \in cut'
    BY <1>3 DEF Open
  <2>3. mid' => NextLine' = lines + 1
    BY <1>0, <2>1, <2>2 DEF NextLine
  <2> QED
    BY <1>0, <2>1, <2>2, <2>3 DEF MidLine, HalfLine
<1>4. CASE ReadLine
  <2>1. mid' = FALSE /\ cut' = cut
    BY <1>4 DEF ReadLine, history
  <2>2. torn' \subseteq cut
    BY <1>0, <1>4 DEF ReadLine, MidLine, NextLine
  <2> QED
    BY <2>1, <2>2 DEF MidLine
<1>5. CASE ReadFails
  <2>1. /\ UNCHANGED <<content, lines, partial, writer, torn>> /\ cut \subseteq cut'
        /\ file # NoFile /\ file \in Files
    BY <1>0, <1>5, FileIsAFile DEF ReadFails, Draining, disk, output, TailType
  <2>2. CASE pc = "finishing"
    <3>1. mid' = FALSE
      BY <1>5, <2>2 DEF ReadFails, DrainEnds, Return
    <3> QED
      BY <1>0, <2>1, <3>1 DEF MidLine
  <2>3. CASE pc = "draining"
    <3>1. UNCHANGED <<file, pos>>
      BY <1>5, <2>3 DEF ReadFails, DrainEnds
    <3>2. \/ /\ pos < Len(content[file]) \/ HalfLine(file)
             /\ NextLine \in cut'
          \/ mid' = mid
      BY <1>5, <2>3 DEF ReadFails
    <3>3. NextLine' = NextLine /\ HalfLine(file)' = HalfLine(file)
      BY <2>1, <3>1 DEF NextLine, HalfLine
    <3> QED
      BY <1>0, <2>1, <3>1, <3>2, <3>3 DEF MidLine, HalfLine
  <2> QED
    BY <1>5, <2>2, <2>3 DEF ReadFails, Draining
<1>6. CASE /\ UNCHANGED <<content, lines, partial, writer, torn, cut>>
           /\ mid' = FALSE \/ UNCHANGED <<file, pos, mid>>
  <2>1. file' = file /\ pos' = pos => NextLine' = NextLine /\ (HalfLine(file)' = HalfLine(file))
    BY <1>6 DEF NextLine, HalfLine
  <2> QED
    BY <1>0, <1>6, <2>1 DEF MidLine
<1>7. \/ EndLine \/ BeginLine \/ Reopen \/ Open \/ ReadLine \/ ReadFails
      \/ /\ UNCHANGED <<content, lines, partial, writer, torn, cut>>
         /\ mid' = FALSE \/ UNCHANGED <<file, pos, mid>>
  BY DEF Next, Follow, Rename, Create, Replace, Untouched, Add, AddFails,
         EndOfFile, DrainEnds, Draining, Restored, Return, Select, EventsClosed, Restart, vars,
         disk, cursor, output, history
<1> QED
  BY <1>1, <1>2, <1>3, <1>4, <1>5, <1>6, <1>7

-----------------------------------------------------------------------------
(* What the watcher has been told, and what is accounted for.              *)

LEMMA AnnouncedStep ==
  ASSUME WatcherInv, Types', [Next]_vars
  PROVE  Announced'
<1>0. /\ Types /\ DiskType /\ TailType /\ Announced
      /\ \A f \in Files : Len(content[f]) \in Nat
  BY FileLines DEF WatcherInv, Types
<1>1. CASE Serve
  <2>1. /\ UNCHANGED <<pc, file, pos, stalled>> /\ late \subseteq late'
        /\ queue # <<>> => queue' # <<>> /\ Head(queue') = Head(queue)
    <3>1. UNCHANGED <<pc, file, pos, stalled>> /\
          (queue # <<>> => queue' # <<>> /\ Head(queue') = Head(queue))
      BY <1>0, <1>1, Served DEF cursor, history
    <3>2. late \subseteq late'
      BY <1>1 DEF Serve, BeginLine, EndLine, Rename, Create, Replace, Reopen
    <3> QED
      BY <3>1, <3>2
  <2> SUFFICES ASSUME pc = "selecting", ~stalled
               PROVE  Announced'
    BY <2>1 DEF Announced
  <2>2. file \in Files /\ file # NoFile /\ Watching /\ pos \in Nat
    BY <1>0, FileIsAFile DEF TailType, Watching
  <2>3. CASE EndLine
    <3>1. Notify("write")
      BY <2>3 DEF EndLine
    <3>2. queue' # <<>> /\ (queue = <<>> => Head(queue') = "write")
      BY <1>0, <2>2, <3>1, Notified DEF Event
    <3>3. ASSUME queue # <<>>, Head(queue) # "write",
                 NEW k \in (pos + 1)..Len(content'[file])
          PROVE  content'[file][k] \in late'
      <4>1. CASE k \in 1..Len(content[file])
        <5>1. k \in (pos + 1)..Len(content[file]) /\ content'[file][k] = content[file][k]
          BY <1>0, <2>2, <2>3, <3>3, <4>1, LinesStay
        <5> QED
          BY <1>0, <2>1, <3>3, <5>1 DEF Announced
      <4>2. CASE file = writer /\ content'[file][k] = lines + 1
        <5>1. queue \in Seq(Event) /\ Head(queue) = queue[1] /\ Len(queue) \in Nat \ {0}
              /\ Head(queue) \in Event
          BY <1>0, <3>3, EmptySeq, HeadTailProperties DEF TailType
        <5>2. Gone
          BY <3>3, <5>1 DEF Gone, Event
        <5>3. path # file
          BY <5>2 DEF WatcherInv, Placed
        <5> QED
          <6>1. late' = late \cup {lines + 1}
            BY <2>3, <4>2, <5>3 DEF EndLine
          <6> QED
            BY <4>2, <6>1
      <4> QED
        BY <1>0, <2>2, <2>3, <3>3, <4>1, <4>2, LinesStay
    <3> QED
      BY <1>0, <2>1, <2>2, <3>2, <3>3 DEF Announced
  <2>4. CASE content' = content
    <3>1. queue = <<>> => pos = Len(content[file])
      BY <1>0 DEF Announced
    <3> QED
      BY <1>0, <2>1, <2>2, <2>4, <3>1 DEF Announced
  <2> QED
    BY <1>1, <2>3, <2>4 DEF Serve, BeginLine, Rename, Create, Replace, Reopen
<1>2. CASE EndOfFile
  <2>1. pc' = "selecting" => pos' = Len(content'[file'])
    BY <1>2 DEF EndOfFile, DrainEnds, Return, disk
  <2>2. ASSUME pc' = "selecting"
        PROVE  file' \in Files /\ pos' \in Nat /\ content' = content
    <3>1. DiskType' /\ TailType' /\ content' = content
      BY <1>2 DEF Types, EndOfFile, disk
    <3>2. file' \in 0..created' /\ pos' \in Nat /\ file' # NoFile /\ created' \in Files
      BY <2>2, <3>1 DEF DiskType, TailType
    <3> QED
      BY <3>1, <3>2, WatcherBounds DEF Files, NoFile
  <2>3. pc' = "selecting" => \A k \in (pos' + 1)..Len(content'[file']) : FALSE
    BY <1>0, <2>1, <2>2
  <2> QED
    BY <2>1, <2>3 DEF Announced
<1>3. CASE ReadFails
  <2>1. pc' = "selecting" => stalled'
    BY <1>3 DEF ReadFails, DrainEnds, Return
  <2> QED
    BY <2>1 DEF Announced
<1>4. CASE pc' # "selecting"
  BY <1>4 DEF Announced
<1>5. CASE UNCHANGED vars
  BY <1>0, <1>5 DEF Announced, vars, disk, cursor, history
<1>6. Serve \/ EndOfFile \/ ReadFails \/ pc' # "selecting" \/ UNCHANGED vars
  <2>1. Open \/ AddFails \/ Add \/ EventsClosed \/ Restart => pc' # "selecting"
    BY DEF Open, AddFails, Add, AfterAdd, EventsClosed, Restart, Return
  <2>2. Select => pc' # "selecting"
    BY DEF Select, Reaction, Return
  <2>3. ReadLine => pc' # "selecting"
    BY DEF ReadLine, Draining
  <2> QED
    BY <2>1, <2>2, <2>3 DEF Next, Follow, Serve
<1> QED
  BY <1>1, <1>2, <1>3, <1>4, <1>5, <1>6

\* What is behind the cursor or unread, when the file is left.
LEMMA Leaving ==
  ASSUME WatcherInv, file # NoFile, NEW k \in 1..Len(content[file])
  PROVE  /\ k <= pos => Done(content[file][k])
         /\ pos < k => \A i \in 1..Len(parsed) : parsed[i] < content[file][k]
         /\ Done(content[file][k]) \/ content[file][k] \in Unread
<1>1. file \in Files /\ pos \in Nat /\ Len(content[file]) \in Nat
  BY FileIsAFile, FileLines DEF WatcherInv, Types, TailType
<1>2. k <= pos => Done(content[file][k])
  BY <1>1 DEF WatcherInv, Accounted
<1>3. pos < k => \A i \in 1..Len(parsed) : parsed[i] < content[file][k]
  BY <1>1 DEF WatcherInv, InOrder
<1>4. Done(content[file][k]) \/ content[file][k] \in Unread
  BY DEF Done, Unread, Elements
<1> QED
  BY <1>2, <1>3, <1>4

\* When the watcher leaves its file, it is accounted for in one way or the other.
LEMMA AccountedOnLeaving ==
  ASSUME WatcherInv, UNCHANGED <<content, parsed, late, opened>>, skipped \subseteq skipped',
         file # NoFile, file' = NoFile,
         \/ excused'
         \/ \A k \in 1..Len(content[file]) : content[file][k] \in Parsed' \cup skipped' \cup late'
  PROVE  Accounted'
<1>1. \A l : Done(l) => l \in Parsed' \cup skipped' \cup late'
  BY DEF Done, Parsed, Elements
<1>2. ~excused
  BY DEF WatcherInv, Placed, Types, TailType
<1>3. ASSUME NEW f \in opened, NEW k \in 1..Len(content[f])
      PROVE  \/ content[f][k] \in Parsed' \cup skipped' \cup late'
             \/ excused' /\ \A i \in 1..Len(parsed) : parsed[i] < content[f][k]
  <2>1. CASE f # file
    BY <1>1, <1>2, <1>3, <2>1 DEF WatcherInv, Accounted
  <2>2. CASE f = file
    <3>1. file \in Files /\ pos \in Nat /\ Len(content[file]) \in Nat
      BY FileIsAFile, FileLines DEF WatcherInv, Types, TailType
    <3>2. k <= pos \/ pos < k
      BY <2>2, <3>1
    <3> QED
      BY <1>1, <2>2, <3>2, Leaving DEF Done
  <2> QED
    BY <2>1, <2>2
<1> QED
  BY <1>3 DEF Accounted, Done

\* What stays accounted for while the watcher stays where it is.
LEMMA AccountedStays ==
  ASSUME WatcherInv, UNCHANGED <<content, file, pos, opened, parsed>>,
         skipped \subseteq skipped', late \subseteq late', excused => excused'
  PROVE  Accounted'
<1>1. \A l : Done(l) => l \in Parsed' \cup skipped' \cup late'
  BY DEF Done, Parsed, Elements
<1> QED
  BY <1>1 DEF WatcherInv, Accounted, Done

LEMMA AccountedAtLineEnd ==
  ASSUME WatcherInv, EndLine
  PROVE  Accounted'
<1>0. /\ Types /\ DiskType /\ TailType /\ lines \in Nat /\ created \in Nat \ {0}
      /\ opened \subseteq Files /\ \A g \in opened : g <= created
      /\ \A i \in 1..Len(parsed) : parsed[i] \in 1..lines
  <2>1. Types /\ DiskType /\ OutputType /\ TailType /\ Written /\ InOrder
    BY DEF WatcherInv, Types
  <2>2. opened \subseteq Files /\ \A g \in opened : g <= created
    BY <2>1, WatcherBounds DEF DiskType, OutputType, Files
  <2>3. lines \in Nat /\ created \in Nat \ {0}
    BY <2>1, WatcherBounds DEF DiskType, Files
  <2>4. \A i \in 1..Len(parsed) : parsed[i] \in 1..lines
    BY <2>1, <2>2, LinesOfFile DEF InOrder
  <2> QED
    BY <2>1, <2>2, <2>3, <2>4
<1>1. /\ UNCHANGED <<file, pos, opened, parsed, skipped, excused, path>>
      /\ late' = IF writer = path THEN late ELSE late \cup {lines + 1}
  BY DEF EndLine, Untouched, cursor, output, history
<1>2. \A l : Done(l) => l \in Parsed' \cup skipped' \cup late'
  BY <1>1 DEF Done, Parsed, Elements
<1>3. ASSUME file # NoFile, NEW k \in 1..pos
      PROVE  content'[file][k] \in Parsed' \cup skipped' \cup late'
  <2>1. file \in Files /\ pos \in Nat /\ pos <= Len(content[file])
    BY <1>0, <1>3, FileIsAFile DEF TailType
  <2>2. k \in 1..Len(content[file]) /\ content'[file][k] = content[file][k]
    BY <1>0, <1>3, <2>1, LinesStay
  <2> QED
    BY <1>2, <1>3, <2>2 DEF WatcherInv, Accounted
<1>4. ASSUME NEW f \in opened \ {file}, NEW k \in 1..Len(content'[f])
      PROVE  \/ content'[f][k] \in Parsed' \cup skipped' \cup late'
             \/ excused' /\ \A i \in 1..Len(parsed') : parsed'[i] < content'[f][k]
  <2>1. CASE k \in 1..Len(content[f])
    <3>1. content'[f][k] = content[f][k]
      BY <1>0, <1>4, <2>1, LinesStay
    <3> QED
      BY <1>1, <1>2, <1>4, <2>1, <3>1 DEF WatcherInv, Accounted
  <2>2. CASE f = writer /\ content'[f][k] = lines + 1
    <3>1. CASE writer # path
      BY <1>1, <2>2, <3>1
    <3>2. CASE f = path
      <4>1. path = created /\ path # NoFile
        BY <1>0, <1>4, <3>2 DEF DiskType, NoFile, Files
      <4>2. file = NoFile
        BY <1>0, <1>4, <3>2, <4>1 DEF WatcherInv, Placed, TailType, NoFile
      <4>3. excused
        BY <1>0, <1>4, <3>2, <4>1, <4>2 DEF WatcherInv, Placed, TailType
      <4>4. \A i \in 1..Len(parsed) : parsed[i] < lines + 1
        BY <1>0
      <4> QED
        BY <1>1, <2>2, <4>3, <4>4
    <3> QED
      BY <2>2, <3>1, <3>2
  <2> QED
    BY <1>0, <1>4, <2>1, <2>2, LinesStay
<1> QED
  BY <1>1, <1>3, <1>4 DEF Accounted, Done

LEMMA AccountedAtOpening ==
  ASSUME WatcherInv, Open
  PROVE  Accounted'
<1>0. /\ Types /\ Written /\ path \in Files /\ file = NoFile
      /\ \A f \in Files : \A k \in 1..Len(content[f]) : content[f][k] \in 1..lines
      /\ opened \subseteq Files /\ NoFile \notin opened /\ pc = "opening"
  <2>1. Types /\ Written /\ DiskType /\ OutputType /\ TailType
    BY DEF WatcherInv, Types
  <2>2. opened \subseteq Files /\ NoFile \notin opened
    BY <2>1, WatcherBounds DEF DiskType, OutputType, Files, NoFile
  <2>3. path \in Files /\ file = NoFile /\ pc = "opening"
    BY <2>1, FileIsAFile DEF Open, TailType
  <2> QED
    BY <2>1, <2>2, <2>3, LinesOfFile
<1>1. /\ UNCHANGED <<content, parsed, late>> /\ file' = path /\ opened' = opened \cup {path}
      /\ skipped \subseteq skipped'
  BY DEF Open, disk, output
<1>2. \A l : Done(l) => l \in Parsed' \cup skipped' \cup late'
  BY <1>1 DEF Done, Parsed, Elements
<1>3. CASE resumeFromStart
  <2>1. ~excused /\ pos' = 0
    BY <1>0, <1>3 DEF Open, WatcherInv, Placed
  <2>2. \A f \in opened \ {path} : \A k \in 1..Len(content[f]) : Done(content[f][k])
    BY <1>0, <2>1 DEF WatcherInv, Accounted
  <2> QED
    BY <1>1, <1>2, <2>1, <2>2 DEF Accounted, Done
<1>4. CASE ~resumeFromStart
  <2>1. pos' = Len(content[path]) /\ skipped' = skipped \cup (1..lines \ Parsed)
    BY <1>0, <1>4 DEF Open, WatcherInv, Placed
  <2>2. \A l \in 1..lines : l \in Parsed' \cup skipped' \cup late'
    BY <1>1, <2>1 DEF Parsed, Elements
  <2>3. \A f \in opened \cup {path} : \A k \in 1..Len(content[f]) :
           content[f][k] \in Parsed' \cup skipped' \cup late'
    BY <1>0, <2>2
  <2> QED
    BY <1>1, <2>1, <2>3 DEF Accounted, Done
<1> QED
  BY <1>3, <1>4

LEMMA AccountedAtReading ==
  ASSUME WatcherInv, ReadLine
  PROVE  Accounted'
<1>0. /\ Types /\ file # NoFile /\ pos \in Nat /\ parsed \in Seq(1..MaxLines)
      /\ file \in Files /\ content[file][pos + 1] \in 1..MaxLines
  BY FileIsAFile, FileLines
     DEF ReadLine, Draining, WatcherInv, Types, TailType, OutputType
<1>1. /\ UNCHANGED <<content, file, late, opened, skipped, excused>> /\ pos' = pos + 1
      /\ parsed' = Append(parsed, content[file][pos + 1])
  BY DEF ReadLine, disk, history
<1>2. /\ Len(parsed) \in Nat /\ Len(parsed') = Len(parsed) + 1
      /\ parsed'[Len(parsed) + 1] = content[file][pos + 1]
      /\ \A i \in 1..Len(parsed) : parsed'[i] = parsed[i]
  BY <1>0, <1>1, AppendProperties, LenProperties
<1>3. \A i \in 1..Len(parsed) : i \in 1..Len(parsed') /\ parsed'[i] = parsed[i]
  BY <1>2
<1>4. Parsed \subseteq Parsed'
  BY <1>3 DEF Parsed, Elements
<1>5. content[file][pos + 1] \in Parsed'
  <2>1. Len(parsed) + 1 \in 1..Len(parsed')
    BY <1>2
  <2> QED
    BY <1>2, <2>1 DEF Parsed, Elements
<1>6. \A l : Done(l) => l \in Parsed' \cup skipped' \cup late'
  BY <1>1, <1>4 DEF Done
<1>7. \A k \in 1..pos' : content[file][k] \in Parsed' \cup skipped' \cup late'
  <2>1. \A k \in 1..pos' : k \in 1..pos \/ k = pos + 1
    BY <1>0, <1>1
  <2> QED
    BY <1>0, <1>5, <1>6, <2>1 DEF WatcherInv, Accounted
<1>8. ~excused
  BY DEF WatcherInv, Placed, ReadLine, Draining
<1> QED
  BY <1>1, <1>6, <1>7, <1>8 DEF WatcherInv, Accounted, Done

LEMMA AccountedStep ==
  ASSUME WatcherInv, [Next]_vars
  PROVE  Accounted'
<1>0. /\ pc = "opening" <=> file = NoFile
      /\ Types /\ TailType
  BY DEF WatcherInv, Types, TailType
<1>1. CASE Serve /\ ~EndLine
  <2>1. UNCHANGED <<content, file, pos, opened, parsed, skipped, late, excused>>
    BY <1>1 DEF Serve, BeginLine, Rename, Create, Replace, Reopen, Untouched, cursor,
                output, history
  <2> QED
    BY <2>1, AccountedStays
<1>2. CASE EndLine \/ Open \/ ReadLine
  BY <1>2, AccountedAtLineEnd, AccountedAtOpening, AccountedAtReading
<1>3. CASE AddFails \/ EventsClosed
  <2>1. /\ file # NoFile /\ file' = NoFile /\ excused'
        /\ UNCHANGED <<content, parsed, late, opened, skipped>>
    BY <1>0, <1>3 DEF AddFails, EventsClosed, Return, disk, output
  <2> QED
    BY <2>1, AccountedOnLeaving
<1>4. CASE Restart
  <2>1. file' = NoFile /\ excused' /\ UNCHANGED <<content, parsed, late, opened, skipped>>
    BY <1>4 DEF Restart, Return, disk, output
  <2>2. CASE file # NoFile
    BY <2>1, <2>2, AccountedOnLeaving
  <2>3. CASE file = NoFile
    <3>1. Parsed' = Parsed
      BY <2>1 DEF Parsed
    <3> QED
      BY <2>1, <2>3, <3>1 DEF WatcherInv, Accounted, Done
  <2> QED
    BY <2>2, <2>3
<1>5. CASE EndOfFile \/ ReadFails
  <2>1. /\ UNCHANGED <<content, parsed, late, opened, excused>> /\ skipped \subseteq skipped'
        /\ DrainEnds /\ file # NoFile
    BY <1>0, <1>5 DEF EndOfFile, ReadFails, disk, output, Draining
  <2>2. CASE pc = "draining"
    BY <2>1, <2>2, AccountedStays DEF DrainEnds
  <2>3. CASE pc = "finishing"
    <3>1. EndOfFile => \A k \in 1..Len(content[file]) : k <= pos
      <4>1. file \in Files
        BY <1>0, <2>1, FileIsAFile DEF Types
      <4> QED
        BY <4>1, <1>0, FileLines DEF EndOfFile, Types
    <3>2. ReadFails => Unread \subseteq skipped'
      BY <2>3 DEF ReadFails
    <3>3. \A k \in 1..Len(content[file]) : content[file][k] \in Parsed' \cup skipped' \cup late'
      <4>1. \A l : Done(l) => l \in Parsed' \cup skipped' \cup late'
        BY <2>1 DEF Done, Parsed, Elements
      <4> QED
        BY <1>5, <2>1, <3>1, <3>2, <4>1, Leaving
    <3>4. file' = NoFile
      BY <2>1, <2>3 DEF DrainEnds, Return
    <3> QED
      BY <2>1, <3>3, <3>4, AccountedOnLeaving
  <2> QED
    BY <1>5, <2>2, <2>3 DEF EndOfFile, ReadFails, Draining
<1>6. CASE Select
  <2>1. /\ UNCHANGED <<content, parsed, late, opened, excused>> /\ pc = "selecting"
        /\ queue # <<>> /\ file # NoFile
    BY <1>0, <1>6 DEF Select, disk, output
  <2>2. CASE UNCHANGED <<file, pos, skipped>>
    BY <2>1, <2>2, AccountedStays
  <2>3. CASE /\ Head(queue) = "created" /\ Return
             /\ skipped' = skipped \cup (IF stalled THEN Unread ELSE Unread \cap late)
    <3>1. ASSUME NEW k \in 1..Len(content[file])
          PROVE  content[file][k] \in Parsed' \cup skipped' \cup late'
      <4>1. \A l : Done(l) => l \in Parsed' \cup skipped' \cup late'
        BY <2>1, <2>3 DEF Done, Parsed, Elements
      <4>2. file \in Files /\ pos \in Nat /\ Len(content[file]) \in Nat
        BY <1>0, <2>1, FileIsAFile, FileLines DEF Types, TailType
      <4>3. CASE stalled
        BY <2>3, <4>1, <4>3, Leaving, <2>1
      <4>4. CASE ~stalled /\ pos < k
        <5>1. content[file][k] \in late
          BY <2>1, <2>3, <4>2, <4>4 DEF WatcherInv, Announced
        <5> QED
          BY <2>1, <5>1
      <4>5. CASE k <= pos
        BY <2>1, <4>1, <4>5, Leaving
      <4> QED
        BY <4>2, <4>3, <4>4, <4>5
    <3> QED
      BY <2>1, <2>3, <3>1, AccountedOnLeaving DEF Return
  <2> QED
    BY <1>6, <2>2, <2>3 DEF Select, cursor
<1>7. CASE Add \/ UNCHANGED vars
  <2>1. UNCHANGED <<content, file, pos, opened, parsed, skipped, late, excused>>
    BY <1>7 DEF Add, vars, disk, cursor, output, history
  <2> QED
    BY <2>1, AccountedStays
<1> QED
  BY <1>1, <1>2, <1>3, <1>4, <1>5, <1>6, <1>7 DEF Next, Follow, Serve

-----------------------------------------------------------------------------
(* The theorems.                                                           *)

LEMMA WatcherInvariant == Spec => []WatcherInv
<1>1. ASSUME WatcherInv, [Next]_vars PROVE WatcherInv'
  <2>1. Types'
    BY <1>1, TypesStep DEF WatcherInv
  <2>2. Written' /\ Placed'
    BY <1>1, <2>1, WrittenStep, PlacedStep DEF WatcherInv
  <2>3. InOrder' /\ MidLine' /\ Announced' /\ Accounted'
    BY <1>1, <2>1, InOrderStep, MidLineStep, AnnouncedStep, AccountedStep
  <2> QED
    BY <2>1, <2>2, <2>3 DEF WatcherInv
<1> QED
  BY <1>1, InitWatcher, PTL DEF Spec

\* Every variable of the watcher keeps its type: the cursor stays within the
\* open file, and only a watcher that listens has events waiting.
THEOREM WatcherTypeCorrect == Spec => []WatcherTypeOK
  BY WatcherInvariant, TypesSuffice, PTL DEF WatcherInv

\* No line reaches the parser twice or after a later one (watcher.go:91).
THEOREM LinesStayInOrder == Spec => []InOrderOnce
<1>1. WatcherInv => InOrderOnce
  BY DEF WatcherInv, InOrder
<1> QED
  BY <1>1, WatcherInvariant, PTL

\* Only lines that a seek to the end or a failed read has cut reach the parser
\* torn, however their two halves fall between the reads (watcher.go:157).
THEOREM LinesStayWhole == Spec => []LinesAreWhole
<1>1. WatcherInv => LinesAreWhole
  BY DEF WatcherInv, MidLine, LinesAreWhole
<1> QED
  BY <1>1, WatcherInvariant, PTL

\* The watcher never sleeps over a line it has not read (watcher.go:117).
THEOREM WakeUpsAreKept == Spec => []NoLostWakeUp
<1>1. WatcherInv => NoLostWakeUp
  BY DEF WatcherInv, Announced, NoLostWakeUp
<1> QED
  BY <1>1, WatcherInvariant, PTL

\* With a line all earlier ones have been read, but for the named exceptions
\* (watcher.go:38).
THEOREM NothingStaysBehind == Spec => []NothingIsSkipped
<1>1. ASSUME WatcherInv PROVE NothingIsSkipped
  <2> SUFFICES ASSUME NEW i \in 1..Len(parsed), NEW l \in 1..parsed[i],
                      \A f \in Files \ opened : l \notin Elements(content[f]),
                      ~Done(l)
               PROVE  FALSE
    BY DEF NothingIsSkipped, Done
  <2>1. /\ Types /\ Written /\ lines \in Nat /\ OutputType
        /\ \A f \in Files : \A k \in 1..Len(content[f]) : content[f][k] \in 1..lines
    BY <1>1, LinesOfFile DEF WatcherInv, Types, DiskType
  <2>2. PICK g \in opened : \E k \in 1..Len(content[g]) : content[g][k] = parsed[i]
    BY <1>1 DEF WatcherInv, InOrder
  <2>3. parsed[i] \in 1..lines
    <3>1. g \in Files
      BY <2>1, WatcherBounds DEF Types, OutputType, DiskType, Files
    <3> QED
      BY <2>1, <2>2, <3>1
  <2>4. PICK f \in Files : \E k \in 1..Len(content[f]) : content[f][k] = l
    BY <2>1, <2>3 DEF Written
  <2>5. PICK k \in 1..Len(content[f]) : content[f][k] = l
    BY <2>4
  <2>6. f \in opened
    BY <2>5 DEF Elements
  <2>7. ~(parsed[i] < l)
    BY <2>1, <2>3
  <2>8. CASE f = file
    <3>1. file # NoFile /\ pos \in Nat /\ Len(content[file]) \in Nat
      BY <1>1, <2>8, FileLines, WatcherBounds DEF WatcherInv, Types, TailType, Files, NoFile
    <3>2. k <= pos \/ pos < k
      BY <2>8, <3>1
    <3> QED
      BY <1>1, <2>5, <2>7, <2>8, <3>1, <3>2, Leaving
  <2>9. CASE f # file
    BY <1>1, <2>5, <2>6, <2>7, <2>9 DEF WatcherInv, Accounted
  <2> QED
    BY <2>8, <2>9
<1> QED
  BY <1>1, WatcherInvariant, PTL
=============================================================================
