------------------------------- MODULE Watcher -------------------------------
(***************************************************************************)
(* A goroutine of internal/watcher follows a log that the mail server      *)
(* writes and logrotate renames.  It opens the file, asks inotify for the  *)
(* events of its directory, and reads what there is whenever it hears of a *)
(* write, until it hears that the file is gone.                            *)
(*                                                                         *)
(* Lines are numbered in the order in which the server ends them.  The     *)
(* server writes a line in two pieces.  The waits of Run (retryDelay) and  *)
(* of waitForNewFile are no steps of their own: anything may happen before *)
(* the next one.                                                           *)
(***************************************************************************)
EXTENDS Integers, Sequences

CONSTANTS
    Faults,     \* the kinds of faults that may happen
    MaxLines,   \* bound: lines in a behaviour
    MaxFiles,   \* bound: files that get the name of the log, one by one
    MaxFaults   \* bound: faults in a behaviour

ASSUME WatcherAssumption ==
    /\ Faults \subseteq {"inotify", "read", "crash"}
    /\ {MaxLines, MaxFaults} \subseteq Nat /\ MaxFiles \in Nat \ {0}

VARIABLES
    content,    \* file -> the lines ended in it
    lines,      \* lines ended so far
    partial,    \* the server is in the middle of the next one
    writer,     \* the file the server has open
    path,       \* the file that has the name of the log, or NoFile
    created,    \* files created so far
    pc,
    file,       \* the file the watcher has open,
    pos, mid,   \* the lines before its cursor, and whether it is inside one
    resumeFromStart,
    queue,      \* events inotify has ready
    parsed,     \* the lines handed to parseFn, in order,
    torn,       \* those of them without their beginning
    excused,    \* history: tail has not run since the start, or its last run ended in an error
    skipped,    \* history: lines a seek to the end passed over when excused,
                \* and those left behind by a failed read, or late in a file
                \* that another replaced
    cut,        \* history: lines a seek or a failed read left the cursor in
    late,       \* history: lines ended in a file that had lost its name
    stalled,    \* history: the last read has failed
    opened,     \* history: files the watcher has opened
    faults

disk == <<content, lines, partial, writer, path, created, late>>
cursor == <<pos, mid>>
output == <<parsed, torn>>
history == <<excused, stalled, skipped, cut, opened>>
vars == <<disk, pc, file, cursor, resumeFromStart, queue, output, history, faults>>

NoFile == 0
Files == 1..MaxFiles
Watching == pc \in {"draining", "selecting", "finishing"}
Elements(s) == {s[i] : i \in 1..Len(s)}
Parsed == Elements(parsed)

WatcherTypeOK ==
    /\ content \in [Files -> Seq(1..MaxLines)] /\ lines \in 0..MaxLines
    /\ partial \in BOOLEAN /\ created \in Files
    /\ writer \in 1..created /\ path \in {NoFile} \cup 1..created
    /\ pc \in {"opening", "watching", "draining", "selecting", "finishing"}
    /\ file \in 0..created /\ pos \in Nat /\ mid \in BOOLEAN
    /\ pc = "opening" <=> file = NoFile
    /\ queue # <<>> => Watching
    /\ file # NoFile => pos <= Len(content[file])
    /\ resumeFromStart \in BOOLEAN
    /\ queue \in Seq({"write", "gone", "created"})
    /\ parsed \in Seq(1..MaxLines) /\ torn \subseteq 1..MaxLines
    /\ {excused, stalled} \subseteq BOOLEAN
    /\ skipped \cup late \subseteq 1..lines /\ cut \subseteq 1..MaxLines /\ opened \subseteq 1..created
    /\ faults \in 0..MaxFaults

Init ==
    /\ content = [f \in Files |-> <<>>] /\ lines = 0 /\ partial = FALSE
    /\ writer = 1 /\ path = 1 /\ created = 1
    /\ pc = "opening" /\ file = NoFile /\ pos = 0 /\ mid = FALSE
    /\ resumeFromStart = FALSE /\ queue = <<>>
    /\ parsed = <<>> /\ torn = {}
    /\ excused = TRUE /\ stalled = FALSE /\ skipped = {} /\ cut = {}
    /\ late = {} /\ opened = {} /\ faults = 0

Fault(kind) ==
    /\ kind \in Faults
    /\ faults < MaxFaults
    /\ faults' = faults + 1

-----------------------------------------------------------------------------
(* The mail server and logrotate.                                          *)

\* inotify merges an event with an equal one that is last in its queue.
Notify(e) ==
    queue' = IF ~Watching \/ (queue # <<>> /\ queue[Len(queue)] = e)
             THEN queue ELSE Append(queue, e)

Untouched == UNCHANGED <<pc, file, cursor, resumeFromStart, output, history, faults>>

BeginLine ==
    /\ ~partial /\ lines < MaxLines
    /\ partial' = TRUE
    /\ Notify("write")
    /\ UNCHANGED <<content, lines, writer, path, created, late>> /\ Untouched

EndLine ==
    /\ partial
    /\ partial' = FALSE /\ lines' = lines + 1
    /\ content' = [content EXCEPT ![writer] = Append(@, lines + 1)]
    /\ late' = IF writer = path THEN late ELSE late \cup {lines + 1}
    /\ Notify("write")
    /\ UNCHANGED <<writer, path, created>> /\ Untouched

Rename ==
    /\ path # NoFile /\ created < MaxFiles
    /\ path' = NoFile
    /\ Notify("gone")
    /\ UNCHANGED <<content, lines, partial, writer, created, late>> /\ Untouched

Create ==
    /\ path = NoFile
    /\ path' = created + 1 /\ created' = created + 1
    /\ Notify("created")
    /\ UNCHANGED <<content, lines, partial, writer, late>> /\ Untouched

\* Another file is renamed over the log: its name is never missing.  It is
\* taken to be new and empty, as resumeFromStart takes it (watcher.go:36).
Replace ==
    /\ path # NoFile /\ created < MaxFiles
    /\ path' = created + 1 /\ created' = created + 1
    /\ Notify("created")
    /\ UNCHANGED <<content, lines, partial, writer, late>> /\ Untouched

\* The signal that logrotate sends the server: until then it goes on writing
\* to the renamed file.
Reopen ==
    /\ path # NoFile /\ writer # path /\ ~partial
    /\ writer' = path
    /\ UNCHANGED <<content, lines, partial, path, created, late, queue>> /\ Untouched

-----------------------------------------------------------------------------
(* tail and Run.                                                           *)

\* tail has returned: its inotify instance is closed, its cursor forgotten.
Return ==
    /\ pc' = "opening" /\ queue' = <<>>
    /\ file' = NoFile /\ pos' = 0 /\ mid' = FALSE

HalfLine(f) == partial /\ writer = f

\* Without resumeFromStart what has been written is skipped.
StayResuming == resumeFromStart  \* mutant: the flag is not reset
AfterOpen == FALSE
Open ==
    /\ pc = "opening" /\ path # NoFile
    /\ file' = path /\ opened' = opened \cup {path}
    /\ resumeFromStart' = AfterOpen
    /\ \/ /\ resumeFromStart
          /\ pos' = 0 /\ mid' = FALSE
          /\ UNCHANGED <<skipped, cut>>
       \/ /\ ~resumeFromStart
          /\ pos' = Len(content[path]) /\ mid' = HalfLine(path)
          /\ skipped' = IF excused THEN skipped \cup (1..lines \ Parsed) ELSE skipped
          /\ cut' = IF HalfLine(path) THEN cut \cup {lines + 1} ELSE cut
    /\ pc' = "watching" /\ excused' = FALSE
    /\ UNCHANGED <<stalled, disk, queue, output, faults>>

\* fsw.Add needs the name of the log: it fails in the middle of a rotation.
\* From here on the events are those of the name and of all files in the
\* directory, even if the open file is no longer the one of that name.  What
\* happens between the two calls shows in the drain that follows them.
WaitFirst == "selecting"  \* mutant: the file is not read before the wait
AfterAdd == "draining"
Add ==
    /\ pc = "watching" /\ path # NoFile
    /\ pc' = AfterAdd
    /\ UNCHANGED <<disk, file, cursor, resumeFromStart, queue, output, history, faults>>

AddFails ==
    /\ pc = "watching"
    /\ \/ path = NoFile /\ faults' = faults
       \/ Fault("inotify")
    /\ Return /\ excused' = TRUE
    /\ UNCHANGED <<disk, resumeFromStart, output, stalled, skipped, cut, opened>>

Draining == pc \in {"draining", "finishing"}

ReadLine ==
    /\ Draining /\ pos < Len(content[file])
    /\ parsed' = Append(parsed, content[file][pos + 1])
    /\ torn' = IF mid THEN torn \cup {content[file][pos + 1]} ELSE torn
    /\ pos' = pos + 1 /\ mid' = FALSE
    /\ UNCHANGED <<disk, pc, file, resumeFromStart, queue, history, faults>>

\* After the last drain tail waits for the new file and returns.
SkipNew == resumeFromStart  \* mutant: the new file is followed from its end
AfterRotation == TRUE
DrainEnds ==
    \/ /\ pc = "draining" /\ pc' = "selecting"
       /\ UNCHANGED <<file, pos, resumeFromStart, queue>>
    \/ /\ pc = "finishing" /\ Return /\ resumeFromStart' = AfterRotation

\* The cursor goes back to the end of the last whole line.
PastPartial == mid \/ HalfLine(file)  \* mutant: it stays behind the half line
Restored == mid

EndOfFile ==
    /\ Draining /\ pos = Len(content[file])
    /\ DrainEnds
    /\ pc = "draining" => mid' = Restored
    /\ stalled' = FALSE
    /\ UNCHANGED <<disk, output, excused, skipped, cut, opened, faults>>

Unread == Elements(content[file]) \ Parsed
NextLine == IF pos < Len(content[file]) THEN content[file][pos + 1] ELSE lines + 1

\* The cursor stays where the read stopped, which may be inside a line.
ReadFails ==
    /\ Draining /\ Fault("read")
    /\ stalled' = (pc = "draining")
    /\ skipped' = IF pc = "draining" THEN skipped ELSE skipped \cup Unread
    /\ DrainEnds
    /\ \/ /\ pc = "draining" /\ mid' = TRUE
          /\ pos < Len(content[file]) \/ HalfLine(file)
          /\ cut' = cut \cup {NextLine}
       \/ /\ pc = "draining" => mid' = mid
          /\ cut' = cut
    /\ UNCHANGED <<disk, output, excused, opened>>

\* The file that has lost its name is read to its end, once more.
IgnoreWrites == [write |-> "selecting", gone |-> "finishing"]  \* mutant
Reaction == [write |-> "draining", gone |-> "finishing"]

Select ==
    /\ pc = "selecting" /\ queue # <<>>
    /\ \/ /\ Head(queue) \in DOMAIN Reaction
          /\ pc' = Reaction[Head(queue)] /\ queue' = Tail(queue)
          /\ UNCHANGED <<file, cursor, resumeFromStart, skipped>>
       \/ /\ Head(queue) = "created" /\ Return
          /\ resumeFromStart' = TRUE
          /\ skipped' = skipped \cup (IF stalled THEN Unread ELSE Unread \cap late)
    /\ UNCHANGED <<disk, output, excused, stalled, cut, opened, faults>>

EventsClosed ==
    /\ pc = "selecting" /\ Fault("inotify")
    /\ Return /\ excused' = TRUE
    /\ UNCHANGED <<disk, resumeFromStart, output, stalled, skipped, cut, opened>>

\* The agent stops at any moment and is started again: its new watcher begins
\* at the end of the log.
Restart ==
    /\ Fault("crash")
    /\ Return /\ resumeFromStart' = FALSE /\ excused' = TRUE
    /\ UNCHANGED <<disk, output, stalled, skipped, cut, opened>>

Follow == Open \/ Add \/ AddFails \/ ReadLine \/ EndOfFile \/ Select
Next ==
    \/ BeginLine \/ EndLine \/ Rename \/ Create \/ Replace \/ Reopen
    \/ Follow \/ ReadFails \/ EventsClosed \/ Restart

Spec == Init /\ [][Next]_vars /\ WF_vars(Follow)
=============================================================================
