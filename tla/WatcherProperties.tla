-------------------------- MODULE WatcherProperties --------------------------
(***************************************************************************)
(* What following a log promises although the server goes on writing while *)
(* it is read, renamed and opened again.                                   *)
(***************************************************************************)
EXTENDS Watcher

\* No line reaches the parser twice or after a later one, whatever files are
\* opened again and from where (watcher.go:91).
InOrderOnce ==
    \A i, j \in 1..Len(parsed) : i < j => parsed[i] < parsed[j]

\* A line that is read while the server is still writing it reaches the parser
\* whole, later: only one that a seek to the end or a failed read has fallen
\* into is torn (watcher.go:157, "para evitar la pérdida de líneas parciales").
LinesAreWhole == torn \subseteq cut

\* With a line all earlier ones have been read, those of the renamed files
\* included, but for lines ended after their file was renamed, lines passed
\* over at the start or after an error, and files the watcher never saw
\* (watcher.go:38, "evita perder las líneas escritas entre la creación").
NothingIsSkipped ==
    \A i \in 1..Len(parsed) : \A l \in 1..parsed[i] :
        \/ l \in Parsed \cup skipped \cup late
        \/ \E f \in Files \ opened : l \in Elements(content[f])

\* The watcher never sleeps over a line: when it waits and inotify has nothing
\* for it, it has read all of its file, although lines go on coming between
\* the opening, fsw.Add, the read and the wait; only a failed read leaves some
\* for the next write (watcher.go:117).
NoLostWakeUp ==
    pc = "selecting" /\ queue = <<>> /\ ~stalled => pos = Len(content[file])

\* Every line of the file that is followed is read, also when the file is
\* renamed first, unless an error or a restart makes it start again at the end or
\* wait for a log, or leaves it for the next write (watcher.go:120).
Ahead(l) == Watching /\ l \in Elements(SubSeq(content[file], pos + 1, Len(content[file])))
LinesAreRead ==
    \A l \in 1..MaxLines :
        Ahead(l) ~> \/ l \in Parsed \cup skipped \/ stalled
                    \/ pc = "opening" /\ path = NoFile /\ excused
=============================================================================
