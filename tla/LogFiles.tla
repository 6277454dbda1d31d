------------------------------ MODULE LogFiles ------------------------------
(* The file side of the log-sync page: the preview of a time range, the two   *)
(* file lists with their filters (page.tsx), and the column picker of         *)
(* FilePreviewModal.tsx with the projection the worker serves for it.         *)
EXTENDS Integers, Sequences, FiniteSets, SequencesExt

CONSTANTS Files,    \* log files, by start time
          Columns,  \* the columns of a log, in its order
          MaxJobs,  \* bound on jobs
          Moves,    \* bound on what the user does
          Hasty,    \* is the range changed while its preview is being counted?
          None

FilesAssumption == Files \subseteq Nat /\ MaxJobs \in Nat /\ Moves \in Nat /\ Hasty \in BOOLEAN
ColumnsAssumption == Columns \in 2..4

VARIABLES jobs,     \* the page's jobs, oldest first: the files of each
          done,     \* [job, file] pairs the page has seen complete
          range,    \* the From/To fields
          preview,  \* the range the count shown was made for, or None
          asked,    \* the range of the preview under way, or None
          filter,   \* [starred, quality]
          picker,   \* the column picker: [file, search, ticked], or None
          moves

list == <<jobs, done>>
form == <<range, preview, asked>>
vars == <<list, form, filter, picker, moves>>

Ranges == 1..2
Qualities == {"good", "bad"}
\* The notes on the files: the even ones are starred, the first is good.
Starred == {f \in Files : f % 2 = 0}
Good == {f \in Files : f = 1}
NoFilter == [starred |-> FALSE, quality |-> {}]

Init == /\ jobs = <<>> /\ done = {} /\ range = 1 /\ preview = None /\ asked = None
        /\ filter = NoFilter /\ picker = None /\ moves = 0

User == moves < Moves /\ moves' = moves + 1

-----------------------------------------------------------------------------
(* The range form.                                                            *)

SetRange(r) == /\ User /\ r # range /\ (Hasty \/ asked = None) /\ range' = r /\ preview' = None
               /\ UNCHANGED <<list, asked, filter, picker>>
DoPreview == /\ User /\ asked = None /\ asked' = range
             /\ UNCHANGED <<list, range, preview, filter, picker>>
PreviewAnswered(ok) == /\ asked # None /\ asked' = None /\ preview' = IF ok THEN asked ELSE None
                       /\ UNCHANGED <<list, range, filter, picker, moves>>

-----------------------------------------------------------------------------
(* Jobs and their files.                                                      *)

JobStarts(files) == /\ Len(jobs) < MaxJobs /\ jobs' = Append(jobs, files)
                    /\ UNCHANGED <<done, form, filter, picker, moves>>
FileDone(j, f) == /\ f \in jobs[j] /\ <<j, f>> \notin done /\ done' = done \cup {<<j, f>>}
                  /\ UNCHANGED <<jobs, form, filter, picker, moves>>

\* matchFile. With no chip on, every file passes.
MatchFile(f) ==
  /\ filter.starred => f \in Starred
  /\ filter.quality = {} \/ \E q \in filter.quality : f \in (IF q = "good" THEN Good ELSE {})

FilesOf(j) == {f \in jobs[j] : MatchFile(f)}

\* allFiles: newest job first, one that has the file complete before others.
ListedJob(f) ==
  LET having == {j \in DOMAIN jobs : f \in jobs[j]}
      complete == {j \in having : <<j, f>> \in done}
      best == IF complete = {} THEN having ELSE complete
  IN CHOOSE j \in best : \A i \in best : i <= j
VisibleAllFiles == {f \in UNION {jobs[j] : j \in DOMAIN jobs} : MatchFile(f)}

ToggleStarred == /\ User /\ jobs # <<>> /\ filter' = [filter EXCEPT !.starred = ~@] /\ UNCHANGED <<list, form, picker>>
ToggleQuality(q) ==
  /\ User /\ jobs # <<>>
  /\ filter' = [filter EXCEPT !.quality = IF q \in @ THEN @ \ {q} ELSE @ \cup {q}]
  /\ UNCHANGED <<list, form, picker>>
ClearFilters == /\ User /\ filter # NoFilter /\ filter' = NoFilter /\ UNCHANGED <<list, form, picker>>

-----------------------------------------------------------------------------
(* The column picker. A Set keeps the order in which columns were ticked.     *)

DefaultCols == <<1>>

\* The preview is offered where the list's copy of the file is complete.
OpenPreview(f) ==
  /\ User /\ picker = None /\ f \in VisibleAllFiles /\ <<ListedJob(f), f>> \in done
  /\ picker' = [file |-> f, search |-> 0, ticked |-> DefaultCols]
  /\ UNCHANGED <<list, form, filter>>
ClosePreview == /\ User /\ picker # None /\ picker' = None /\ UNCHANGED <<list, form, filter>>

InOrder == [c \in 1..Columns |-> c]
Groups == {{c \in 1..Columns : c % 2 = 1}, {c \in 1..Columns : c % 2 = 0}}

Without(s, cols) == SelectSeq(s, LAMBDA c : c \notin cols)
\* A search shows the columns from there on.
VisibleCols == {c \in 1..Columns : c > picker.search}
Ticked == ToSet(picker.ticked)

Search(n) == /\ User /\ picker # None /\ picker' = [picker EXCEPT !.search = n] /\ UNCHANGED <<list, form, filter>>
Toggle(c) ==
  /\ User /\ picker # None /\ c \in VisibleCols
  /\ picker' = [picker EXCEPT !.ticked = IF c \in Ticked THEN Without(@, {c}) ELSE Append(@, c)]
  /\ UNCHANGED <<list, form, filter>>

\* setMany: "select shown" or "clear shown", or "all" or "none" of a group.
SetMany(cols) ==
  /\ User /\ picker # None /\ cols # {}
  /\ picker' = [picker EXCEPT !.ticked =
       IF cols \subseteq Ticked THEN Without(@, cols) ELSE @ \o SelectSeq(InOrder, LAMBDA c : c \in cols /\ c \notin Ticked)]
  /\ UNCHANGED <<list, form, filter>>

OrderedSelected == SelectSeq(InOrder, LAMBDA c : c \in Ticked)

\* download_file: the columns asked for, in that order; with none, the file.
Downloaded == IF OrderedSelected = <<>> THEN InOrder ELSE OrderedSelected

Next == \/ \E r \in Ranges : SetRange(r)
        \/ DoPreview \/ \E ok \in BOOLEAN : PreviewAnswered(ok)
        \/ \E files \in SUBSET Files \ {{}} : JobStarts(files)
        \/ \E j \in DOMAIN jobs, f \in Files : FileDone(j, f)
        \/ ToggleStarred \/ ClearFilters \/ \E q \in Qualities : ToggleQuality(q)
        \/ \E f \in Files : OpenPreview(f)
        \/ ClosePreview \/ \E n \in 0..Columns : Search(n)
        \/ \E c \in 1..Columns : Toggle(c)
        \/ (picker # None /\ \E g \in Groups \cup {1..Columns} : SetMany(g \cap VisibleCols))

Spec == Init /\ [][Next]_vars

-----------------------------------------------------------------------------
\* The count shown beside the form is that of the range in it.
PreviewOfRange == preview # None => preview = range

\* A file some job has complete can be previewed from the flat list.
DoneListed == \A f \in VisibleAllFiles : (\E j \in DOMAIN jobs : <<j, f>> \in done) => <<ListedJob(f), f>> \in done

\* Ticking or clearing all that is shown leaves alone what the search hides.
HiddenKept ==
    (picker # None /\ picker' # None /\ \E g \in Groups \cup {1..Columns} : SetMany(g \cap VisibleCols))
       => Ticked' \ VisibleCols = Ticked \ VisibleCols

\* Whatever the order of the ticks, columns come in the order of the file.
FileOrder == picker # None => \A i, k \in DOMAIN Downloaded : i < k => Downloaded[i] < Downloaded[k]
=============================================================================
