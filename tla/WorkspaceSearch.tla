-------------------------- MODULE WorkspaceSearch --------------------------
(* Quick Open and workspace search: the overlay the model owns, the worker  *)
(* thread that runs one search at a time and debounces text queries, the    *)
(* stream of results back to the loop, and the preview of the selection,    *)
(* which the filesystem worker reads. A file is its rank in path order, its *)
(* text one line of letters; a match is the file and the column.            *)
EXTENDS Integers, Sequences, SequencesExt, FiniteSetsExt, TLC

CONSTANTS
  SearchLetters,  \* what a query is typed from
  FileNames,      \* the workspace: the name of each file, a sequence of letters
  DiskTexts,      \* the text of each file on disk
  OpenTabs,       \* the files open in tabs, in tab order
  LiveTexts,      \* the text of each open tab, which may be ahead of the disk
  ResultLimit,    \* 1000 text matches, 20000 files in the code
  VisibleLimit,   \* 200 in the code
  BatchSize,      \* 64 in the code
  MaxQuery,       \* bound: letters in a query
  MaxSearchKeys   \* bound: keys pressed

VARIABLES
  search,       \* the overlay, or NoSearch
  covered,      \* an answer of a language server opened an overlay over it
  missed,       \* history: an answer to the current request came while it was covered
  asked,        \* next_search_request_id
  previewed,    \* next_preview_request_id
  pressed,      \* keys pressed, for the bound
  tokens,       \* requests whose cancellation token is set
  activeToken,  \* the request whose token the worker handle holds, 0 for none
  searchQueue,  \* requests the worker has not taken
  job,          \* the request the worker is busy with, or NoJob
  results,      \* events under way to the loop
  previews      \* preview reads under way, served in order

overlayVars == <<search, covered, missed>>
searchWorkerVars == <<tokens, activeToken, searchQueue, job>>
searchVars == <<overlayVars, asked, previewed, pressed, searchWorkerVars, results, previews>>

Files == 1..Len(FileNames)
NoPreview == [req |-> 0, path |-> 0, shown |-> FALSE]
NoSearch == [mode |-> "none"]
SearchOverlay(mode, id) ==
  [mode |-> mode, query |-> <<>>, request |-> id, matches |-> <<>>, selected |-> 0,
   status |-> "waiting", truncated |-> FALSE, excluded |-> {}, preview |-> NoPreview]
NoJob == [phase |-> "idle", id |-> 0]
SearchEvent(kind, id) == [kind |-> kind, id |-> id, matches |-> <<>>, truncated |-> FALSE]

----------------------------------------------------------------------------
(* Matching.                                                                *)

\* Leftmost, non-overlapping occurrences: the columns found from `from` on.
LiteralColumns(text, query) ==
  LET hit(c) == c + Len(query) - 1 <= Len(text) /\ SubSeq(text, c, c + Len(query) - 1) = query
      from[c \in Nat] ==
        IF c + Len(query) - 1 > Len(text) THEN <<>>
        ELSE IF hit(c) THEN <<c>> \o from[c + Len(query)] ELSE from[c + 1]
  IN IF query = <<>> THEN <<>> ELSE from[1]
LiteralMatches(file, text, query) ==
  [i \in DOMAIN LiteralColumns(text, query) |-> <<file, LiteralColumns(text, query)[i]>>]

\* Where a query is a subsequence of a name, taken greedily; <<>> when it is not.
SubsequencePositions(name, query) ==
  LET step(acc, i) == IF Len(acc) < Len(query) /\ name[i] = query[Len(acc) + 1]
                      THEN Append(acc, i) ELSE acc
      found == FoldLeft(step, <<>>, [i \in 1..Len(name) |-> i])
  IN IF Len(found) = Len(query) THEN found ELSE <<>>
Gaps(positions) == positions[Len(positions)] - positions[1] - (Len(positions) - 1)
Before(a, b) == a[1] < b[1] \/ (a[1] = b[1] /\ a[2] < b[2])
BetterFile(query, a, b) ==
  LET pa == SubsequencePositions(FileNames[a], query)
      pb == SubsequencePositions(FileNames[b], query)
      ka == <<Gaps(pa), pa[1], Len(FileNames[a]), a>>
      kb == <<Gaps(pb), pb[1], Len(FileNames[b]), b>>
  IN \E i \in 1..4 : ka[i] < kb[i] /\ \A j \in 1..(i - 1) : ka[j] = kb[j]
RankFiles(found, query) ==
  IF query = <<>> THEN SortSeq(found, Before)
  ELSE SortSeq(SelectSeq(found, LAMBDA m : SubsequencePositions(FileNames[m[1]], query) # <<>>),
               LAMBDA a, b : BetterFile(query, a[1], b[1]))

----------------------------------------------------------------------------
(* The overlay.                                                             *)

Take(s, n) == SubSeq(s, 1, Min({n, Len(s)}))
Less(a, b) == IF a > b THEN a - b ELSE 0
Visible(o) ==
  Take(IF o.mode = "text" THEN o.matches ELSE RankFiles(o.matches, o.query), VisibleLimit)
Refilter(o) ==
  [o EXCEPT !.matches = IF o.mode = "text" THEN SortSeq(@, Before) ELSE @,
            !.selected = Min({@, Less(Len(Visible(o)), 1)})]
ReplaceResults(o, found) ==
  Refilter([o EXCEPT !.matches = Take(found, ResultLimit), !.preview = NoPreview])
\* Mutant: the disk answers for the open tabs too.
AppendEverything(o, found) ==
  Refilter([o EXCEPT !.matches = @ \o Take(found, Less(ResultLimit, Len(@)))])
AppendResults(o, found) ==
  LET fresh == SelectSeq(found, LAMBDA m : m[1] \notin o.excluded)
  IN Refilter([o EXCEPT !.matches = @ \o Take(fresh, Less(ResultLimit, Len(@)))])
HasSelection(o) == Visible(o) # <<>>
Selected(o) == Visible(o)[o.selected + 1]

\* Preview the selected match: at once from an open tab, else by a read.
RequestSelectedPreview(o) ==
  \E path \in {IF o.mode = "text" /\ HasSelection(o) THEN Selected(o)[1] ELSE o.preview.path} :
    IF path = o.preview.path
    THEN search' = o /\ UNCHANGED <<previewed, previews>>
    ELSE IF path \in Range(OpenTabs)
    THEN /\ search' = [o EXCEPT !.preview = [req |-> 0, path |-> path, shown |-> TRUE]]
         /\ UNCHANGED <<previewed, previews>>
    ELSE /\ previewed' = previewed + 1
         /\ search' = [o EXCEPT !.preview = [req |-> previewed', path |-> path, shown |-> FALSE]]
         /\ previews' = Append(previews, [req |-> previewed', path |-> path])

----------------------------------------------------------------------------
(* The handle of the worker, called by the loop after each message.         *)

WorkerRequest(id, mode, query) ==
  /\ tokens' = tokens \union ({activeToken} \ {0})
  /\ activeToken' = id
  /\ searchQueue' = Append(searchQueue, [id |-> id, mode |-> mode, query |-> query])
CancelSearch ==
  /\ tokens' = tokens \union ({activeToken} \ {0})
  /\ UNCHANGED <<activeToken, searchQueue>>

----------------------------------------------------------------------------
(* Keys.                                                                    *)

AtSearch == search # NoSearch /\ ~covered
Press == pressed < MaxSearchKeys /\ pressed' = pressed + 1

OpenQuickOpen ==
  /\ search = NoSearch /\ ~covered /\ Press
  /\ asked' = asked + 1
  /\ search' = SearchOverlay("files", asked')
  /\ missed' = FALSE
  /\ WorkerRequest(asked', "files", <<>>)
  /\ UNCHANGED <<covered, previewed, job, results, previews>>

OpenWorkspaceSearch ==
  /\ search = NoSearch /\ ~covered /\ Press
  /\ asked' = asked + 1
  /\ search' = SearchOverlay("text", asked')
  /\ missed' = FALSE
  /\ UNCHANGED <<covered, previewed, searchWorkerVars, results, previews>>

LiveMatches(query) ==
  FlattenSeq([i \in DOMAIN OpenTabs |->
                LiteralMatches(OpenTabs[i], LiveTexts[i], query)])

\* A text query is a new request: the open tabs answer at once, the worker
\* is asked for the rest; an empty query only cancels.
SearchQueryChanged(query) ==
  LET live == IF query = <<>> THEN {} ELSE Range(OpenTabs)
      fresh == ReplaceResults([search EXCEPT !.query = query, !.request = asked',
                                             !.status = "waiting", !.truncated = FALSE,
                                             !.excluded = live],
                              LiveMatches(query))
  IN /\ asked' = asked + 1
     /\ missed' = FALSE
     /\ IF query = <<>>
        THEN /\ CancelSearch
             /\ search' = fresh
             /\ UNCHANGED <<previewed, previews>>
        ELSE /\ WorkerRequest(asked', "text", query)
             /\ RequestSelectedPreview(fresh)
     /\ UNCHANGED <<covered, job, results>>

EditQuery(query) ==
  /\ AtSearch /\ Press
  /\ IF search.mode = "text" THEN SearchQueryChanged(query)
     ELSE /\ search' = Refilter([search EXCEPT !.query = query])
          /\ UNCHANGED <<covered, missed, asked, previewed, searchWorkerVars, results, previews>>
TypeQuery(c) == Len(search.query) < MaxQuery /\ EditQuery(Append(search.query, c))
PopQuery == AtSearch /\ EditQuery(IF search.query = <<>> THEN <<>> ELSE Front(search.query))

MoveSelection(by) ==
  /\ AtSearch /\ Press
  /\ LET n == Len(Visible(search))
     IN RequestSelectedPreview(IF n = 0 THEN search
                               ELSE [search EXCEPT !.selected = (@ + n + by) % n])
  /\ UNCHANGED <<covered, missed, asked, searchWorkerVars, results>>

\* Esc, or Enter on a selection, which also opens the file.
CloseSearch ==
  /\ AtSearch /\ Press
  /\ search' = NoSearch
  /\ CancelSearch
  /\ UNCHANGED <<covered, missed, asked, previewed, job, results, previews>>

Cover == search # NoSearch /\ ~covered /\ Press /\ covered' = TRUE
         /\ UNCHANGED <<search, missed, asked, previewed, searchWorkerVars, results, previews>>
Uncover == covered /\ covered' = FALSE
           /\ UNCHANGED <<search, missed, asked, previewed, pressed, searchWorkerVars, results,
                          previews>>

----------------------------------------------------------------------------
(* The worker thread.                                                       *)

Taken(r) ==
  [id |-> r.id, mode |-> r.mode, query |-> r.query, left |-> <<>>, count |-> 0,
   phase |-> IF r.mode = "text" THEN "debouncing" ELSE "ready"]
Dequeue ==
  /\ job = NoJob /\ searchQueue # <<>>
  /\ job' = Taken(Head(searchQueue))
  /\ searchQueue' = Tail(searchQueue)
  /\ UNCHANGED <<overlayVars, asked, previewed, pressed, tokens, activeToken, results, previews>>

\* A request that comes within the debounce replaces the one that waits.
DebounceReplaced ==
  /\ job.phase = "debouncing" /\ searchQueue # <<>>
  /\ results' = Append(results, SearchEvent("cancelled", job.id))
  /\ job' = Taken(Head(searchQueue))
  /\ searchQueue' = Tail(searchQueue)
  /\ UNCHANGED <<overlayVars, asked, previewed, pressed, tokens, activeToken, previews>>

DebounceOver ==
  /\ job.phase = "debouncing" /\ searchQueue = <<>>
  /\ job' = [job EXCEPT !.phase = "ready"]
  /\ UNCHANGED <<overlayVars, asked, previewed, pressed, tokens, activeToken, searchQueue,
                 results, previews>>

JobDone == job' = NoJob /\ activeToken' = IF activeToken = job.id THEN 0 ELSE activeToken
IsCancelled == job.id \in tokens

\* The files below the root, or the matches on disk, in the order of the walk.
ServiceResults ==
  IF job.mode = "files" THEN [f \in Files |-> <<f, 0>>]
  ELSE FlattenSeq([f \in Files |-> LiteralMatches(f, DiskTexts[f], job.query)])

StartRun ==
  /\ job.phase = "ready"
  /\ IF IsCancelled
     THEN JobDone /\ results' = Append(results, SearchEvent("cancelled", job.id))
     ELSE /\ job' = [job EXCEPT !.phase = "running", !.left = ServiceResults]
          /\ results' = Append(results, SearchEvent("started", job.id))
          /\ UNCHANGED activeToken
  /\ UNCHANGED <<overlayVars, asked, previewed, pressed, tokens, searchQueue, previews>>

\* A batch goes out when it is full, or when the stream stops.
EmitBatch ==
  /\ job.phase = "running" /\ job.left # <<>> /\ job.count < ResultLimit
  /\ LET n == Min({BatchSize, Len(job.left), ResultLimit - job.count})
     IN /\ results' = Append(results, [SearchEvent("batch", job.id) EXCEPT
                                         !.matches = Take(job.left, n)])
        /\ job' = [job EXCEPT !.left = SubSeq(@, n + 1, Len(@)), !.count = @ + n]
  /\ UNCHANGED <<overlayVars, asked, previewed, pressed, tokens, activeToken, searchQueue,
                 previews>>

\* The end of a run: cancelled, failed (ripgrep or the pipe), or finished.
EndRun(event) ==
  /\ job.phase = "running"
  /\ results' = Append(results, event)
  /\ JobDone
  /\ UNCHANGED <<overlayVars, asked, previewed, pressed, tokens, searchQueue, previews>>
EndCancelled == IsCancelled /\ EndRun(SearchEvent("cancelled", job.id))
EndFailed == ~IsCancelled /\ EndRun(SearchEvent("failed", job.id))
EndFinished ==
  /\ job.phase = "running" /\ ~IsCancelled /\ (job.left = <<>> \/ job.count >= ResultLimit)
  /\ EndRun([SearchEvent("finished", job.id) EXCEPT !.truncated = job.count >= ResultLimit])

----------------------------------------------------------------------------
(* Answers.                                                                 *)

IsForSearch(e) == AtSearch /\ search.request = e.id

Answered(e) ==
  CASE e.kind = "started" ->
         [(IF search.mode = "files" THEN ReplaceResults(search, <<>>) ELSE search)
            EXCEPT !.status = "searching"]
    [] e.kind = "batch" -> AppendResults(search, e.matches)
    [] e.kind = "finished" -> [search EXCEPT !.status = "finished", !.truncated = e.truncated]
    [] OTHER -> [search EXCEPT !.status = e.kind]

OnSearchEvent ==
  /\ results # <<>>
  /\ results' = Tail(results)
  /\ LET e == Head(results)
     IN IF ~IsForSearch(e)
        THEN /\ missed' = (missed \/ (search # NoSearch /\ search.request = e.id))
             /\ UNCHANGED <<search, previewed, previews>>
        ELSE /\ IF e.kind = "batch" THEN RequestSelectedPreview(Answered(e))
                ELSE search' = Answered(e) /\ UNCHANGED <<previewed, previews>>
             /\ UNCHANGED missed
  /\ UNCHANGED <<covered, asked, pressed, searchWorkerVars>>

\* PreviewLoaded and PreviewFailed differ in the text only.
OnPreview ==
  /\ previews # <<>>
  /\ previews' = Tail(previews)
  /\ LET p == Head(previews)
         awaited == search # NoSearch /\ search.preview.req = p.req
     IN /\ search' = IF awaited /\ ~covered
                     THEN [search EXCEPT !.preview = [req |-> 0, path |-> p.path, shown |-> TRUE]]
                     ELSE search
        /\ missed' = (missed \/ (awaited /\ covered))
  /\ UNCHANGED <<covered, asked, previewed, pressed, searchWorkerVars, results>>

----------------------------------------------------------------------------
SearchInit ==
  /\ search = NoSearch /\ covered = FALSE /\ missed = FALSE
  /\ asked = 0 /\ previewed = 0 /\ pressed = 0
  /\ tokens = {} /\ activeToken = 0 /\ searchQueue = <<>> /\ job = NoJob
  /\ results = <<>> /\ previews = <<>>

SearchNext ==
  \/ OpenQuickOpen \/ OpenWorkspaceSearch \/ CloseSearch \/ Cover \/ Uncover
  \/ AtSearch /\ (PopQuery \/ \E c \in SearchLetters : TypeQuery(c))
  \/ MoveSelection(1) \/ MoveSelection(-1)
  \/ Dequeue \/ DebounceReplaced \/ DebounceOver
  \/ StartRun \/ EmitBatch \/ EndCancelled \/ EndFailed \/ EndFinished
  \/ OnSearchEvent \/ OnPreview

----------------------------------------------------------------------------
(* Properties.                                                              *)

TextOf(f) == IF f \in Range(OpenTabs)
             THEN LiveTexts[CHOOSE i \in DOMAIN OpenTabs : OpenTabs[i] = f] ELSE DiskTexts[f]
Expected(query) ==
  UNION {Range(LiteralMatches(f, TextOf(f), query)) : f \in Files}

\* "Late events from a replaced overlay are ignored, so an old ripgrep child can
\* never overwrite a newer query" (model.rs, on_search_event): what a text search
\* lists are matches of the query as typed, in the live text of the open files,
\* without repetition; and a search that says it has finished, with room to
\* spare, lists every one of them, unless another overlay hid it meanwhile.
FinishedSearchIsComplete ==
  search.mode = "text" =>
    /\ Range(search.matches) \subseteq Expected(search.query)
    /\ IsInjective(search.matches)
    /\ (search.status = "finished" /\ ~missed /\ ~search.truncated
          /\ Len(search.matches) < ResultLimit) =>
         Range(search.matches) = Expected(search.query)

\* The preview is that of the selected match, whatever re-sorts the list or moves
\* the selection while a read is under way, and one that is not there yet has its
\* read under way: request_selected_preview follows every such change.
PreviewFollowsTheSelection ==
  (search.mode = "text" /\ HasSelection(search)) =>
    /\ search.preview.path = Selected(search)[1]
    /\ (~search.preview.shown /\ ~covered) =>
         \/ \E p \in Range(previews) : p.req = search.preview.req
         \/ missed

\* The search on screen is never told that it was cancelled: cancellation is for
\* the request it replaced (SearchWorker::request, cancel, and the debounce), and
\* its own token stays clear for as long as somebody waits for it.
ShownSearchIsNotCancelled ==
  search # NoSearch => /\ search.status # "cancelled"
                       /\ (search.mode = "files" \/ search.query # <<>>) =>
                            search.request \notin tokens

\* What the search overlay shows is what its worker found, and all of it: the list,
\* the preview beside it, and its status (on_search_event, request_selected_preview).
SearchShowsWhatIsThere ==
  /\ FinishedSearchIsComplete
  /\ PreviewFollowsTheSelection
  /\ ShownSearchIsNotCancelled

============================================================================
