------------------------------ MODULE Contents ------------------------------
(***************************************************************************)
(* Compilation of the flat files into Redis string keys: initContents of   *)
(* blogd.c, run once at start-up over the key space loaded from dump.rdb   *)
(* and again by every request whose query matches reload-content-query.    *)
(*                                                                         *)
(* The author edits the content directory at any time, also between two    *)
(* system calls of a running load; the server is single threaded, so       *)
(* nothing is served and no snapshot is taken until the load is over.      *)
(*                                                                         *)
(* Texts are stamps: each write of a file stores a fresh stamp, and 0 is   *)
(* the empty text.  A file name is a number, ordered as strncmp orders the *)
(* names; Base[f] is the name without its extension, which two files may   *)
(* share.  readdir returns a name once in a pass, in any order.            *)
(***************************************************************************)
EXTENDS Integers, Sequences, FiniteSets

CONSTANTS
  Files,      \* names a post file may have
  Base,       \* Base[f]: removeFileExt(f)
  SubDirs,    \* entries of posts/ that are directories, "." and ".." included
  Static,     \* base names in which the second route finds one of its extensions
              \* (".js", ".html" ...); public/ has no file of that name
  PerPage,    \* server.per_page
  MaxEdits,   \* bound: edits of the author
  MaxLoads,   \* bound: executions of initContents
  NoKey       \* the value of a key that does not exist

ASSUME ContentsAssumption ==
  /\ Files \subseteq Nat \ {0} /\ IsFiniteSet(Files)
  /\ Base \in [Files -> Nat]
  /\ SubDirs \in Nat /\ Static \subseteq Nat
  /\ PerPage \in Nat \ {0}
  /\ MaxEdits \in Nat /\ MaxLoads \in Nat

VARIABLES
  posts,          \* posts/: posts[f] is the stamp of f, Absent if there is none
  tpl,            \* the *.tpl files, one stamp for all of them
  postKey,        \* "post:" keys, by base name
  pageKey,        \* "page:" keys, by number
  errorKey,       \* "error:" keys (400, 404 and 500 are always set together)
  saved,          \* the keys in dump.rdb
  pc,             \* where the server is
  layout,         \* layoutContent, pageContent and the other templates
  nFiles,         \* entries counted by the first pass over posts/
  next,           \* dir->_e: a file name, SubDir or EndOfDir
  entries, subs,  \* post files and number of directories read by this pass
  bailed,         \* tinydir_open_sorted returned -1
  dir,            \* the sorted listing of the files
  j,              \* files compiled so far by this load
  postsContents,  \* listing entries of the page being built
  pageIndex,      \* number of the page being built
  edits, loads,   \* counters for the bounds
  touched,        \* history: what the author changed since the load began
  before          \* history: the keys when the load began

content == <<posts, tpl>>
keys    == <<postKey, pageKey, errorKey>>
scan    == <<nFiles, next, entries, subs, bailed>>
compile == <<dir, j, postsContents, pageIndex>>
load    == <<layout, scan, compile>>
history == <<touched, before>>
vars    == <<content, keys, saved, pc, load, edits, loads, history>>

Absent    == 0
EmptyText == 0
Null      == -1
EndOfDir  == 0
SubDir    == -1
Templates == 0           \* the *.tpl files, as a member of touched
Stamps    == 0 .. MaxEdits + 1
Bases     == {Base[f] : f \in Files}
PageNums  == 1 .. Cardinality(Files)
Present   == {f \in Files : posts[f] # Absent}

-----------------------------------------------------------------------------
(* Helpers of deps/blogd.                                                  *)

\* Variant that reports a missing file.
ReadFileContentOrNull(stamp) == IF stamp = Absent THEN Null ELSE stamp

\* A file that cannot be opened reads as the empty text, never as NULL.
ReadFileContent(stamp) == IF stamp = Absent THEN EmptyText ELSE stamp

\* strReplace on an empty layout has no place to put the content in.
CompileTemplate(lay, text) ==
  [lay |-> lay, text |-> IF lay = EmptyText THEN EmptyText ELSE text]

\* executeRedisCommand of a SET: the key is added, or its value overwritten.
SetKey(map, key, value) == [map EXCEPT ![key] = value]

\* Variant with the names in ascending order.
SortedAscending(S) ==
  [k \in 1 .. Cardinality(S) |->
     CHOOSE f \in S : Cardinality({g \in S : g < f}) = k - 1]

\* The listing qsort leaves, by _tinydir_file_cmp: names in descending order, so
\* that the newest date comes first.  Position k holds the name k - 1 others exceed.
Sorted(S) ==
  [k \in 1 .. Cardinality(S) |->
     CHOOSE f \in S : Cardinality({g \in S : g > f}) = k - 1]

-----------------------------------------------------------------------------
(* The author.                                                             *)

Write(f) ==
  /\ edits < MaxEdits
  /\ edits' = edits + 1
  /\ posts' = [posts EXCEPT ![f] = edits + 2]
  /\ touched' = touched \cup {f}
  /\ UNCHANGED <<tpl, keys, saved, pc, load, loads, before>>

Delete(f) ==
  /\ edits < MaxEdits /\ posts[f] # Absent
  /\ edits' = edits + 1
  /\ posts' = [posts EXCEPT ![f] = Absent]
  /\ touched' = touched \cup {f}
  /\ UNCHANGED <<tpl, keys, saved, pc, load, loads, before>>

EditTemplates ==
  /\ edits < MaxEdits
  /\ edits' = edits + 1
  /\ tpl' \in {edits + 2, Absent}
  /\ touched' = touched \cup {Templates}
  /\ UNCHANGED <<posts, keys, saved, pc, load, loads, before>>

-----------------------------------------------------------------------------
(* initContents.                                                           *)

\* The guard against missing templates tests for NULL, which readFileContent
\* never returns: a missing template leaves the empty text and the load goes on.
NotEnoughFiles(text) == text = Null

ReadTemplates ==
  LET text == ReadFileContent(tpl)
  IN  /\ pc = "templates"
      /\ layout' = text
      /\ errorKey' = IF NotEnoughFiles(text) THEN errorKey ELSE CompileTemplate(text, text)
      /\ pc' = IF NotEnoughFiles(text) THEN "exited" ELSE "open1"
      /\ UNCHANGED <<content, postKey, pageKey, saved, scan, compile, edits, loads, history>>

\* What readdir may return after the pass has read S and d directories: any name
\* left, and the end once every name that was there throughout has been returned.
Readdir(S, d) ==
  (Present \ S)
    \cup {e \in {SubDir} : d < SubDirs}
    \cup {e \in {EndOfDir} : d = SubDirs /\ Present \ touched \subseteq S}

\* The arrays and counters with which the compilation begins.
Listing(S) == dir' = Sorted(S) /\ j' = 0 /\ pageIndex' = 1 /\ postsContents' = <<>>

\* Variant that takes a failed stat for the end of the directory.
BailOutLate == Listing(entries) /\ bailed' = FALSE

\* The label bail, and tinydir_close: n_files is 0.  initContents does not look at
\* the result and goes on with an empty listing.
BailOut == Listing({}) /\ bailed' = TRUE

\* tinydir_open, which reads the first entry, too; opendir may fail.
OpenDir ==
  /\ pc \in {"open1", "open2"}
  /\ entries' = {} /\ subs' = 0
  /\ \/ /\ next' \in Readdir({}, 0)
        /\ pc' = IF pc = "open1" THEN "count" ELSE "scan"
        /\ UNCHANGED <<bailed, compile>>
     \/ BailOut /\ pc' = "compile" /\ next' = EndOfDir
  /\ UNCHANGED <<content, keys, saved, layout, nFiles, edits, loads, history>>

\* The entry under dir->_e is counted (first pass) or stored (second pass).
Take ==
  /\ entries' = entries \cup ({next} \ {SubDir})
  /\ subs' = IF next = SubDir THEN subs + 1 ELSE subs

\* First pass of tinydir_open_sorted, to size the array.
CountEntry ==
  /\ pc = "count"
  /\ IF next = EndOfDir
     THEN /\ nFiles' = Cardinality(entries) + subs
          /\ pc' = "open2"
          /\ UNCHANGED <<next, entries, subs>>
     ELSE /\ Take
          /\ next' \in Readdir(entries', subs')
          /\ UNCHANGED <<pc, nFiles>>
  /\ UNCHANGED <<content, keys, saved, layout, bailed, compile, edits, loads, history>>

\* Variant without the test.
ArrayNeverFull(n) == FALSE

\* "Just in case the number of files has changed between the first and second reads".
ArrayFull(n) == n = nFiles

\* Second pass: stat the entry readdir returned and store it, then read the next one.
\* An entry unlinked meanwhile fails stat, and the whole scan bails out.
ScanEntry ==
  /\ pc = "scan"
  /\ \/ /\ next = EndOfDir
        /\ Listing(entries) /\ pc' = "compile"
        /\ UNCHANGED <<next, entries, subs, bailed>>
     \/ /\ next \in Files \ Present
        /\ BailOut /\ pc' = "compile"
        /\ UNCHANGED <<next, entries, subs>>
     \/ /\ next \in Present \cup {SubDir}
        /\ Take
        /\ IF ArrayFull(Cardinality(entries') + subs')
           THEN Listing(entries') /\ pc' = "compile" /\ next' = EndOfDir
           ELSE next' \in Readdir(entries', subs') /\ UNCHANGED <<pc, compile>>
        /\ UNCHANGED bailed
  /\ UNCHANGED <<content, keys, saved, layout, nFiles, edits, loads, history>>

\* Variant that only counts.
PageDoneNoLast(i, numFiles) == i % PerPage = PerPage - 1

\* The page is complete after file number i of numFiles (counted from 0).
PageDone(i, numFiles) == i % PerPage = PerPage - 1 \/ i = numFiles - 1

\* Variant that links from the last page, too.
MoreAlways(p, i, numFiles) == p + 1

\* The page number in the More link, 0 for no link.
More(p, i, numFiles) == IF i < numFiles - 1 THEN p + 1 ELSE 0

\* Variant that reads the files again when the page is complete.
CompilePageAgain(lay, entrySeq, more) ==
  [lay   |-> lay,
   posts |-> IF lay = EmptyText THEN <<>>
             ELSE [i \in 1 .. Len(entrySeq) |->
                     [file |-> entrySeq[i].file, text |-> posts[entrySeq[i].file]]],
   more  |-> IF lay = EmptyText THEN 0 ELSE more]

CompilePage(lay, entrySeq, more) ==
  [lay   |-> lay,
   posts |-> IF lay = EmptyText THEN <<>> ELSE entrySeq,
   more  |-> IF lay = EmptyText THEN 0 ELSE more]

CompileFile ==
  LET f        == dir[j + 1]
      text     == ReadFileContent(posts[f])
      numFiles == Len(dir)
      soFar    == Append(postsContents, [file |-> f, text |-> text])
  IN  /\ pc = "compile" /\ j < Len(dir)
      /\ postKey' = SetKey(postKey, Base[f], CompileTemplate(layout, text))
      /\ IF PageDone(j, numFiles)
         THEN /\ pageKey' = SetKey(pageKey, pageIndex,
                                 CompilePage(layout, soFar, More(pageIndex, j, numFiles)))
              /\ postsContents' = <<>>
              /\ pageIndex' = pageIndex + 1
         ELSE /\ postsContents' = soFar
              /\ UNCHANGED <<pageKey, pageIndex>>
      /\ j' = j + 1
      /\ UNCHANGED <<content, errorKey, saved, pc, layout, scan, dir, edits, loads, history>>

\* Variant that does not end for an empty listing, as an unsigned n_files - 1 would.
FinishLoadUnlessEmpty ==
  /\ pc = "compile" /\ j = Len(dir) /\ dir # <<>>
  /\ pc' = "serving"
  /\ UNCHANGED <<content, keys, saved, load, edits, loads, history>>

\* Variant that publishes an empty index when there is nothing to list.
FinishLoadEmptyIndex ==
  /\ pc = "compile" /\ j = Len(dir)
  /\ pc' = "serving"
  /\ pageKey' = IF dir # <<>> \/ PageNums = {} THEN pageKey
                ELSE SetKey(pageKey, 1, CompilePage(layout, <<>>, 0))
  /\ UNCHANGED <<content, postKey, errorKey, saved, load, edits, loads, history>>

\* initContents returns; the event loop serves requests again.
FinishLoad ==
  /\ pc = "compile" /\ j = Len(dir)
  /\ pc' = "serving"
  /\ UNCHANGED <<content, keys, saved, load, edits, loads, history>>

-----------------------------------------------------------------------------
(* Around the load.                                                        *)

\* processHttpRequestFromClient: the query matches reload-content-query.
Reload ==
  /\ pc = "serving" /\ loads < MaxLoads
  /\ pc' = "templates"
  /\ loads' = loads + 1
  /\ touched' = {} /\ before' = keys
  /\ bailed' = FALSE
  /\ UNCHANGED <<content, keys, saved, layout, nFiles, next, entries, subs, compile, edits>>

\* A snapshot: the child serialises the key space as it was at the fork, which
\* serverCron makes between two requests (module RdbSave has the details).
Snapshot ==
  /\ pc = "serving"
  /\ saved' = keys
  /\ UNCHANGED <<content, keys, pc, load, edits, loads, history>>

\* The process dies; main loads dump.rdb and calls initContents.
Restart ==
  /\ loads < MaxLoads
  /\ loads' = loads + 1
  /\ postKey' = saved[1] /\ pageKey' = saved[2] /\ errorKey' = saved[3]
  /\ pc' = "templates"
  /\ touched' = {} /\ before' = saved
  /\ bailed' = FALSE
  /\ UNCHANGED <<content, saved, layout, nFiles, next, entries, subs, compile, edits>>

Init ==
  /\ posts \in [Files -> {Absent, 1}]
  /\ tpl = 1
  /\ postKey = [b \in Bases |-> NoKey]
  /\ pageKey = [n \in PageNums |-> NoKey]
  /\ errorKey = NoKey
  /\ saved = keys
  /\ pc = "templates"
  /\ layout = EmptyText
  /\ nFiles = 0 /\ next = EndOfDir /\ entries = {} /\ subs = 0 /\ bailed = FALSE
  /\ dir = <<>> /\ j = 0 /\ postsContents = <<>> /\ pageIndex = 1
  /\ edits = 0 /\ loads = 0 /\ touched = {} /\ before = keys

Load == ReadTemplates \/ OpenDir \/ CountEntry \/ ScanEntry \/ CompileFile \/ FinishLoad

Author == EditTemplates \/ \E f \in Files : Write(f) \/ Delete(f)

Next == Load \/ Author \/ Reload \/ Snapshot \/ Restart

Spec == Init /\ [][Next]_vars

\* A load is one uninterrupted call: the thread keeps running.
FairSpec == Spec /\ WF_vars(Load)

-----------------------------------------------------------------------------
(* What a request is answered with, while the server is serving.           *)

Found(body) == [code |-> 200, body |-> body]
NotFound    == [code |-> 404, body |-> errorKey]

\* getRedisNoReplyCommand and what the response callbacks make of its outcome.
Response(map, key) ==
  IF key \in DOMAIN map /\ map[key] # NoKey THEN Found(map[key]) ELSE NotFound

\* Route "/page/(\d)+": the group is inside the repetition, so what it captures
\* is its last iteration, the last digit of the number.
PageOfUrl(n) == n % 10

ServePage(n) == Response(pageKey, PageOfUrl(n))

\* The path "/b" of post b: of the routes, tried in order, the one for static files
\* comes before the one for posts, and finds its extension anywhere in the path.
ServePost(b) == IF b \in Static THEN NotFound ELSE Response(postKey, b)

-----------------------------------------------------------------------------
(* Properties.                                                             *)

PostValue == [lay : Stamps, text : Stamps]
Entry     == [file : Files, text : Stamps]
PageValue == [lay : Stamps, posts : Seq(Entry), more : Nat]
PostKeys  == [Bases -> PostValue \cup {NoKey}]
PageKeys  == [PageNums -> PageValue \cup {NoKey}]
ErrorKeys == PostValue \cup {NoKey}

\* Every variable keeps its type: in particular no text that initContents stores in a
\* key is NULL.
TypeOK ==
  /\ posts \in [Files -> Stamps]
  /\ tpl \in Stamps
  /\ postKey \in PostKeys /\ pageKey \in PageKeys /\ errorKey \in ErrorKeys
  /\ saved \in PostKeys \X PageKeys \X ErrorKeys
  /\ before \in PostKeys \X PageKeys \X ErrorKeys
  /\ pc \in {"templates", "open1", "count", "open2", "scan", "compile", "serving", "exited"}
  /\ layout \in Stamps
  /\ nFiles \in Nat /\ subs \in Nat
  /\ next \in Files \cup {SubDir, EndOfDir}
  /\ entries \subseteq Files
  /\ bailed \in BOOLEAN
  /\ dir \in Seq(Files)
  /\ j \in Nat /\ pageIndex \in Nat
  /\ postsContents \in Seq(Entry)
  /\ edits \in 0 .. MaxEdits /\ loads \in 0 .. MaxLoads
  /\ touched \subseteq Files \cup {Templates}

Serving == pc = "serving" /\ layout # EmptyText

Listed == {dir[i] : i \in 1 .. Len(dir)}

\* The second pass stays inside the array that the first pass sized, although the
\* author adds files between the two, and between two entries of either.
ScanWithinArray ==
  pc \in {"scan", "compile", "serving"} => Cardinality(entries) + subs <= nFiles

\* A load that did not bail out misses a post which nobody touched only for want of
\* room, that is, when a post written meanwhile took its place in the array: there
\* are at least as many such newcomers in the listing as posts missing from it.
LostOnlyToNewcomers ==
  Serving /\ ~bailed =>
    Cardinality((Present \ touched) \ Listed) <= Cardinality(Listed \cap touched)

\* A load never takes back what it does not list.  The key of a post that was
\* deleted, or missed, is the one from before the load and is still served; so is
\* every page beyond the last one of this load; and a scan that bails out leaves
\* the whole blog in place, index included.
OnlyListedKeysChange ==
  Serving =>
    /\ \A b \in Bases \ {Base[f] : f \in Listed} : postKey[b] = before[1][b]
    /\ \A p \in PageNums : p >= pageIndex => pageKey[p] = before[2][p]
    /\ bailed => postKey = before[1] /\ pageKey = before[2]

\* What a load publishes is the directory it read: after a load that did not bail
\* out, and during and since which the author changed nothing, a request for any
\* post present, whose name is not taken for a static file, is answered with its
\* current text, compiled with the current layout; of two files with one base name
\* the smallest name, compiled last, is served.
PublishedMatchesDirectory ==
  Serving /\ touched = {} /\ ~bailed =>
    \A f \in {g \in Present : Base[g] \notin Static} :
      (\A g \in Present : Base[g] = Base[f] => f <= g)
        => ServePost(Base[f]) = Found([lay |-> tpl, text |-> posts[f]])

\* The pages cut the sorted listing into runs of per-page posts, whatever the
\* author did meanwhile: page p holds entries (p-1)*PerPage+1 .. of dir, in that
\* order, only the last page is shorter, and there is no page for an empty rest.
PagesPartitionListing ==
  Serving =>
    /\ (pageIndex - 1) * PerPage >= Len(dir) /\ (pageIndex - 2) * PerPage < Len(dir)
    /\ \A p \in 1 .. pageIndex - 1 :
         LET from == (p - 1) * PerPage
             size == IF Len(dir) - from < PerPage THEN Len(dir) - from ELSE PerPage
         IN  /\ Len(pageKey[p].posts) = size
             /\ \A i \in 1 .. size : pageKey[p].posts[i].file = dir[from + i]

\* The More links lead from page 1 through the pages of this load and stop at
\* its last page, although pages of an earlier, longer listing are still in Redis.
MoreChain ==
  Serving =>
    \A p \in 1 .. pageIndex - 1 :
      /\ pageKey[p] # NoKey /\ pageKey[p].lay = layout
      /\ pageKey[p].more = IF p < pageIndex - 1 THEN p + 1 ELSE 0

\* A listing entry was made from the very text that its post key serves, even if
\* the author rewrites or removes the file while it is compiled.
ListingAgreesWithPosts ==
  Serving =>
    \A p \in 1 .. pageIndex - 1 : \A i \in 1 .. Len(pageKey[p].posts) :
      LET e == pageKey[p].posts[i]
      IN  (\A g \in Listed : Base[g] = Base[e.file] => g = e.file)
            => postKey[Base[e.file]] = [lay |-> layout, text |-> e.text]

\* Every load ends: a reload request is answered, a start reaches the event loop.
LoadTerminates == (pc = "templates") ~> (pc = "serving")

\* The start-up message of initContents, "There is not enough files to run"
\* (blogd.c:216), says that the server does not run without its templates.
RunsOnlyWithTemplates == pc = "serving" => layout # EmptyText

\* README.md, "Auto creating pagination pages": following the More link of a page
\* shows the next page.
MoreLinkOpensNextPage ==
  Serving =>
    \A p \in 1 .. pageIndex - 2 :
      ServePage(pageKey[p].more) = Found(pageKey[p + 1])

\* README.md, "How Blogd works": a request for a resource returns the value of the
\* key with that name.
RequestReturnsItsKey ==
  Serving => \A b \in Bases : postKey[b] # NoKey => ServePost(b) = Found(postKey[b])

=============================================================================
