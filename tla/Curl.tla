-------------------------------- MODULE Curl --------------------------------
(* The three examples of libcurl.  basic_curl.cpp performs one transfer in    *)
(* main(), curl_multithreaded.cpp one per thread, curl_multi_handle.cpp all   *)
(* of them in one thread behind a multi handle.  libcurl runs the write       *)
(* callbacks inside a perform call, and nowhere else.                         *)
EXTENDS Integers, FiniteSets

CONSTANTS
  Urls,        \* the entries of urls
  Basic,       \* the one that basic_curl.cpp asks for
  Size         \* bound: pieces of the longest page

VARIABLES
  prog,
  main,        \* the statement main() is at, or how the program ended
  next,        \* urls that the loop of main() has not come to
  library,     \* curl_global_init() is in force
  multi,       \* the multi handle
  rc,          \* whether a call on the multi handle has ended its loop
  running_status,
  worker,      \* where perform_request() is, for each url
  easy,        \* urls with an easy handle that is not cleaned up
  added,       \* those whose handle is in the multi handle
  transfer,    \* how each transfer stands
  data,        \* pieces appended by the callback
  file,        \* pieces written to the file, or printed; -1: nothing was
  page         \* pieces each server has for its url

mainVars     == <<prog, main, next>>
libraryVars  == <<library, multi, rc, running_status>>
transferVars == <<worker, easy, added, transfer, data, file, page>>
vars == <<mainVars, libraryVars, transferVars>>

Examples == {"easy", "multi", "threads"}

CurlTypeOK ==
  /\ main \in {"init", "handles", "first", "perform", "wait", "files", "launch",
               "join", "inline", "cleanup", "done", "aborted"}
  /\ next \subseteq Urls
  /\ library \in BOOLEAN /\ multi \in {"none", "up"} /\ rc \in {"ok", "failed"}
  /\ running_status \in 0..Cardinality(Urls)
  /\ worker \in [Urls -> {"none", "start", "perform", "output", "ended"}]
  /\ easy \subseteq Urls /\ added \subseteq easy
  /\ transfer \in [Urls -> {"none", "running", "ok", "failed"}]
  /\ page \in [Urls -> 0..Size] /\ data \in [Urls -> 0..Size]
  /\ file \in [Urls -> -1..Size]

CurlAtStart ==
  /\ next = Urls
  /\ library = FALSE /\ multi = "none" /\ rc = "ok" /\ running_status = 0
  /\ worker = [u \in Urls |-> "none"] /\ easy = {} /\ added = {}
  /\ transfer = [u \in Urls |-> "none"]
  /\ data = [u \in Urls |-> 0] /\ file = [u \in Urls |-> -1]

Init ==
  /\ prog \in Examples
  /\ main = "init"
  /\ CurlAtStart
  /\ page \in [Urls -> 0..Size]

---------------------------------------------------------------------------
\* curl_global_init(), which basic_curl.cpp leaves to curl_easy_init().
GlobalInit ==
  /\ main = "init"
  /\ library' = TRUE
  /\ \/ /\ prog = "easy"
        /\ main' = "inline"
        /\ worker' = [worker EXCEPT ![Basic] = "start"]
        /\ UNCHANGED multi
     \/ /\ prog = "multi"
        /\ main' = "handles"
        /\ multi' \in {"up", "none"}
        /\ UNCHANGED worker
     \/ /\ prog = "threads"
        /\ main' = "launch"
        /\ UNCHANGED <<multi, worker>>
  /\ UNCHANGED <<prog, next, rc, running_status, easy, added, transfer, data, file, page>>

\* The write callback: a piece of the page is appended to the string.
InPerform(u) ==
  IF prog = "multi" THEN main \in {"first", "perform"} ELSE worker[u] = "perform"

Callback(u) ==
  /\ InPerform(u)
  /\ transfer[u] = "running"
  /\ data[u] < page[u]
  /\ data' = [data EXCEPT ![u] = @ + 1]
  /\ UNCHANGED <<mainVars, libraryVars, worker, easy, added, transfer, file, page>>

\* A transfer that ends well has brought the whole page.
TransferEnds(u) ==
  /\ InPerform(u)
  /\ transfer[u] = "running"
  /\ \E how \in {"ok", "failed"} :
       /\ how = "ok" => data[u] = page[u]
       /\ transfer' = [transfer EXCEPT ![u] = how]
  /\ UNCHANGED <<mainVars, libraryVars, worker, easy, added, data, file, page>>

---------------------------------------------------------------------------
\* basic_curl.cpp and perform_request(): a handle of its own, one blocking call.
EasyInit(u) ==
  /\ worker[u] = "start"
  /\ \/ /\ easy' = easy \cup {u}
        /\ transfer' = [transfer EXCEPT ![u] = "running"]
        /\ worker' = [worker EXCEPT ![u] = "perform"]
     \/ /\ worker' = [worker EXCEPT ![u] = "ended"]
        /\ UNCHANGED <<easy, transfer>>
  /\ UNCHANGED <<mainVars, libraryVars, added, data, file, page>>

EasyPerformed(u) ==
  /\ worker[u] = "perform"
  /\ transfer[u] /= "running"
  /\ worker' = [worker EXCEPT ![u] = IF transfer[u] = "ok" THEN "output" ELSE "ended"]
  /\ easy' = IF prog = "easy" /\ transfer[u] /= "ok" THEN easy \ {u} ELSE easy
  /\ UNCHANGED <<mainVars, libraryVars, added, transfer, data, file, page>>

\* The file, unless it cannot be opened; basic_curl.cpp prints, and is the only
\* one of the two to clean its handle up.
EasyOutput(u) ==
  /\ worker[u] = "output"
  /\ \/ file' = [file EXCEPT ![u] = data[u]]
     \/ prog = "threads" /\ UNCHANGED file
  /\ easy' = IF prog = "easy" THEN easy \ {u} ELSE easy
  /\ worker' = [worker EXCEPT ![u] = "ended"]
  /\ UNCHANGED <<mainVars, libraryVars, added, transfer, data, page>>

BasicEnds ==
  /\ main = "inline"
  /\ worker[Basic] = "ended"
  /\ main' = "done"
  /\ UNCHANGED <<prog, next, libraryVars, transferVars>>

---------------------------------------------------------------------------
\* curl_multithreaded.cpp.  A thread that cannot be started throws, and the
\* vector is destroyed with threads that were not joined: std::terminate().
StartThread(u) ==
  /\ main = "launch"
  /\ u \in next
  /\ next' = next \ {u}
  /\ \/ /\ worker' = [worker EXCEPT ![u] = "start"]
        /\ main' = IF next' = {} THEN "join" ELSE main
     \/ main' = "aborted" /\ UNCHANGED worker
  /\ UNCHANGED <<prog, libraryVars, easy, added, transfer, data, file, page>>

\* Variant: only the last of the threads is joined.
JoinOne ==
  /\ main = "join"
  /\ \E u \in Urls : worker[u] = "ended"
  /\ main' = "cleanup"
  /\ UNCHANGED <<prog, next, libraryVars, transferVars>>

JoinAll ==
  /\ main = "join"
  /\ \A u \in Urls : worker[u] = "ended"
  /\ main' = "cleanup"
  /\ UNCHANGED <<prog, next, libraryVars, transferVars>>

---------------------------------------------------------------------------
\* curl_multi_handle.cpp.  No result is looked at here: without a handle
\* nothing is added, and the url has no transfer.
AddHandle(u) ==
  /\ main = "handles"
  /\ u \in next
  /\ next' = next \ {u}
  /\ main' = IF next' = {} THEN "first" ELSE main
  /\ \/ /\ multi = "up"
        /\ easy' = easy \cup {u} /\ added' = added \cup {u}
        /\ transfer' = [transfer EXCEPT ![u] = "running"]
     \/ /\ easy' \in {easy, easy \cup {u}}
        /\ UNCHANGED <<added, transfer>>
  /\ UNCHANGED <<prog, libraryVars, worker, data, file, page>>

\* The result of the first curl_multi_perform() is ignored, an error in the
\* loop leaves it, and without a multi handle every call is one.
PerformReturns ==
  /\ main \in {"first", "perform"}
  /\ \/ /\ multi = "up"
        /\ running_status' = Cardinality({u \in added : transfer[u] = "running"})
        /\ main' = IF main = "first" THEN "perform" ELSE "wait"
        /\ UNCHANGED <<rc, next>>
     \/ /\ UNCHANGED running_status
        /\ IF main = "first"
           THEN main' = "perform" /\ UNCHANGED <<rc, next>>
           ELSE main' = "files" /\ rc' = "failed" /\ next' = Urls
  /\ UNCHANGED <<prog, library, multi, transferVars>>

\* Variant: the loop is not taken again.
WaitOnce ==
  /\ main = "wait"
  /\ main' = "files" /\ next' = Urls
  /\ rc' \in {"ok", "failed"}
  /\ UNCHANGED <<prog, library, multi, running_status, transferVars>>

\* Variant: the loop is taken while the multi handle holds transfers, which the
\* ones that have ended do not leave.
WaitWhileAdded ==
  /\ main = "wait"
  /\ \/ /\ added /= {}
        /\ main' = "perform"
        /\ UNCHANGED <<rc, next>>
     \/ /\ added = {}
        /\ main' = "files" /\ next' = Urls
        /\ UNCHANGED rc
     \/ main' = "files" /\ next' = Urls /\ rc' = "failed"
  /\ UNCHANGED <<prog, library, multi, running_status, transferVars>>

\* curl_multi_wait(), and the loop again while a transfer is running.
Wait ==
  /\ main = "wait"
  /\ \/ /\ running_status > 0
        /\ main' = "perform"
        /\ UNCHANGED <<rc, next>>
     \/ /\ running_status = 0
        /\ main' = "files" /\ next' = Urls
        /\ UNCHANGED rc
     \/ main' = "files" /\ next' = Urls /\ rc' = "failed"
  /\ UNCHANGED <<prog, library, multi, running_status, transferVars>>

\* Every url gets its file, with what has come; then its handle goes.
WriteFile(u) ==
  /\ main = "files"
  /\ u \in next
  /\ next' = next \ {u}
  /\ main' = IF next' = {} THEN "cleanup" ELSE main
  /\ \/ file' = [file EXCEPT ![u] = data[u]]
     \/ UNCHANGED file
  /\ added' = added \ {u}
  /\ easy' = easy \ {u}
  /\ UNCHANGED <<prog, libraryVars, worker, transfer, data, page>>

\* curl_multi_cleanup() and curl_global_cleanup().
GlobalCleanup ==
  /\ main = "cleanup"
  /\ library' = FALSE
  /\ multi' = "none"
  /\ main' = "done"
  /\ UNCHANGED <<prog, next, rc, running_status, transferVars>>

---------------------------------------------------------------------------
MainStep ==
  \/ GlobalInit \/ BasicEnds \/ JoinAll
  \/ PerformReturns \/ Wait \/ GlobalCleanup
  \/ \E u \in Urls : StartThread(u) \/ AddHandle(u) \/ WriteFile(u)

\* After std::terminate() no thread goes on.
WorkerStep(u) ==
  /\ main /= "aborted"
  /\ EasyInit(u) \/ EasyPerformed(u) \/ EasyOutput(u)

LibraryStep(u) == main /= "aborted" /\ (Callback(u) \/ TransferEnds(u))

Next ==
  \/ MainStep
  \/ \E u \in Urls : WorkerStep(u) \/ LibraryStep(u)

\* main() and the threads run; and a transfer ends when perform is called often
\* enough: no time limit is set, so this much is asked of the servers.
Fairness ==
  /\ WF_vars(MainStep)
  /\ \A u \in Urls : WF_vars(WorkerStep(u)) /\ SF_vars(TransferEnds(u))

Spec == Init /\ [][Next]_vars /\ Fairness

---------------------------------------------------------------------------
\* A page that is written to a file or printed is the whole page.  The multi
\* example excepts the urls whose transfer failed or could not be started, and
\* all of them once a call on the multi handle has failed.
FilesAreWhole ==
  /\ CurlTypeOK
  /\ \A u \in Urls :
       file[u] >= 0 =>
         \/ file[u] = page[u]
         \/ prog = "multi" /\ (transfer[u] \in {"none", "failed"} \/ rc = "failed")

\* libcurl is not torn down under a transfer: when curl_global_cleanup() has
\* run, no thread is in a call of the library and no multi handle holds a
\* transfer.
LibraryOutlivesTransfers ==
  main = "done" /\ ~library =>
    /\ \A u \in Urls : worker[u] \in {"none", "ended"}
    /\ added = {}
    /\ \A u \in Urls : prog = "multi" => u \notin easy

\* Each example comes to its end, if the servers end what they send.
ExamplesEnd == <>(main \in {"done", "aborted"})

\* Without the exceptions.
EveryFileIsWhole == \A u \in Urls : file[u] >= 0 => file[u] = page[u]

\* Every easy handle is cleaned up before libcurl is.
HandlesReleased == main = "done" => easy = {}
=============================================================================
