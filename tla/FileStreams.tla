----------------------------- MODULE FileStreams -----------------------------
(***************************************************************************)
(* The read handles and the owned workers of the two file backends: the    *)
(* managed one acquires descriptors from a native helper                   *)
(* (native_file_streams.py); the ordinary-uid one runs every operation on  *)
(* a worker thread that a cancelled request must outlive                   *)
(* (ordinary_uid_files.py).                                                *)
(***************************************************************************)
EXTENDS Naturals, FiniteSets, TLC, Functions

CONSTANTS
  FileBackends,   \* of {"managed", "ordinary"}
  HandleIds,
  Descriptors,    \* descriptor numbers, reused once closed
  MaxHandles,     \* MAX_OPEN_HANDLES
  WorkSteps       \* steps of a copy, a write or a removal

VARIABLES
  backend,   \* [profile, closed, lock]
  handles,   \* handle id |-> descriptor
  fds,       \* the descriptors that are open
  request,   \* the request that holds the lock
  worker     \* the thread or helper that does its work

streamsVars == <<backend, handles, fds, request, worker>>

NoRead == [method |-> "none", id |-> "none", cancelled |-> FALSE]

NoWorker == [state |-> "idle", told |-> FALSE, left |-> 0, acquired |-> {}]

StreamsInit ==
  /\ backend \in [profile : FileBackends, closed : {FALSE}, lock : {FALSE}]
  /\ handles = << >> /\ fds = {}
  /\ request = NoRead /\ worker = NoWorker

(* Mutant: the handle is forgotten and its descriptor stays open. *)
DropKeepingDescriptor(ids) ==
  /\ handles' = Restrict(handles, DOMAIN handles \ ids)
  /\ UNCHANGED fds

(* _drop: forget the handle and close its descriptor, if there is one. *)
Drop(ids) ==
  /\ handles' = Restrict(handles, DOMAIN handles \ ids)
  /\ fds' = fds \ {handles[i] : i \in ids \cap DOMAIN handles}

Steps(method) == IF method \in {"copy", "remove"} THEN WorkSteps ELSE 1

(* handle: a request takes the lock of a session that is still open. *)
RequestStarts(method, id) ==
  /\ ~backend.lock /\ ~backend.closed
  /\ backend.profile = "managed" => method \in {"open", "readBlock"}
  /\ backend' = [backend EXCEPT !.lock = TRUE]
  /\ request' = [NoRead EXCEPT !.method = method, !.id = id]
  /\ worker' = [NoWorker EXCEPT !.state = "run", !.left = Steps(method)]
  /\ UNCHANGED <<handles, fds>>

(* fs/close: idempotent, and never suspended on its way. *)
CloseHandle(id) ==
  /\ ~backend.lock /\ ~backend.closed
  /\ Drop({id})
  /\ UNCHANGED <<backend, request, worker>>

Cancel ==
  /\ request.method # "none" /\ ~request.cancelled
  /\ request' = [request EXCEPT !.cancelled = TRUE]
  /\ UNCHANGED <<backend, handles, fds, worker>>

Fails == worker' = [worker EXCEPT !.state = "done"]

Opens(fd) ==
  /\ handles' = (request.id :> fd) @@ handles
  /\ fds' = fds \cup {fd}

HandleRefused ==
  CASE request.method = "open" ->
         request.id \in DOMAIN handles \/ Cardinality(DOMAIN handles) >= MaxHandles
    [] request.method = "readBlock" -> request.id \notin DOMAIN handles
    [] OTHER -> FALSE

-----------------------------------------------------------------------------
Managed == backend.profile = "managed" /\ worker.state = "run"

(* _acquire after the helper has been reaped: exactly one verified descriptor
   is kept; missing, surplus or different ones are all closed. *)
ManagedOpens ==
  /\ Managed /\ request.method = "open" /\ ~request.cancelled
  /\ \/ Fails /\ UNCHANGED <<handles, fds>>
     \/ /\ ~HandleRefused
        /\ \E fd \in Descriptors \ fds : Opens(fd)
        /\ worker' = [worker EXCEPT !.state = "done"]
  /\ UNCHANGED <<backend, request>>

(* fs/readBlock through the helper: any failure drops the handle. *)
ManagedReads ==
  /\ Managed /\ request.method = "readBlock" /\ ~request.cancelled
  /\ \/ Fails /\ Drop({request.id})
     \/ /\ ~HandleRefused
        /\ worker' = [worker EXCEPT !.state = "done"]
        /\ UNCHANGED <<handles, fds>>
  /\ UNCHANGED <<backend, request>>

(* _invoke, cancelled: the helper is killed and reaped before the handler goes
   on, and rights still queued on the socket close with it. *)
ManagedCancelled ==
  /\ Managed /\ request.cancelled
  /\ Fails
  /\ IF request.method = "readBlock" THEN Drop({request.id}) ELSE UNCHANGED <<handles, fds>>
  /\ UNCHANGED <<backend, request>>

-----------------------------------------------------------------------------
Ordinary == backend.profile = "ordinary" /\ worker.state = "run"

(* handle: the cancelled request tells its worker and keeps waiting for it. *)
TellWorker ==
  /\ backend.profile = "ordinary" /\ request.cancelled
  /\ worker.state \in {"run", "done"} /\ ~worker.told
  /\ worker' = [worker EXCEPT !.told = TRUE]
  /\ UNCHANGED <<backend, handles, fds, request>>

(* _execute: fs/open on the worker, which may fail, or be told too late. *)
WorkerOpens ==
  /\ Ordinary /\ request.method = "open"
  /\ \/ Fails /\ UNCHANGED <<handles, fds>>
     \/ /\ ~HandleRefused
        /\ \E fd \in Descriptors \ fds : Opens(fd)
        /\ worker' = [worker EXCEPT !.state = "done", !.acquired = {request.id}]
  /\ UNCHANGED <<backend, request>>

(* _execute: fs/readBlock; a failure inside the loop drops the handle. *)
WorkerReads ==
  /\ Ordinary /\ request.method = "readBlock"
  /\ \/ HandleRefused /\ Fails /\ UNCHANGED <<handles, fds>>
     \/ ~HandleRefused /\ Fails /\ Drop({request.id})
     \/ /\ ~HandleRefused /\ ~worker.told
        /\ worker' = [worker EXCEPT !.state = "done", !.acquired = {request.id}]
        /\ UNCHANGED <<handles, fds>>
  /\ UNCHANGED <<backend, request>>

(* _copy and _write_all check for cancellation before every piece of work. *)
WorkerCopies ==
  /\ Ordinary /\ request.method = "copy"
  /\ \/ Fails
     \/ /\ ~worker.told
        /\ worker' = [worker EXCEPT !.left = @ - 1,
                        !.state = IF worker.left = 1 THEN "done" ELSE "run"]
  /\ UNCHANGED <<backend, handles, fds, request>>

(* _remove checks once; the recursive removal then runs to its end. *)
WorkerRemoves ==
  /\ Ordinary /\ request.method = "remove"
  /\ \/ Fails
     \/ /\ worker.left < WorkSteps \/ ~worker.told
        /\ worker' = [worker EXCEPT !.left = @ - 1,
                        !.state = IF worker.left = 1 THEN "done" ELSE "run"]
  /\ UNCHANGED <<backend, handles, fds, request>>

-----------------------------------------------------------------------------
(* handle: the worker is done; a cancelled request closes what it acquired. *)
RequestReturns ==
  /\ worker.state = "done"
  /\ backend' = [backend EXCEPT !.lock = FALSE]
  /\ request' = NoRead
  /\ IF backend.profile = "ordinary" /\ request.cancelled THEN Drop(worker.acquired)
     ELSE UNCHANGED <<handles, fds>>
  /\ worker' = NoWorker

(* close: under the lock, so no worker is left; every handle is dropped. *)
StreamsClose ==
  /\ ~backend.lock /\ ~backend.closed
  /\ Drop(DOMAIN handles)
  /\ backend' = [backend EXCEPT !.closed = TRUE]
  /\ UNCHANGED <<request, worker>>

StreamsNext ==
  \/ \E id \in HandleIds, method \in {"open", "readBlock", "copy", "remove"} :
       RequestStarts(method, id)
  \/ \E id \in HandleIds : CloseHandle(id)
  \/ Cancel
  \/ ManagedOpens
  \/ ManagedReads
  \/ ManagedCancelled
  \/ TellWorker
  \/ WorkerOpens
  \/ WorkerReads
  \/ WorkerCopies
  \/ WorkerRemoves
  \/ RequestReturns
  \/ StreamsClose

StreamsSpec == StreamsInit /\ [][StreamsNext]_streamsVars

-----------------------------------------------------------------------------
(* Descriptors are neither leaked nor closed behind a handle, across failed
   helpers, late cancellations and the end of the session, and a worker never
   outlives the request that holds the lock (native_file_streams.py:209-290,
   ordinary_uid_files.py:442-484). *)
WorkIsOwned ==
  /\ fds = Range(handles)
  /\ Cardinality(fds) = Cardinality(DOMAIN handles)
  /\ backend.closed => fds = {}
  /\ ~backend.lock => worker.state = "idle"
=============================================================================
