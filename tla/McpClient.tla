----------------------------- MODULE McpClient -----------------------------
(***************************************************************************)
(* The MCPClient of core/mcp/client.py with the STDIO transport: requests  *)
(* of concurrent tasks to one server process over one pipe, serialised by  *)
(* a lock, and the connection that a first call sets up on its way.        *)
(*                                                                         *)
(* A task waits in three places: while the subprocess is created, for the  *)
(* lock, and for a line from the pipe.  One action is the code between two *)
(* of them; drain() does not wait for lines as short as these.             *)
(*                                                                         *)
(* The server answers the requests of its pipe in order.  When it does is  *)
(* left open, so pipe[p] is one sequence: the requests written to process  *)
(* p whose response has not been read, answered or not.                    *)
(***************************************************************************)
EXTENDS SequencesExt

CONSTANTS Callers,    \* the tasks that use the client
          MaxProcs,   \* bound on the processes started
          MaxId,      \* bound on the request ids at which new calls begin
          None        \* no caller

ASSUME McpAssumption ==
    /\ IsFiniteSet(Callers)
    /\ None \notin Callers
    /\ MaxProcs \in Nat
    /\ MaxId \in Nat

VARIABLES initialized,  \* _initialized
          process,      \* _process, or NoProcess
          spawned,      \* processes started so far
          alive,        \* those still running
          pipe,         \* ids of the requests to each process, no response read
          holder,       \* the task that holds _stdio_lock, or woke up for it
          queue,        \* the tasks waiting for _stdio_lock
          nextId,       \* _request_id
          life,         \* "open", in disconnect ("closing"), or "closed"
          task          \* what each task is doing

connection == <<initialized, process, spawned, alive, life>>
vars == <<initialized, process, spawned, alive, pipe, holder, queue,
          nextId, life, task>>

NoProcess == 0
Procs == 1..MaxProcs
Ops == {"call", "list", "ping"}
Methods == {"initialize", "tools/list", "tools/call", "ping"}

\* method and id are those of the request in progress, proc the process whose
\* stdout is read; mixed records that a response was to another request.
Idle == [phase |-> "idle", op |-> "none", method |-> "none", id |-> 0,
         proc |-> NoProcess, mixed |-> FALSE]

Init ==
    /\ initialized = FALSE
    /\ process = NoProcess
    /\ spawned = 0
    /\ alive = {}
    /\ pipe = [p \in Procs |-> <<>>]
    /\ holder = None
    /\ queue = <<>>
    /\ nextId = 0
    /\ life = "open"
    /\ task = [c \in Callers |-> Idle]

-----------------------------------------------------------------------------
\* Variant: the lock is released and nobody is woken.
NextHolder_nobody == None

\* The lock after its holder has released it: it goes to the first waiter.
NextHolder == IF queue = <<>> THEN None ELSE Head(queue)
RestQueue  == IF queue = <<>> THEN <<>> ELSE Tail(queue)

\* Variant: the id is taken from the counter a second time.
Written_ahead(pipes, p, id) ==
    IF p \in alive THEN [pipes EXCEPT ![p] = Append(@, id + 1)] ELSE pipes

\* The line of request id reaches process p, unless that has exited.
Written(pipes, p, id) ==
    IF p \in alive THEN [pipes EXCEPT ![p] = Append(@, id)] ELSE pipes

\* Variant: a request does not take the lock.
Send_unlocked(c, t, method, pipes, p, h, q) ==
    /\ p # NoProcess
    /\ nextId' = nextId + 1
    /\ holder' = h /\ queue' = q
    /\ pipe' = Written(pipes, p, nextId + 1)
    /\ task' = [task EXCEPT ![c] = [t EXCEPT !.phase = "reading", !.method = method,
                                             !.id = nextId + 1, !.proc = p]]

\* _build_jsonrpc and _send_stdio_request up to its first wait, for task c in
\* state t, with the pipes, the process p and the lock as left by the code
\* before it in the same step.
Send(c, t, method, pipes, p, h, q) ==
    LET id == nextId + 1
        s  == [t EXCEPT !.method = method, !.id = id]
    IN  /\ nextId' = id
        /\ \/ /\ p = NoProcess
              /\ holder' = h /\ queue' = q /\ pipe' = pipes
              /\ task' = [task EXCEPT ![c] = [Idle EXCEPT !.mixed = t.mixed]]
           \/ /\ p # NoProcess /\ h = None
              /\ holder' = c /\ queue' = q
              /\ pipe' = Written(pipes, p, id)
              /\ task' = [task EXCEPT ![c] = [s EXCEPT !.phase = "reading", !.proc = p]]
           \/ /\ p # NoProcess /\ h # None
              /\ holder' = h /\ queue' = Append(q, c) /\ pipe' = pipes
              /\ task' = [task EXCEPT ![c] = [s EXCEPT !.phase = "locking"]]

\* Variant: a cancelled waiter stays in the queue.
Leave_waiter(c, mixed) ==
    /\ task' = [task EXCEPT ![c] = [Idle EXCEPT !.mixed = mixed]]
    /\ IF holder = c THEN holder' = NextHolder /\ queue' = RestQueue
                     ELSE UNCHANGED <<holder, queue>>

\* The queue without c, which is in it at most once.
Without(c) ==
    IF c \in Range(queue) THEN RemoveAt(queue, CHOOSE i \in DOMAIN queue : queue[i] = c) ELSE queue

\* The operation of c ends, with a result or with an exception, and what c
\* holds of the lock is released.
Leave(c, mixed) ==
    /\ task' = [task EXCEPT ![c] = [Idle EXCEPT !.mixed = mixed]]
    /\ IF holder = c THEN holder' = NextHolder /\ queue' = RestQueue
                     ELSE holder' = holder /\ queue' = Without(c)

Spawning == {c \in Callers : task[c].phase = "spawning"}

-----------------------------------------------------------------------------
\* call_tool, list_tools or check_health: without a session, the first two
\* connect before anything else; a list with a session needs no request.
Begin(c, op) ==
    /\ task[c].phase = "idle" /\ life = "open" /\ nextId < MaxId
    /\ \/ /\ op # "ping" /\ ~initialized
          /\ spawned + Cardinality(Spawning) < MaxProcs
          /\ task' = [task EXCEPT ![c] = [Idle EXCEPT !.phase = "spawning", !.op = op]]
          /\ UNCHANGED <<pipe, holder, queue, nextId>>
       \/ /\ op = "call" /\ initialized
          /\ Send(c, [Idle EXCEPT !.op = op], "tools/call", pipe, process, holder, queue)
       \/ /\ op = "ping"
          /\ Send(c, [Idle EXCEPT !.op = op], "ping", pipe, process, holder, queue)
    /\ UNCHANGED connection

\* _connect_stdio returns: the new process replaces the one there was, and
\* _initialize sends its request.
Spawned(c) ==
    /\ task[c].phase = "spawning"
    /\ spawned' = spawned + 1
    /\ process' = spawned + 1
    /\ alive' = alive \cup {spawned + 1}
    /\ LET p == spawned + 1
       IN  \/ /\ holder = None
              /\ holder' = c
              /\ pipe' = [pipe EXCEPT ![p] = <<nextId + 1>>]
              /\ task' = [task EXCEPT ![c].phase = "reading", ![c].method = "initialize",
                                      ![c].id = nextId + 1, ![c].proc = p]
              /\ UNCHANGED queue
           \/ /\ holder # None
              /\ queue' = Append(queue, c)
              /\ task' = [task EXCEPT ![c].phase = "locking", ![c].method = "initialize",
                                      ![c].id = nextId + 1]
              /\ UNCHANGED <<holder, pipe>>
    /\ nextId' = nextId + 1
    /\ UNCHANGED <<initialized, life>>

\* c wakes up with the lock.  It uses the _process there is now; without one
\* the attribute access raises.
Enter(c) ==
    /\ task[c].phase = "locking" /\ holder = c
    /\ \/ /\ process = NoProcess
          /\ Leave(c, task[c].mixed)
          /\ UNCHANGED pipe
       \/ /\ process # NoProcess
          /\ pipe' = Written(pipe, process, task[c].id)
          /\ task' = [task EXCEPT ![c].phase = "reading", ![c].proc = process]
          /\ UNCHANGED <<holder, queue>>
    /\ UNCHANGED <<connection, nextId>>

\* What follows the response to each request of an operation.
NextMethod(op, method) ==
    IF method = "initialize" THEN "tools/list"
    ELSE IF method = "tools/list" /\ op = "call" THEN "tools/call"
    ELSE "done"

\* A line is read: the first of the pipe, whichever request it answers.  It
\* is a result, and the operation goes on or ends, or it is an error.
Read(c, ok) ==
    LET t     == task[c]
        resp  == Head(pipe[t.proc])
        pipes == [pipe EXCEPT ![t.proc] = Tail(@)]
        mixed == t.mixed \/ resp # t.id
        next  == NextMethod(t.op, t.method)
    IN  /\ t.phase = "reading" /\ pipe[t.proc] # <<>>
        /\ initialized' = (initialized \/ (ok /\ t.method = "tools/list"))
        /\ \/ /\ ok /\ next # "done"
              /\ Send(c, [t EXCEPT !.mixed = mixed], next, pipes, process, NextHolder, RestQueue)
           \/ /\ ~ok \/ next = "done"
              /\ pipe' = pipes
              /\ Leave(c, mixed)
              /\ UNCHANGED nextId
        /\ UNCHANGED <<process, spawned, alive, life>>

\* The process has exited and what it had answered has been read: readline
\* returns an empty line.
Eof(c) ==
    /\ task[c].phase = "reading" /\ task[c].proc \notin alive /\ pipe[task[c].proc] = <<>>
    /\ Leave(c, task[c].mixed)
    /\ UNCHANGED <<connection, pipe, nextId>>

\* wait_for gives up on the line; the request stays in the pipe.
Timeout(c) ==
    /\ task[c].phase = "reading"
    /\ Leave(c, task[c].mixed)
    /\ UNCHANGED <<connection, pipe, nextId>>

\* The task is cancelled where it waits, or the subprocess cannot be created.
Cancel(c) ==
    /\ task[c].phase # "idle"
    /\ Leave(c, task[c].mixed)
    /\ UNCHANGED <<connection, pipe, nextId>>

\* Process p exits.  What it has answered by then can still be read.
Exit(p) ==
    /\ alive' = alive \ {p}
    /\ \E k \in 0..Len(pipe[p]) : pipe' = [pipe EXCEPT ![p] = SubSeq(@, 1, k)]

\* The server process exits by itself.
Crash(p) ==
    /\ p \in alive
    /\ Exit(p)
    /\ UNCHANGED <<initialized, process, spawned, holder, queue, nextId,
                   life, task>>

\* disconnect(): the registry has dropped the client, so that no call begins
\* any more.  A running process is terminated and then awaited; there may be
\* none; and terminate() may raise for one that has exited, which leaves the
\* rest undone.
Disconnect ==
    /\ life = "open"
    /\ \/ /\ process \in alive
          /\ Exit(process)
          /\ life' = "closing"
          /\ UNCHANGED <<initialized, process>>
       \/ /\ process \notin alive
          /\ life' = "closed" /\ process' = NoProcess /\ initialized' = FALSE
          /\ UNCHANGED <<alive, pipe>>
       \/ /\ process \notin alive /\ process # NoProcess
          /\ life' = "closed"
          /\ UNCHANGED <<initialized, process, alive, pipe>>
    /\ UNCHANGED <<spawned, holder, queue, nextId, task>>

\* The awaited process has exited: what is closed is whatever is current now.
Disconnected ==
    /\ life = "closing"
    /\ life' = "closed"
    /\ process' = NoProcess
    /\ initialized' = FALSE
    /\ UNCHANGED <<spawned, alive, pipe, holder, queue, nextId, task>>

Answer(c) == Read(c, TRUE) \/ Read(c, FALSE) \/ Eof(c) \/ Timeout(c)

Next ==
    \/ \E c \in Callers : \/ \E op \in Ops : Begin(c, op)
                          \/ Spawned(c) \/ Enter(c) \/ Answer(c) \/ Cancel(c)
    \/ \E p \in Procs : Crash(p)
    \/ Disconnect
    \/ Disconnected

Spec == Init /\ [][Next]_vars

\* A subprocess is created or its creation fails, a task that has the lock
\* runs, and a read ends: with a line, at the end of file, or at its timeout.
FairSpec ==
    /\ Spec
    /\ \A c \in Callers : WF_vars(Spawned(c)) /\ WF_vars(Enter(c)) /\ WF_vars(Answer(c))

-----------------------------------------------------------------------------
Task == [phase : {"idle", "spawning", "locking", "reading"}, op : Ops \cup {"none"},
         method : Methods \cup {"none"}, id : Nat, proc : Procs \cup {NoProcess},
         mixed : BOOLEAN]

\* Type invariant.
TypeOK ==
    /\ initialized \in BOOLEAN
    /\ process \in Procs \cup {NoProcess}
    /\ spawned \in 0..MaxProcs
    /\ alive \subseteq 1..spawned
    /\ \A p \in Procs : pipe[p] \in Seq(1..nextId)
    /\ holder \in Callers \cup {None}
    /\ queue \in Seq(Callers)
    /\ nextId \in Nat
    /\ life \in {"open", "closing", "closed"}
    /\ task \in [Callers -> Task]

\* The lock and the tasks agree, whoever is cancelled or times out at which
\* point: only the holder reads, a task waits exactly once in the queue or is
\* the holder that has not run yet, and the lock is not free while one waits.
LockConsistent ==
    /\ \A c \in Callers : task[c].phase = "reading" => holder = c
    /\ \A c \in Callers : task[c].phase = "locking" <=>
           (\E i \in DOMAIN queue : queue[i] = c) \/ (holder = c /\ task[c].phase # "reading")
    /\ \A i, k \in DOMAIN queue : i # k => queue[i] # queue[k]
    /\ holder = None => queue = <<>>

\* The requests in a pipe are in the order of their ids, and the one that the
\* reader waits for is the last of them: a response is never read before its
\* request is written, and never by a caller before the one that wants it.
ReaderIsLast ==
    /\ \A p \in Procs : \A i, k \in DOMAIN pipe[p] : i < k => pipe[p][i] # pipe[p][k]
    /\ \A c \in Callers : (task[c].phase = "reading" /\ task[c].proc \in alive) =>
           LET q == pipe[task[c].proc] IN q # <<>> /\ Last(q) = task[c].id

\* _stdio_lock is there "so concurrent callers can't receive each other's
\* responses": no response is read for another request than its own.
OwnResponse == \A c \in Callers : ~task[c].mixed

\* Every operation ends, wherever the others give up.
EveryCallEnds == \A c \in Callers : (task[c].phase # "idle") ~> (task[c].phase = "idle")
=============================================================================
