----------------------------- MODULE DaemonLock -----------------------------
(***************************************************************************)
(* Which bossclawd owns a data directory: acquire_or_refuse (lock.rs) and  *)
(* the socket bind of async_main (main.rs).                                *)
(*                                                                         *)
(* A process runs the startup once.  The two shared files are the socket   *)
(* path, which outlives the process that bound it, and the pid file, which *)
(* is created empty and then written.  The code takes no lock around the   *)
(* steps, so the steps of several processes interleave, and each process   *)
(* can die at any of them.                                                 *)
(***************************************************************************)
EXTENDS Naturals, FiniteSets

CONSTANTS
    Procs,        \* daemon processes, launched by the service manager or the app
    Nil           \* no such file

ASSUME NilAssumption == Nil \notin Procs /\ "empty" \notin Procs

VARIABLES
    pc,           \* where each process is
    sock,         \* Nil, or the process whose socket is at the socket path
    lock,         \* Nil, "empty", or the process whose pid is in the lock file
    recycled,     \* dead processes whose pid now belongs to some other program
    stolen,       \* history: live processes whose bound socket was unlinked
    overlap       \* history: a process was launched during another one's startup

vars == <<pc, sock, lock, recycled, stolen, overlap>>

Before == {"new", "connect", "readpid", "rmsock", "rmlock", "create", "write", "bind"}
Holding == {"bound", "listening", "serving"}
Over == {"aside", "failed", "crashed"}

Live(p) == pc[p] \notin {"new"} \cup Over

\* A connect() is answered from listen() on.
answers(p) == pc[p] \in {"listening", "serving"}

is_pid_alive(p) == Live(p) \/ p \in recycled

Goto(p, l) == pc' = [pc EXCEPT ![p] = l]

Overlapping == \E q \in Procs : Live(q) /\ ~answers(q)

\* Seeded fault: the pid file is written before the checks.
LaunchClaimsFirst(p) ==
    /\ pc[p] = "new"
    /\ Goto(p, "connect")
    /\ lock' = p
    /\ overlap' = (overlap \/ Overlapping)
    /\ UNCHANGED <<sock, recycled, stolen>>

\* Seeded fault: whatever is there is reclaimed unchecked.
LaunchReclaims(p) ==
    /\ pc[p] = "new"
    /\ Goto(p, "rmsock")
    /\ overlap' = (overlap \/ Overlapping)
    /\ UNCHANGED <<sock, lock, recycled, stolen>>

launch(p) ==
    /\ pc[p] = "new"
    /\ Goto(p, "connect")
    /\ overlap' = (overlap \/ Overlapping)
    /\ UNCHANGED <<sock, lock, recycled, stolen>>

-----------------------------------------------------------------------------
(* acquire_or_refuse *)

\* (1) A listener that answers is a live owner: step aside.
connect(p) ==
    /\ pc[p] = "connect"
    /\ Goto(p, IF sock # Nil /\ answers(sock) THEN "aside" ELSE "readpid")
    /\ UNCHANGED <<sock, lock, recycled, stolen, overlap>>

\* (2) A live pid in the lock file is a live owner; a missing or half-written
\* file is nobody's.
read_pid(p) ==
    /\ pc[p] = "readpid"
    /\ Goto(p, IF lock \in Procs /\ is_pid_alive(lock) THEN "aside" ELSE "rmsock")
    /\ UNCHANGED <<sock, lock, recycled, stolen, overlap>>

\* (3) Reclaim the socket path, whoever has bound it since (1).
remove_sock(p) ==
    /\ pc[p] = "rmsock"
    /\ sock' = Nil
    /\ stolen' = IF sock # Nil /\ pc[sock] \in Holding THEN stolen \cup {sock} ELSE stolen
    /\ Goto(p, "rmlock")
    /\ UNCHANGED <<lock, recycled, overlap>>

remove_lock(p) ==
    /\ pc[p] = "rmlock"
    /\ lock' = Nil
    /\ Goto(p, "create")
    /\ UNCHANGED <<sock, recycled, stolen, overlap>>

\* fs::write creates or truncates the file, then fills it.
create_lock_file(p) ==
    /\ pc[p] = "create"
    /\ lock' = "empty"
    /\ Goto(p, "write")
    /\ UNCHANGED <<sock, recycled, stolen, overlap>>

\* Seeded fault: the write stops half way through the pid.
WriteHalfPid(p) ==
    /\ pc[p] = "write"
    /\ lock' = "half"
    /\ Goto(p, "bind")
    /\ UNCHANGED <<sock, recycled, stolen, overlap>>

write_lock_file(p) ==
    /\ pc[p] = "write"
    /\ lock' = p
    /\ Goto(p, "bind")
    /\ UNCHANGED <<sock, recycled, stolen, overlap>>

-----------------------------------------------------------------------------
(* bind_socket_0600 *)

\* Seeded fault: the path is unlinked right before the bind.
RebindAlways(p) ==
    /\ pc[p] = "bind"
    /\ sock' = p
    /\ Goto(p, "bound")
    /\ UNCHANGED <<lock, recycled, stolen, overlap>>

\* EADDRINUSE when the path exists, bound by a live process or not: step aside.
bind(p) ==
    /\ pc[p] = "bind"
    /\ IF sock = Nil
       THEN sock' = p /\ Goto(p, "bound")
       ELSE Goto(p, "aside") /\ UNCHANGED sock
    /\ UNCHANGED <<lock, recycled, stolen, overlap>>

listen(p) ==
    /\ pc[p] = "bound"
    /\ Goto(p, "listening")
    /\ UNCHANGED <<sock, lock, recycled, stolen, overlap>>

\* set_permissions by path: fatal if the path is gone.
set_permissions(p) ==
    /\ pc[p] = "listening"
    /\ Goto(p, IF sock = Nil THEN "failed" ELSE "serving")
    /\ UNCHANGED <<sock, lock, recycled, stolen, overlap>>

-----------------------------------------------------------------------------
(* The ways a process ends.  Neither removes the socket path. *)

crash(p) ==
    /\ Live(p)
    /\ Goto(p, "crashed")
    /\ UNCHANGED <<sock, lock, recycled, stolen, overlap>>

\* A panic unwinds async_main and drops the LockGuard, which removes the lock
\* file iff it still holds this pid.
release(p) ==
    /\ pc[p] = "serving"
    /\ Goto(p, "crashed")
    /\ lock' = IF lock = p THEN Nil ELSE lock
    /\ UNCHANGED <<sock, recycled, stolen, overlap>>

recycle_pid(p) ==
    /\ pc[p] \in Over
    /\ recycled' = recycled \cup {p}
    /\ UNCHANGED <<pc, sock, lock, stolen, overlap>>

-----------------------------------------------------------------------------
Init ==
    /\ pc = [p \in Procs |-> "new"]
    /\ sock = Nil
    /\ lock = Nil
    /\ recycled = {}
    /\ stolen = {}
    /\ overlap = FALSE

Startup(p) ==
    \/ launch(p) \/ connect(p) \/ read_pid(p) \/ remove_sock(p) \/ remove_lock(p)
    \/ create_lock_file(p) \/ write_lock_file(p) \/ bind(p) \/ listen(p) \/ set_permissions(p)

Next == \E p \in Procs : Startup(p) \/ crash(p) \/ release(p) \/ recycle_pid(p)

Spec == Init /\ [][Next]_vars

-----------------------------------------------------------------------------
(* Properties *)

\* The paths hold nothing, a process of the model or, for the pid file, the empty
\* file fs::write leaves between its open and its write.
TypeOK ==
    /\ pc \in [Procs -> Before \cup Holding \cup Over]
    /\ sock \in Procs \cup {Nil}
    /\ lock \in Procs \cup {"empty", Nil}
    /\ recycled \subseteq Procs
    /\ stolen \subseteq Procs
    /\ overlap \in BOOLEAN

\* The bind arbitrates between any number of racing startups as long as no
\* startup unlinks a path that was bound after its own checks: two processes
\* hold a socket, or one is cut off from the path, only if that happened.
BindIsMutex ==
    stolen = {} => \A p \in Procs : pc[p] \in Holding => sock = p

\* Racing startups never all step aside: when every launched process has
\* finished starting and none of them died, one of them serves.
SomeoneServes ==
    (/\ recycled = {}
     /\ \A p \in Procs : pc[p] \in {"new", "serving", "aside", "failed"}
     /\ \E p \in Procs : pc[p] # "new")
    => \E p \in Procs : pc[p] = "serving" /\ sock = p

\* The common cases the module doc calls "loud and correct": as long as no
\* process is launched during another one's startup there is one holder at
\* most and it is reachable, whatever dead owners left at both paths.
SequentialSafe ==
    ~overlap => stolen = {} /\ \A p \in Procs : pc[p] \in Holding => sock = p
=============================================================================
