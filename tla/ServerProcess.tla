--------------------------- MODULE ServerProcess ---------------------------
(***************************************************************************)
(* The server process (server.c): main accepts connections and gives each  *)
(* to a detached thread; one of these threads, running handle_client, is   *)
(* followed from accept to close.  Nobody waits for it: when main returns, *)
(* the process and the thread end wherever the thread is.                  *)
(***************************************************************************)
EXTENDS ServerMain, TlsLifecycle

CONSTANT Ours      \* the connection whose thread is followed

ASSUME ProcessAssumption == Ours \in Arrivals

processVars == <<mainVars, tlsVars>>

ProcessInit == MainInit /\ LifecycleInit

Runs == at # "returned"

\* pthread_create has started the thread, and the process goes on.
ThreadRuns == Runs /\ owner[Ours] = "thread"

MainThread == MainNext /\ UNCHANGED tlsVars
ClientThread == ThreadRuns /\ LifecycleNext /\ UNCHANGED mainVars

ProcessNext == MainThread \/ ClientThread

\* Both threads are scheduled; when connections and signals arrive, and how
\* long a client stays logged in, is up to others.
ProcessSpec ==
    /\ ProcessInit /\ [][ProcessNext]_processVars
    /\ WF_processVars(MainRuns /\ UNCHANGED tlsVars)
    /\ WF_processVars(ThreadRuns /\ ThreadStep /\ UNCHANGED mainVars)

-----------------------------------------------------------------------------
\* After SIGINT or SIGTERM main returns: whether the signal comes before,
\* during or after accept, and whatever the clients' threads are doing, no
\* further connection and no client is waited for.
SignalStops == ~running ~> ~Runs

\* No accepted connection is forgotten or hangs before its client is logged in
\* or after its loop has ended: it is served or closed in the end, whatever
\* its peer does, unless the server stops first.
NeverHangs ==
    owner[Ours] # "waiting" /\ pc # "serving" ~>
        \/ owner[Ours] = "closed" \/ pc \in {"serving", "closed"}
        \/ ~Runs
=============================================================================
