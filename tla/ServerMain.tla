----------------------------- MODULE ServerMain -----------------------------
(***************************************************************************)
(* main of server.c: the accept loop, and stop_server, the handler of      *)
(* SIGINT and SIGTERM.  Both signals are handled by the main thread, which *)
(* the handler interrupts between any two steps; they may nest.  A handler *)
(* is reset when it runs (signal without BSD semantics, as -std=c17 gives  *)
(* it), so each signal is handled once.                                    *)
(***************************************************************************)
EXTENDS Integers, Sequences

CONSTANTS
    Signals,       \* the signals that may arrive
    Arrivals       \* connections that may arrive

VARIABLES
    at,            \* where main is
    handlers,      \* the steps of the handlers under way, innermost first
    unsent,        \* signals that have not arrived
    interrupted,   \* has a signal arrived during the call of accept?
    running,
    server_fd,     \* is the variable set (not -1)?
    argument,      \* the same when accept was called
    listener,      \* the listening socket: "none", "open", "closed"
    owner          \* Arrivals -> who has the connection

mainVars == <<at, handlers, unsent, interrupted, running, server_fd, argument,
              listener, owner>>

MainInit ==
    /\ at = "start" /\ handlers = <<>> /\ unsent = Signals
    /\ interrupted = FALSE /\ running = TRUE
    /\ server_fd = FALSE /\ argument = FALSE /\ listener = "none"
    /\ owner = [a \in Arrivals |-> "waiting"]

-----------------------------------------------------------------------------
(***************************************************************************)
(* stop_server                                                             *)
(***************************************************************************)
Stop(s) ==
    /\ s \in unsent /\ at # "returned"
    /\ unsent' = unsent \ {s}
    /\ interrupted' = (at = "accepting")
    /\ running' = FALSE
    /\ handlers' = <<"test">> \o handlers
    /\ UNCHANGED <<at, server_fd, argument, listener, owner>>

HandlerAt(step) == handlers # <<>> /\ Head(handlers) = step
HandlerGoto(step) == handlers' = <<step>> \o Tail(handlers)

HandlerStep ==
    /\ \/ /\ HandlerAt("test")
          /\ IF server_fd THEN HandlerGoto("close") ELSE handlers' = Tail(handlers)
          /\ UNCHANGED <<server_fd, listener>>
       \/ /\ HandlerAt("close")
          /\ HandlerGoto("clear")
          /\ listener' = "closed"
          /\ UNCHANGED server_fd
       \/ /\ HandlerAt("clear")
          /\ handlers' = Tail(handlers)
          /\ server_fd' = FALSE
          /\ UNCHANGED listener
    /\ UNCHANGED <<at, unsent, interrupted, running, argument, owner>>

(***************************************************************************)
(* main, which stands still while a handler runs.                          *)
(***************************************************************************)
MainAt(step) == handlers = <<>> /\ at = step
Unchanged == UNCHANGED <<handlers, unsent, running>>

\* create_server_socket, which may fail and then returns -1.
CreateSocket ==
    /\ MainAt("start")
    /\ \/ at' = "assign" /\ listener' = "open"
       \/ at' = "returned" /\ UNCHANGED listener
    /\ Unchanged /\ UNCHANGED <<interrupted, server_fd, argument, owner>>

AssignSocket ==
    /\ MainAt("assign")
    /\ server_fd' = TRUE
    /\ at' = "loop"
    /\ Unchanged /\ UNCHANGED <<interrupted, argument, listener, owner>>

Loop ==
    /\ MainAt("loop")
    /\ at' = IF running THEN "call" ELSE "end"
    /\ Unchanged
    /\ UNCHANGED <<interrupted, server_fd, argument, listener, owner>>

CallAccept ==
    /\ MainAt("call")
    /\ at' = "accepting"
    /\ argument' = server_fd /\ interrupted' = FALSE
    /\ Unchanged /\ UNCHANGED <<server_fd, listener, owner>>

\* Mutant: the loop goes on after every failure.
AfterFailureGoesOn == "call"

AfterFailure == IF running THEN "loop" ELSE "end"

\* accept fails: interrupted, a closed or bad descriptor, or without cause.
AcceptFails ==
    /\ MainAt("accepting")
    /\ at' = AfterFailure
    /\ Unchanged
    /\ UNCHANGED <<interrupted, server_fd, argument, listener, owner>>

CanAccept == argument /\ listener = "open" /\ ~interrupted

AcceptSucceeds ==
    /\ MainAt("accepting")
    /\ CanAccept
    /\ \E a \in Arrivals :
          /\ owner[a] = "waiting"
          /\ owner' = [owner EXCEPT ![a] = "main"]
    /\ at' = "hand_on"
    /\ Unchanged /\ UNCHANGED <<interrupted, server_fd, argument, listener>>

\* Mutant: without memory or a thread the connection is forgotten.
OwnersWithoutClose == {"thread", "main"}

\* A thread takes the connection, or it is closed at once.
Owners == {"thread", "closed"}

HandOn ==
    /\ MainAt("hand_on")
    /\ \E a \in Arrivals, new \in Owners :
          /\ owner[a] = "main"
          /\ owner' = [owner EXCEPT ![a] = new]
    /\ at' = "loop"
    /\ Unchanged
    /\ UNCHANGED <<interrupted, server_fd, argument, listener>>

\* Mutant: main relies on the handler to have closed the socket.
EndReturns ==
    /\ MainAt("end")
    /\ at' = "returned"
    /\ Unchanged
    /\ UNCHANGED <<interrupted, server_fd, argument, listener, owner>>

\* The socket is closed here if the handler found it not yet assigned.
End ==
    /\ MainAt("end")
    /\ at' = IF server_fd THEN "closing" ELSE "returned"
    /\ Unchanged
    /\ UNCHANGED <<interrupted, server_fd, argument, listener, owner>>

CloseListener ==
    /\ MainAt("closing")
    /\ listener' = "closed"
    /\ at' = "returned"
    /\ Unchanged
    /\ UNCHANGED <<interrupted, server_fd, argument, owner>>

-----------------------------------------------------------------------------
\* What runs without waiting; an interrupted or impossible accept returns.
MainRuns ==
    \/ HandlerStep \/ CreateSocket \/ AssignSocket \/ Loop \/ CallAccept
    \/ AcceptFails /\ ~CanAccept
    \/ HandOn \/ End \/ CloseListener

MainNext ==
    \/ \E s \in Signals : Stop(s)
    \/ MainRuns \/ AcceptFails \/ AcceptSucceeds

-----------------------------------------------------------------------------
\* The listening socket is open as long as the server is to run, and closed
\* when main returns, at whatever point a signal has interrupted it: also
\* before server_fd was assigned, when the handler cannot close it.
ListenerReleased ==
    /\ listener = "closed" => ~running
    /\ at = "returned" => listener # "open"
=============================================================================
