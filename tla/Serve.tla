------------------------------- MODULE Serve -------------------------------
(***************************************************************************)
(* The life of the process (cmd/subpage-proxy/main.go): start-up, one      *)
(* goroutine per HTTP server, the wait for a failure or a signal, and the  *)
(* draining of every server under one deadline.                            *)
(*                                                                         *)
(* net/http and the orchestrator are outside.  Of http.Server only what    *)
(* serve relies on is kept: ListenAndServe fails or serves until Shutdown; *)
(* Shutdown stops accepting, then waits until nothing is in flight or its  *)
(* context ends, and closes nothing that is.  Time is counted from the     *)
(* signal, in ticks long enough for a goroutine that can run to run.       *)
(***************************************************************************)
EXTENDS Integers, Sequences, FiniteSets

CONSTANTS
    Request,          \* requests that may come, to either server
    ShutdownTimeout,  \* HTTP_SHUTDOWN_TIMEOUT, in ticks
    GracePeriods      \* orchestrators', from the signal to the kill

ASSUME TimesAssumption ==
    ShutdownTimeout \in Nat /\ GracePeriods \subseteq Nat

VARIABLES
    grace,      \* stop_grace_period of this deployment
    servers,    \* those that run() made, in its order
    loop,       \* by server: its ListenAndServe goroutine
    down,       \* servers that Shutdown was called on
    errCh,      \* servers whose failure was posted and not received
    signalled,  \* ctx of NotifyContext is done
    pc,         \* where main is
    turn,       \* i of the shutdown loop; 0 when it is over
    deadline,   \* of shutdownCtx
    firstErr,   \* the server whose error serve would return, or "none"
    exit,       \* how the process ended, or "none"
    busy,       \* requests in flight, with their servers
    served,     \* those answered in full
    cut,        \* those the end of the process broke off
    elapsed,    \* ticks since the signal
    since       \* history: elapsed when the drain began

vars == <<grace, servers, loop, down, errCh, signalled, pc, turn, deadline,
          firstErr, exit, busy, served, cut, elapsed, since>>

Server == {"public", "health"}
Flight == Server \X Request

TypeOK ==
    /\ grace \in GracePeriods
    /\ servers \in {<<>>, <<"public">>, <<"public", "health">>}
    /\ loop \in [Server -> {"absent", "starting", "listening", "ended"}]
    /\ \A s \in Server :
          loop[s] = "absent" <=> \A i \in DOMAIN servers : servers[i] # s
    /\ down \subseteq Server /\ errCh \subseteq Server
    /\ signalled \in BOOLEAN
    /\ pc \in {"run", "select", "stop", "poll", "wait", "exited"}
    /\ turn \in 0..Len(servers)
    /\ pc \in {"poll", "wait"} => turn > 0
    /\ deadline \in Nat /\ since \in 0..elapsed
    /\ elapsed \in Nat /\ (elapsed <= grace \/ elapsed <= deadline)
    /\ firstErr \in Server \cup {"none"}
    /\ exit \in Server \cup {"none", "ok", "config", "listen", "signal",
                             "killed"}
    /\ exit = "none" <=> pc # "exited"
    /\ busy \subseteq Flight /\ served \subseteq Flight /\ cut \subseteq Flight

Init ==
    /\ grace \in GracePeriods
    /\ servers = <<>>
    /\ loop = [s \in Server |-> "absent"]
    /\ down = {} /\ errCh = {} /\ signalled = FALSE
    /\ pc = "run" /\ turn = 0 /\ deadline = 0
    /\ firstErr = "none" /\ exit = "none"
    /\ busy = {} /\ served = {} /\ cut = {}
    /\ elapsed = 0 /\ since = 0

-----------------------------------------------------------------------------
(* Main                                                                    *)

\* The process ends, and every goroutine with it.
Exit(how) ==
    /\ pc' = "exited"
    /\ exit' = how
    /\ cut' = busy /\ busy' = {}
    /\ UNCHANGED <<grace, servers, loop, down, errCh, signalled, turn,
                   deadline, firstErr, served, elapsed, since>>

\* run() gives up: the configuration or the handler's parts are refused.
Refuse == pc = "run" /\ Exit("config")

\* MUTANT the health server is made although HEALTH_PORT is 0.
BeginBoth ==
    /\ pc = "run" /\ pc' = "select"
    /\ servers' \in {<<"public">>, <<"public", "health">>}
    /\ loop' = [s \in Server |-> "starting"]
    /\ UNCHANGED <<grace, down, errCh, signalled, turn, deadline, firstErr,
                   exit, busy, served, cut, elapsed, since>>

\* run() hands its servers to serve, whether the panel answered the ping or
\* not; HEALTH_PORT=0 leaves one.
Begin ==
    /\ pc = "run" /\ pc' = "select"
    /\ servers' \in {<<"public">>, <<"public", "health">>}
    /\ loop' = [s \in Server |->
                    IF \E i \in DOMAIN servers' : servers'[i] = s
                    THEN "starting" ELSE "absent"]
    /\ UNCHANGED <<grace, down, errCh, signalled, turn, deadline, firstErr,
                   exit, busy, served, cut, elapsed, since>>

\* select, the branch of a failed server: serve returns at once.
ReceiveError == pc = "select" /\ errCh # {} /\ Exit("listen")

\* select, the other branch; either may be taken when both are ready.
ReceiveSignal ==
    /\ pc = "select" /\ signalled
    /\ pc' = "stop"
    /\ turn' = Len(servers)
    /\ deadline' = elapsed + ShutdownTimeout
    /\ since' = elapsed
    /\ UNCHANGED <<grace, servers, loop, down, errCh, signalled, firstErr,
                   exit, busy, served, cut, elapsed>>

InFlight(s) == {f \in busy : f[1] = s}
Quiet == InFlight(servers[turn]) = {}

\* MUTANT every server gets a timeout of its own.
StopWithFreshTimeout ==
    /\ pc = "stop" /\ turn > 0
    /\ down' = down \cup {servers[turn]}
    /\ pc' = "poll"
    /\ deadline' = elapsed + ShutdownTimeout
    /\ UNCHANGED <<grace, servers, loop, errCh, signalled, turn, firstErr,
                   exit, busy, served, cut, elapsed, since>>

\* Shutdown begins: the server accepts nothing more.
Stop ==
    /\ pc = "stop" /\ turn > 0
    /\ down' = down \cup {servers[turn]}
    /\ pc' = "poll"
    /\ UNCHANGED <<grace, servers, loop, errCh, signalled, turn, deadline,
                   firstErr, exit, busy, served, cut, elapsed, since>>

\* Shutdown returns, and the loop goes on to the server before.
Return(err) ==
    /\ pc' = "stop" /\ turn' = turn - 1
    /\ firstErr' = err
    /\ UNCHANGED <<grace, servers, loop, down, errCh, signalled, deadline,
                   exit, busy, served, cut, elapsed, since>>

\* It looks for open requests before it looks at its context.
Poll ==
    /\ pc = "poll"
    /\ IF Quiet THEN Return(firstErr)
       ELSE /\ pc' = "wait"
            /\ UNCHANGED <<grace, servers, loop, down, errCh, signalled, turn,
                           deadline, firstErr, exit, busy, served, cut,
                           elapsed, since>>

Drained == pc = "wait" /\ Quiet /\ Return(firstErr)

\* MUTANT Shutdown gets the signal's context, which is done already.
ExpireAtOnce == pc = "wait" /\ Return(servers[turn])

\* MUTANT Shutdown gets a context that never ends.
ExpireNever == FALSE /\ Return(servers[turn])

\* The deadline has passed; requests may have ended since the last look.
Expire == pc = "wait" /\ elapsed >= deadline /\ Return(servers[turn])

\* serve returns; the last error seen is the one that came first in servers.
Finish ==
    /\ pc = "stop" /\ turn = 0
    /\ Exit(IF firstErr = "none" THEN "ok" ELSE firstErr)

Main ==
    \/ Refuse \/ Begin
    \/ ReceiveError \/ ReceiveSignal
    \/ Stop \/ Poll \/ Drained \/ Expire \/ Finish

\* Main has something to do, and does it before time passes.
MainReady ==
    CASE pc = "select" -> errCh # {} \/ signalled
      [] pc = "wait" -> Quiet \/ elapsed >= deadline
      [] OTHER -> pc # "exited"

-----------------------------------------------------------------------------
(* The servers' goroutines and their requests                              *)

Running == pc # "exited"

Goroutine(s, state) ==
    /\ Running
    /\ loop' = [loop EXCEPT ![s] = state]
    /\ UNCHANGED <<grace, servers, down, signalled, pc, turn, deadline,
                   firstErr, exit, busy, served, cut, elapsed, since>>

Listen(s) ==
    /\ loop[s] = "starting" /\ s \notin down
    /\ Goroutine(s, "listening")
    /\ UNCHANGED errCh

\* The address is taken, or accepting fails later.
Fail(s) ==
    /\ loop[s] = "starting" \/ (loop[s] = "listening" /\ s \notin down)
    /\ Goroutine(s, "ended")
    /\ errCh' = errCh \cup {s}

\* ErrServerClosed, also when Shutdown came before the listener was up.
Close(s) ==
    /\ loop[s] \in {"starting", "listening"} /\ s \in down
    /\ Goroutine(s, "ended")
    /\ UNCHANGED errCh

Serving(s) == loop[s] = "listening" /\ s \notin down

Arrive(r, s) ==
    /\ Running /\ Serving(s)
    /\ \A t \in Server : <<t, r>> \notin busy \cup served
    /\ busy' = busy \cup {<<s, r>>}
    /\ UNCHANGED <<grace, servers, loop, down, errCh, signalled, pc, turn,
                   deadline, firstErr, exit, served, cut, elapsed, since>>

Answer(f) ==
    /\ f \in busy
    /\ busy' = busy \ {f} /\ served' = served \cup {f}
    /\ UNCHANGED <<grace, servers, loop, down, errCh, signalled, pc, turn,
                   deadline, firstErr, exit, cut, elapsed, since>>

-----------------------------------------------------------------------------
(* The orchestrator and the clock                                          *)

\* SIGTERM or SIGINT.  Before serve asks for it, it ends the process.
Signal ==
    /\ Running /\ ~signalled
    /\ IF pc = "run" THEN Exit("signal")
       ELSE /\ signalled' = TRUE
            /\ UNCHANGED <<grace, servers, loop, down, errCh, pc, turn,
                           deadline, firstErr, exit, busy, served, cut,
                           elapsed, since>>

\* Counted no further than somebody waits for.
Tick ==
    /\ signalled /\ Running /\ ~MainReady
    /\ elapsed < grace \/ elapsed < deadline
    /\ elapsed' = elapsed + 1
    /\ UNCHANGED <<grace, servers, loop, down, errCh, signalled, pc, turn,
                   deadline, firstErr, exit, busy, served, cut, since>>

\* SIGKILL, once the grace period is over.
Kill == Running /\ signalled /\ elapsed >= grace /\ Exit("killed")

Next ==
    \/ Main
    \/ \E s \in Server : Listen(s) \/ Fail(s) \/ Close(s)
    \/ \E r \in Request, s \in Server : Arrive(r, s)
    \/ \E f \in busy : Answer(f)
    \/ Signal \/ Tick \/ Kill

Spec == Init /\ [][Next]_vars

\* Main is scheduled and the clock runs.  Nothing is assumed of listeners,
\* requests, signals or the orchestrator.
FairSpec == Spec /\ WF_vars(Main) /\ WF_vars(Tick)

-----------------------------------------------------------------------------
(* Properties                                                              *)

\* Who is broken off, and what the exit status says of it: nobody, if it is 0
\* or if the run ended before a server was up; only probes of the health
\* server, if the error is its own ("the public server's error wins"); and
\* unless a server failed or the process was killed, nobody before
\* HTTP_SHUTDOWN_TIMEOUT has passed in full, also of the server whose turn comes
\* last, however long the one before took.
CutsAreJustified ==
    /\ exit \in {"ok", "config", "signal"} => cut = {}
    /\ exit = "health" => \A f \in cut : f[1] = "health"
    /\ cut # {} =>
          exit \in {"listen", "killed"} \/ elapsed - since >= ShutdownTimeout

\* One timeout for all servers: the process is gone before the orchestrator
\* kills it, as long as HTTP_SHUTDOWN_TIMEOUT is below stop_grace_period (which
\* the README asks for), with two servers to drain as with one.
NeverKilled == exit = "killed" => grace <= ShutdownTimeout

\* Whatever is in flight, a signal or a failed server ends the process, also
\* when both come at once or before a listener is up.
Exits == (signalled \/ errCh # {}) ~> (pc = "exited")

=============================================================================
