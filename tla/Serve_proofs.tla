---------------------------- MODULE Serve_proofs ----------------------------
(***************************************************************************)
(* Serve, for any requests, timeout and grace periods.  The drain is under *)
(* one deadline, and of a server whose turn is over nothing is in flight   *)
(* unless the deadline has passed.                                         *)
(***************************************************************************)
EXTENDS Serve, TLAPS

Made(s) == \E i \in DOMAIN servers : servers[i] = s

\* Time stands still until the drain, and then up to its deadline.
Clock ==
    /\ pc \in {"run", "select"} => elapsed = 0 /\ firstErr = "none"
    /\ pc \in {"stop", "poll", "wait"} =>
          /\ since = 0 /\ deadline = ShutdownTimeout
          /\ elapsed <= deadline
          /\ firstErr # "none" => elapsed = deadline

\* A server whose turn is over, or has come, accepts nothing; what it has left
\* in flight is what the error speaks of, or the public server's error does.
Drain ==
    /\ \A f \in busy : Made(f[1])
    /\ pc = "run" => servers = <<>>
    /\ pc \in {"poll", "wait"} => servers[turn] \in down
    /\ pc \in {"stop", "poll", "wait"} =>
          /\ turn < 2 /\ Made("health") =>
                "health" \in down /\ (InFlight("health") = {}
                                        \/ firstErr # "none")
          /\ turn < 1 /\ Made("public") =>
                "public" \in down /\ (InFlight("public") = {}
                                        \/ firstErr = "public")

\* Nothing happens to a process that has exited.
Ended ==
    /\ pc # "exited" => cut = {}
    /\ pc = "exited" => busy = {}

Inv == TypeOK /\ Clock /\ Drain /\ Ended /\ CutsAreJustified /\ NeverKilled

\* What there is to know of the lists that run makes.
LEMMA Lists ==
    ASSUME NEW list \in {<<>>, <<"public">>, <<"public", "health">>}
    PROVE  /\ Len(list) \in 0..2 /\ DOMAIN list = 1..Len(list)
           /\ Len(list) = 0 => list = <<>>
           /\ Len(list) = 1 => list = <<"public">>
           /\ Len(list) = 2 => list = <<"public", "health">>
           /\ Len(list) >= 1 => list[1] = "public"
           /\ Len(list) >= 2 => list[2] = "health"
           /\ \A i \in DOMAIN list : list[i] \in Server
           /\ (\E i \in DOMAIN list : list[i] = "public") <=> Len(list) >= 1
           /\ (\E i \in DOMAIN list : list[i] = "health") <=> Len(list) = 2
<1>1. CASE list = <<>>
  BY <1>1 DEF Server
<1>2. CASE list = <<"public">>
  BY <1>2 DEF Server
<1>3. CASE list = <<"public", "health">>
  BY <1>3 DEF Server
<1> QED
  BY <1>1, <1>2, <1>3

LEMMA InitInv == Init => Inv
<1> SUFFICES ASSUME Init PROVE Inv
  OBVIOUS
<1>1. DOMAIN servers = {} /\ Len(servers) = 0
  BY DEF Init
<1>2. TypeOK
  <2>1. \A s \in Server :
            loop[s] = "absent" <=> \A i \in DOMAIN servers : servers[i] # s
    BY <1>1 DEF Init
  <2>2. loop \in [Server -> {"absent", "starting", "listening", "ended"}]
    BY DEF Init
  <2>3. grace \in Nat
    BY TimesAssumption DEF Init
  <2>4. turn \in 0..Len(servers)
    BY <1>1 DEF Init
  <2>5. deadline \in Nat /\ elapsed \in Nat /\ since \in 0..elapsed
        /\ elapsed <= grace
    BY <2>3 DEF Init
  <2>6. servers \in {<<>>, <<"public">>, <<"public", "health">>}
    BY DEF Init
  <2>7. firstErr = "none" /\ exit = "none" /\ pc = "run"
        /\ grace \in GracePeriods /\ signalled \in BOOLEAN
    BY DEF Init
  <2>8. down \subseteq Server /\ errCh \subseteq Server /\ busy \subseteq Flight
        /\ served \subseteq Flight /\ cut \subseteq Flight
    BY DEF Init
  <2> QED
    BY <2>1, <2>2, <2>4, <2>5, <2>6, <2>7, <2>8 DEF TypeOK
<1>3. Clock /\ Drain /\ Ended
  BY <1>1 DEF Init, Clock, Drain, Ended, InFlight
<1>4. CutsAreJustified /\ NeverKilled
  BY DEF Init, CutsAreJustified, NeverKilled
<1> QED
  BY <1>2, <1>3, <1>4 DEF Inv

-----------------------------------------------------------------------------
(* The end of the process                                                  *)

\* What has to be known of a process that ends this way.
LEMMA ExitStep ==
    ASSUME Inv, pc # "exited",
           NEW how \in Server \cup {"ok", "config", "listen", "signal",
                                   "killed"},
           Exit(how),
           how \in {"ok", "config", "signal"} => busy = {},
           how = "health" => \A f \in busy : f[1] = "health",
           busy # {} => how \in {"listen", "killed"}
                            \/ elapsed - since >= ShutdownTimeout,
           how = "killed" => grace <= ShutdownTimeout
    PROVE  Inv'
<1>1. TypeOK'
  BY DEF Inv, TypeOK, Exit, Server
<1>2. Clock' /\ Drain' /\ Ended'
  BY DEF Exit, Clock, Drain, Ended
<1>3. CutsAreJustified' /\ NeverKilled'
  BY DEF Exit, CutsAreJustified, NeverKilled, Server
<1> QED
  BY <1>1, <1>2, <1>3 DEF Inv

LEMMA RefuseStep == Inv /\ Refuse => Inv'
<1> SUFFICES ASSUME Inv, Refuse PROVE Inv'
  OBVIOUS
<1>1. busy = {}
  BY DEF Inv, Drain, Refuse, Made
<1> QED
  BY <1>1, ExitStep DEF Refuse

LEMMA ReceiveErrorStep == Inv /\ ReceiveError => Inv'
BY ExitStep DEF ReceiveError

LEMMA KillStep == Inv /\ Kill => Inv'
<1> SUFFICES ASSUME Inv, Kill PROVE Inv'
  OBVIOUS
<1>1. elapsed <= ShutdownTimeout /\ grace <= elapsed /\ elapsed \in Nat
      /\ grace \in Nat
  BY TimesAssumption DEF Inv, TypeOK, Clock, Kill, Running
<1>2. grace <= ShutdownTimeout
  BY <1>1, TimesAssumption
<1> QED
  BY <1>2, ExitStep DEF Kill, Running

\* The last server's turn is over: what is in flight is what the error says.
LEMMA FinishStep == Inv /\ Finish => Inv'
<1> SUFFICES ASSUME Inv, Finish PROVE Inv'
  OBVIOUS
<1>1. \A f \in busy : f[1] \in Server /\ f \in InFlight(f[1]) /\ Made(f[1])
  BY DEF Inv, TypeOK, Flight, InFlight, Drain
<1>2. \A f \in busy : f[1] = "health" => firstErr # "none"
  BY <1>1 DEF Inv, Drain, Finish
<1>3. \A f \in busy : f[1] = "public" => firstErr = "public"
  BY <1>1 DEF Inv, Drain, Finish
<1>4. firstErr = "none" => busy = {}
  BY <1>1, <1>2, <1>3 DEF Server
<1>5. firstErr = "health" => \A f \in busy : f[1] = "health"
  BY <1>1, <1>3 DEF Server
<1>6. firstErr # "none" => elapsed - since >= ShutdownTimeout
  BY TimesAssumption DEF Inv, TypeOK, Clock, Finish
<1>7. firstErr \in Server \cup {"none"}
  BY DEF Inv, TypeOK
<1> QED
  BY <1>4, <1>5, <1>6, <1>7, ExitStep DEF Finish, Server

-----------------------------------------------------------------------------
(* The drain                                                               *)

\* The lists that run makes, at the turn of the loop.
LEMMA Turns ==
    ASSUME TypeOK
    PROVE  /\ turn \in 0..2 /\ Len(servers) \in 0..2 /\ turn <= Len(servers)
           /\ turn = 1 => servers[turn] = "public"
           /\ turn = 2 => servers[turn] = "health"
           /\ Made("public") <=> Len(servers) >= 1
           /\ Made("health") <=> Len(servers) = 2
BY Lists DEF TypeOK, Made

LEMMA BeginStep == Inv /\ Begin => Inv'
<1> SUFFICES ASSUME Inv, Begin PROVE Inv'
  OBVIOUS
<1>1. servers = <<>> /\ turn = 0 /\ busy = {}
  BY Lists DEF Inv, TypeOK, Drain, Begin, Made
<1>2. servers' \in {<<"public">>, <<"public", "health">>} /\ pc' = "select"
      /\ busy' = busy /\ turn' = turn /\ exit' = exit /\ cut' = cut
  BY DEF Begin
<1>3. TypeOK'
  <2>1. loop' \in [Server -> {"absent", "starting", "listening", "ended"}]
    BY DEF Begin
  <2>2. \A s \in Server : loop'[s] = "absent" <=>
            \A i \in DOMAIN servers' : servers'[i] # s
    BY DEF Begin
  <2>3. turn' \in 0..Len(servers')
    BY <1>1, <1>2, Lists
  <2> QED
    BY <2>1, <2>2, <2>3, <1>2 DEF Inv, TypeOK, Begin
<1>4. Clock' /\ Drain' /\ Ended'
  BY <1>1, <1>2 DEF Inv, Clock, Drain, Ended, Begin
<1>5. CutsAreJustified' /\ NeverKilled'
  BY DEF Inv, CutsAreJustified, NeverKilled, Begin
<1> QED
  BY <1>3, <1>4, <1>5 DEF Inv

LEMMA ReceiveSignalStep == Inv /\ ReceiveSignal => Inv'
<1> SUFFICES ASSUME Inv, ReceiveSignal PROVE Inv'
  OBVIOUS
<1>1. elapsed = 0 /\ firstErr = "none" /\ turn' = Len(servers)
      /\ deadline' = ShutdownTimeout /\ ShutdownTimeout \in Nat /\ since' = 0
  BY TimesAssumption DEF Inv, Clock, ReceiveSignal
<1>2. TypeOK'
  <2>1. turn' \in 0..Len(servers)
    BY <1>1, Turns DEF Inv
  <2> QED
    BY <1>1, <2>1 DEF Inv, TypeOK, ReceiveSignal
<1>3. Clock' /\ Ended'
  BY <1>1 DEF Inv, Clock, Ended, ReceiveSignal
<1>4. Drain'
  <2>1. (turn' < 2 => ~Made("health")) /\ (turn' < 1 => ~Made("public"))
    BY <1>1, Turns DEF Inv
  <2> QED
    BY <2>1 DEF Inv, Drain, ReceiveSignal, Made
<1>5. CutsAreJustified' /\ NeverKilled'
  BY DEF Inv, TypeOK, Ended, CutsAreJustified, NeverKilled, ReceiveSignal,
         Server
<1> QED
  BY <1>2, <1>3, <1>4, <1>5 DEF Inv

LEMMA StopStep == Inv /\ Stop => Inv'
<1> SUFFICES ASSUME Inv, Stop PROVE Inv'
  OBVIOUS
<1>1. servers[turn] \in Server /\ turn > 0
  BY Turns DEF Inv, Stop, Server
<1>2. TypeOK'
  BY <1>1 DEF Inv, TypeOK, Stop
<1>3. Clock' /\ Ended'
  BY DEF Inv, Clock, Ended, Stop
<1>4. Drain'
  BY DEF Inv, Drain, Stop, Made, InFlight
<1>5. CutsAreJustified' /\ NeverKilled'
  BY DEF Inv, CutsAreJustified, NeverKilled, Stop
<1> QED
  BY <1>2, <1>3, <1>4, <1>5 DEF Inv

\* Shutdown returns: all is answered, or the deadline has come.
LEMMA ReturnStep ==
    ASSUME Inv, NEW err \in Server \cup {"none"}, Return(err),
           pc \in {"poll", "wait"},
           \/ Quiet /\ err = firstErr
           \/ elapsed >= deadline /\ err = servers[turn]
    PROVE  Inv'
<1>1. turn \in {1, 2} /\ turn' = turn - 1
  BY Turns DEF Inv, TypeOK, Return
<1>2. TypeOK'
  BY <1>1, Turns DEF Inv, TypeOK, Return
<1>3. Clock' /\ Ended'
  BY TimesAssumption DEF Inv, TypeOK, Clock, Ended, Return
<1>4. Drain'
  <2>1. CASE turn = 2
    BY <2>1, <1>1, Turns DEF Inv, Drain, Return, Quiet, InFlight, Made
  <2>2. CASE turn = 1
    BY <2>2, <1>1, Turns DEF Inv, Drain, Return, Quiet, InFlight, Made
  <2> QED
    BY <1>1, <2>1, <2>2
<1>5. CutsAreJustified' /\ NeverKilled'
  BY DEF Inv, CutsAreJustified, NeverKilled, Return
<1> QED
  BY <1>2, <1>3, <1>4, <1>5 DEF Inv

LEMMA PollStep == Inv /\ Poll => Inv'
<1> SUFFICES ASSUME Inv, Poll PROVE Inv'
  OBVIOUS
<1>1. CASE Quiet
  BY <1>1, ReturnStep DEF Inv, TypeOK, Poll
<1>2. CASE ~Quiet
  BY <1>2 DEF Poll, Inv, TypeOK, Clock, Drain, Ended, Made, InFlight,
              CutsAreJustified, NeverKilled
<1> QED
  BY <1>1, <1>2

LEMMA DrainedStep == Inv /\ Drained => Inv'
BY ReturnStep DEF Inv, TypeOK, Drained

LEMMA ExpireStep == Inv /\ Expire => Inv'
<1> SUFFICES ASSUME Inv, Expire PROVE Inv'
  OBVIOUS
<1>1. servers[turn] \in Server
  BY Turns DEF Inv, TypeOK, Expire, Server
<1> QED
  BY <1>1, ReturnStep DEF Expire

-----------------------------------------------------------------------------
(* The rest of the world                                                   *)

LEMMA GoroutineStep ==
    ASSUME Inv, NEW s \in Server, NEW state \in {"listening", "ended"},
           loop[s] # "absent", Goroutine(s, state), errCh' \subseteq Server
    PROVE  Inv'
<1>1. TypeOK'
  <2>1. loop' \in [Server -> {"absent", "starting", "listening", "ended"}]
    BY DEF Inv, TypeOK, Goroutine
  <2>2. \A t \in Server : loop'[t] = "absent" <=> loop[t] = "absent"
    BY DEF Inv, TypeOK, Goroutine
  <2> QED
    BY <2>1, <2>2 DEF Inv, TypeOK, Goroutine
<1>2. Clock' /\ Drain' /\ Ended'
  BY DEF Inv, Clock, Drain, Ended, Goroutine, Made, InFlight
<1>3. CutsAreJustified' /\ NeverKilled'
  BY DEF Inv, CutsAreJustified, NeverKilled, Goroutine
<1> QED
  BY <1>1, <1>2, <1>3 DEF Inv

\* A server that is down gets nothing more to do.
LEMMA ArriveStep ==
    ASSUME Inv, NEW r \in Request, NEW s \in Server, Arrive(r, s)
    PROVE  Inv'
<1>1. s \notin down /\ Made(s)
  BY DEF Inv, TypeOK, Arrive, Serving, Made
<1>2. TypeOK'
  BY DEF Inv, TypeOK, Arrive, Flight
<1>3. Clock' /\ Ended'
  BY DEF Inv, Clock, Ended, Arrive, Running
<1>4. \A t \in Server : t \in down => InFlight(t)' = InFlight(t)
  BY <1>1 DEF Arrive, InFlight
<1>5. Drain'
  BY <1>1, <1>4 DEF Inv, Drain, Arrive, Made, Server
<1>6. CutsAreJustified' /\ NeverKilled'
  BY DEF Inv, CutsAreJustified, NeverKilled, Arrive
<1> QED
  BY <1>2, <1>3, <1>5, <1>6 DEF Inv

LEMMA AnswerStep ==
    ASSUME Inv, NEW f \in busy, Answer(f)
    PROVE  Inv'
<1>1. TypeOK'
  BY DEF Inv, TypeOK, Answer
<1>2. Clock' /\ Drain' /\ Ended'
  BY DEF Inv, Clock, Drain, Ended, Answer, Made, InFlight
<1>3. CutsAreJustified' /\ NeverKilled'
  BY DEF Inv, CutsAreJustified, NeverKilled, Answer
<1> QED
  BY <1>1, <1>2, <1>3 DEF Inv

LEMMA SignalStep == Inv /\ Signal => Inv'
<1> SUFFICES ASSUME Inv, Signal PROVE Inv'
  OBVIOUS
<1>1. CASE pc = "run"
  <2>1. busy = {}
    BY <1>1 DEF Inv, Drain, Made
  <2> QED
    BY <1>1, <2>1, ExitStep DEF Signal
<1>2. CASE pc # "run"
  BY <1>2 DEF Signal, Inv, TypeOK, Clock, Drain, Ended, Made, InFlight,
              CutsAreJustified, NeverKilled
<1> QED
  BY <1>1, <1>2

\* Time passes only while main waits for a server, and no error is seen yet.
LEMMA TickStep == Inv /\ Tick => Inv'
<1> SUFFICES ASSUME Inv, Tick PROVE Inv'
  OBVIOUS
<1>1. pc = "wait" /\ ~(elapsed >= deadline)
  BY DEF Inv, TypeOK, Tick, Running, MainReady
<1>2. elapsed \in Nat /\ deadline \in Nat /\ since = 0
      /\ elapsed + 1 <= deadline
  BY <1>1 DEF Inv, TypeOK, Clock
<1>3. TypeOK'
  BY <1>2 DEF Inv, TypeOK, Tick
<1>4. Clock' /\ Drain' /\ Ended'
  BY <1>1, <1>2 DEF Inv, Clock, Drain, Ended, Tick, Made, InFlight
<1>5. CutsAreJustified' /\ NeverKilled'
  BY <1>1 DEF Inv, TypeOK, Ended, CutsAreJustified, NeverKilled, Tick
<1> QED
  BY <1>3, <1>4, <1>5 DEF Inv

-----------------------------------------------------------------------------
(* The theorems                                                            *)

LEMMA Inductive == Inv /\ [Next]_vars => Inv'
<1> SUFFICES ASSUME Inv, [Next]_vars PROVE Inv'
  OBVIOUS
<1>1. CASE Main
  BY <1>1, RefuseStep, BeginStep, ReceiveErrorStep, ReceiveSignalStep, StopStep,
     PollStep, DrainedStep, ExpireStep, FinishStep DEF Main
<1>2. ASSUME NEW s \in Server, Listen(s) \/ Fail(s) \/ Close(s) PROVE Inv'
  BY <1>2, GoroutineStep DEF Inv, TypeOK, Listen, Fail, Close
<1>3. ASSUME NEW r \in Request, NEW s \in Server, Arrive(r, s) PROVE Inv'
  BY <1>3, ArriveStep
<1>4. ASSUME NEW f \in busy, Answer(f) PROVE Inv'
  BY <1>4, AnswerStep
<1>5. CASE Signal \/ Tick \/ Kill
  BY <1>5, SignalStep, TickStep, KillStep
<1>6. CASE UNCHANGED vars
  BY <1>6 DEF vars, Inv, TypeOK, Clock, Drain, Ended, Made, InFlight,
              CutsAreJustified, NeverKilled
<1> QED
  BY <1>1, <1>2, <1>3, <1>4, <1>5, <1>6 DEF Next

\* All of the above together, the drain with its one deadline included, hold
\* throughout serve.
THEOREM Invariance == Spec => []Inv
BY InitInv, Inductive, PTL DEF Spec

\* main.go, serve: the state of a process keeps its types.
THEOREM TypeCorrect == Spec => []TypeOK
<1>1. Inv => TypeOK
  BY DEF Inv
<1> QED
  BY <1>1, Invariance, PTL

\* serve: no request is broken off but by a failed server, by the orchestrator
\* or after the whole timeout, and the error tells whose.
THEOREM OnlyJustifiedCuts == Spec => []CutsAreJustified
<1>1. Inv => CutsAreJustified
  BY DEF Inv
<1> QED
  BY <1>1, Invariance, PTL

\* serve: with one deadline for all servers, a timeout below the grace period is
\* enough.
THEOREM GoneInTime == Spec => []NeverKilled
<1>1. Inv => NeverKilled
  BY DEF Inv
<1> QED
  BY <1>1, Invariance, PTL

=============================================================================
