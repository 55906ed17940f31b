----------------------------- MODULE Lifecycle -----------------------------
(***************************************************************************)
(* Starting and stopping the server: main (src/main.go), the listeners of  *)
(* SOCKET.Start and CloseSocket (src/server/socket.go) and the Start and   *)
(* Stop of the web server (src/server/web-server.go; HttpsServer differs   *)
(* only in the listener).                                                  *)
(*                                                                         *)
(* A signal makes main put ONE token into stop_chan, of capacity 1.        *)
(* CloseSocket and the web server wait for it, close what is theirs and    *)
(* put it back for the other.  main meanwhile waits on its WaitGroup, but  *)
(* NewNDBServer, NewSocketHandler and NewHttpServer take wg by value: each *)
(* of main, SOCKET and HttpServer counts in a copy of its own.             *)
(*                                                                         *)
(* A process that stops leaves the file of its unix socket behind unless   *)
(* its listener was closed, and the next process cannot listen on a path   *)
(* that exists.  Every step of a goroutine but the steps of Restart and of *)
(* the environment needs a living process.                                 *)
(***************************************************************************)
EXTENDS Integers

CONSTANT MaxRequests   \* bound: HTTP requests in flight

ASSUME LifecycleAssumption == MaxRequests \in Nat \ {0}

VARIABLES main,     \* where main is, or how the process ended
          chan,     \* tokens in stop_chan
          wg,       \* the copies of the WaitGroup: their counters
          unix,     \* goroutine of the unix listener
          tcp,      \* goroutine of the TCP listener: nothing ever closes it
          closer,   \* goroutine of CloseSocket
          web,      \* goroutine of HttpServer.Start
          httpd,    \* goroutine of ListenAndServe
          active,   \* requests in flight
          file      \* the unix socket's file exists

vars == <<main, chan, wg, unix, tcp, closer, web, httpd, active, file>>

Ended == {"returned", "killed", "fatal"}
Alive == main \notin Ended

Boot == /\ main = "sockets" /\ chan = 0
        /\ wg = [main |-> 0, sock |-> 0, web |-> 0]
        /\ unix = "off" /\ tcp = "off" /\ closer = "off"
        /\ web = "off" /\ httpd = "off" /\ active = 0

Init == Boot /\ file \in BOOLEAN

Add(copy, n)  == wg' = [wg EXCEPT ![copy] = @ + n]
Done(copy, n) == wg' = [wg EXCEPT ![copy] = @ - n]

\* log.Fatalf, logs.Fatal: the process is gone, no deferred call runs.
Fatal == main' = "fatal" /\ UNCHANGED <<chan, wg, unix, tcp, closer, web, httpd,
                                        active, file>>

----------------------------------------------------------------------------
(* main *)

Goes(from, to) == main = from /\ main' = to

\* NewSocketHandler spawns the listeners whose path or port is configured.
NewSocketHandler ==
    /\ Goes("sockets", "web")
    /\ unix' \in {"off", "start"} /\ tcp' \in {"off", "start"}
    /\ UNCHANGED <<chan, wg, closer, web, httpd, active, file>>

\* go srv.Start()
StartWeb == /\ Goes("web", "notify")
            /\ web' = "start"
            /\ UNCHANGED <<chan, wg, unix, tcp, closer, httpd, active, file>>

Notify == /\ Goes("notify", "serving")
          /\ UNCHANGED <<chan, wg, unix, tcp, closer, web, httpd, active, file>>

\* SIGINT or SIGTERM: before Notify it ends the process.
Signal == /\ \/ Goes("serving", "signalled")
             \/ main \in {"sockets", "web", "notify"} /\ main' = "killed"
          /\ UNCHANGED <<chan, wg, unix, tcp, closer, web, httpd, active, file>>

SendStop == /\ Goes("signalled", "waiting")
            /\ chan < 1 /\ chan' = chan + 1
            /\ UNCHANGED <<wg, unix, tcp, closer, web, httpd, active, file>>

\* Mutant: one WaitGroup for all, passed by pointer.
ExitAfterAll == /\ Goes("waiting", "returned")
                /\ \A copy \in DOMAIN wg : wg[copy] = 0
                /\ UNCHANGED <<chan, wg, unix, tcp, closer, web, httpd, active,
                               file>>

\* wg.Wait() on main's copy, and the return from main.
Exit == /\ Goes("waiting", "returned")
        /\ wg.main = 0
        /\ UNCHANGED <<chan, wg, unix, tcp, closer, web, httpd, active, file>>

MainStep == NewSocketHandler \/ StartWeb \/ Notify \/ SendStop \/ Exit

----------------------------------------------------------------------------
(* The unix socket *)

UnixListen ==
    /\ Alive /\ unix = "start"
    /\ \/ file /\ Fatal
       \/ /\ ~file /\ file' = TRUE
          /\ Add("sock", 2)
          /\ unix' = "accept" /\ closer' = "start"
          /\ UNCHANGED <<main, chan, tcp, web, httpd, active>>

\* Accept fails with net.ErrClosed once the listener is closed.
UnixClosed == /\ Alive /\ unix = "accept" /\ closer \in {"closed", "done"}
              /\ unix' = "done"
              /\ Done("sock", 2)
              /\ UNCHANGED <<main, chan, tcp, closer, web, httpd, active, file>>

CloserWaits == /\ Alive /\ closer = "start" /\ closer' = "wait"
               /\ Add("sock", 1)
               /\ UNCHANGED <<main, chan, unix, tcp, web, httpd, active, file>>

CloserReceives == /\ Alive /\ closer = "wait" /\ closer' = "closing"
                  /\ chan > 0 /\ chan' = chan - 1
                  /\ UNCHANGED <<main, wg, unix, tcp, web, httpd, active, file>>

\* Mutant: the listener is closed and the file left.
CloseUnixKeepsFile ==
    /\ Alive /\ closer = "closing" /\ closer' = "closed"
    /\ UNCHANGED <<main, chan, wg, unix, tcp, web, httpd, active, file>>

CloseUnix == /\ Alive /\ closer = "closing" /\ closer' = "closed"
             /\ file' = FALSE
             /\ UNCHANGED <<main, chan, wg, unix, tcp, web, httpd, active>>

\* Mutant: the token is not put back.
CloserKeepsToken ==
    /\ Alive /\ closer = "closed" /\ closer' = "done"
    /\ Done("sock", 1)
    /\ UNCHANGED <<main, chan, unix, tcp, web, httpd, active, file>>

CloserPutsBack == /\ Alive /\ closer = "closed" /\ closer' = "done"
                  /\ chan < 1 /\ chan' = chan + 1
                  /\ Done("sock", 1)
                  /\ UNCHANGED <<main, unix, tcp, web, httpd, active, file>>

\* The port may be taken.
TcpListen == /\ Alive /\ tcp = "start"
             /\ \/ Fatal
                \/ /\ tcp' = "accept" /\ Add("sock", 1)
                   /\ UNCHANGED <<main, chan, unix, closer, web, httpd, active, file>>

UnixStep == UnixListen \/ UnixClosed
CloserStep == CloserWaits \/ CloserReceives \/ CloseUnix \/ CloserPutsBack

----------------------------------------------------------------------------
(* The web server *)

WebWaits == /\ Alive /\ web = "start" /\ web' = "wait"
            /\ httpd' = "start"
            /\ Add("web", 1)
            /\ UNCHANGED <<main, chan, unix, tcp, closer, active, file>>

ShuttingDown == web \in {"draining", "stopped", "done"}

\* ListenAndServe fails, or returns ErrServerClosed when Shutdown came first.
Listen == /\ Alive /\ httpd = "start"
          /\ \/ ~ShuttingDown /\ Fatal
             \/ /\ httpd' = IF ShuttingDown THEN "closed" ELSE "serve"
                /\ Add("web", IF ShuttingDown THEN 0 ELSE 1)
                /\ UNCHANGED <<main, chan, unix, tcp, closer, web, active, file>>

ListenReturns == /\ Alive /\ httpd = "serve" /\ ShuttingDown
                 /\ httpd' = "closed"
                 /\ Done("web", 1)
                 /\ UNCHANGED <<main, chan, unix, tcp, closer, web, active, file>>

Request == /\ Alive /\ httpd = "serve" /\ ~ShuttingDown /\ active < MaxRequests
           /\ active' = active + 1
           /\ UNCHANGED <<main, chan, wg, unix, tcp, closer, web, httpd, file>>

Respond == /\ Alive /\ active > 0
           /\ active' = active - 1
           /\ UNCHANGED <<main, chan, wg, unix, tcp, closer, web, httpd, file>>

WebReceives == /\ Alive /\ web = "wait" /\ web' = "draining"
               /\ chan > 0 /\ chan' = chan - 1
               /\ UNCHANGED <<main, wg, unix, tcp, closer, httpd, active, file>>

\* Shutdown waits for the requests in flight, for 10 seconds.
Shutdown == /\ Alive /\ web = "draining"
            /\ \/ active > 0 /\ Fatal
               \/ /\ active = 0 /\ web' = "stopped"
                  /\ UNCHANGED <<main, chan, wg, unix, tcp, closer, httpd, active,
                                 file>>

WebPutsBack == /\ Alive /\ web = "stopped" /\ web' = "done"
               /\ chan < 1 /\ chan' = chan + 1
               /\ Done("web", 1)
               /\ UNCHANGED <<main, unix, tcp, closer, httpd, active, file>>

WebStep == WebWaits \/ WebReceives \/ Shutdown \/ WebPutsBack
HttpdStep == Listen \/ ListenReturns

----------------------------------------------------------------------------

Kill == /\ Alive /\ main' = "killed"
        /\ UNCHANGED <<chan, wg, unix, tcp, closer, web, httpd, active, file>>

\* A new process is started with the file system the last one left.
Restart == /\ ~Alive
           /\ main' = "sockets" /\ chan' = 0
           /\ wg' = [main |-> 0, sock |-> 0, web |-> 0]
           /\ unix' = "off" /\ tcp' = "off" /\ closer' = "off"
           /\ web' = "off" /\ httpd' = "off" /\ active' = 0
           /\ UNCHANGED file

Next == \/ MainStep \/ UnixStep \/ CloserStep \/ TcpListen \/ WebStep
        \/ HttpdStep \/ Request \/ Respond
        \/ Signal \/ Kill \/ Restart

\* Every goroutine that can run is scheduled.
Fairness == /\ WF_vars(MainStep) /\ WF_vars(UnixStep) /\ WF_vars(CloserStep)
            /\ WF_vars(TcpListen) /\ WF_vars(WebStep) /\ WF_vars(HttpdStep)

Spec == Init /\ [][Next]_vars /\ Fairness

----------------------------------------------------------------------------
(* Properties *)

\* The types; no copy of the WaitGroup ever goes below zero (Done panics).
TypeOK ==
    /\ main \in {"sockets", "web", "notify", "serving", "signalled", "waiting"}
                  \cup Ended
    /\ chan \in 0..1
    /\ wg \in [{"main", "sock", "web"} -> 0..4]
    /\ unix \in {"off", "start", "accept", "done"}
    /\ tcp \in {"off", "start", "accept"}
    /\ closer \in {"off", "start", "wait", "closing", "closed", "done"}
    /\ web \in {"off", "start", "wait", "draining", "stopped", "done"}
    /\ httpd \in {"off", "start", "serve", "closed"}
    /\ active \in 0..MaxRequests
    /\ file \in BOOLEAN

Holding(b) == IF b THEN 1 ELSE 0

\* One stop token exists from the signal to the end, in stop_chan or in the
\* hands of one waiter: nobody stops before the signal, no two stop at the same
\* time, and putting it back never blocks.
OneToken ==
    Alive => chan + Holding(closer \in {"closing", "closed"})
                  + Holding(web \in {"draining", "stopped"})
             = Holding(main = "waiting")

\* While the unix socket is served its file exists; a process that closed its
\* listener has left no file.
FileWhileServing ==
    /\ unix = "accept" /\ closer \notin {"closed", "done"} => file
    /\ closer \in {"closed", "done"} => ~file

\* A signal to a serving process ends it, whatever requests are in flight and
\* whoever has the token.
SignalEndsProcess == main = "signalled" ~> ~Alive

\* "force waiters to stop" (src/main.go:72): when main returns, those that
\* waited for the token have stopped.
WaitersStopped ==
    main = "returned" => /\ closer \notin {"wait", "closing", "closed"}
                         /\ web \notin {"wait", "draining", "stopped"}
=============================================================================
