------------------------------- MODULE Process -------------------------------
(***************************************************************************)
(* The process (cmd/webhook/main.go) around the refresh loop: reading the  *)
(* configuration, getting the first ticket, serving, and stopping on a     *)
(* signal.  The steps of main, of the goroutine that calls Shutdown, and   *)
(* of the refresh loop interleave; a signal may come at any time.          *)
(*                                                                         *)
(* Requests are Orchestrator's: when main returns the process ends with    *)
(* whatever it was doing for them, which is Orchestrator's Restart.        *)
(***************************************************************************)
EXTENDS KerberosRefresh, Config

VARIABLES
    main,          \* where main is: "start", "auth", "listen", "serve" or "exited"
    signalled,     \* ctx is cancelled
    closed,        \* Shutdown has closed the server's listener
    broken,        \* the listener has failed for good
    code           \* the exit status

processVars == <<main, signalled, closed, broken, code>>
allVars == <<krbVars, env, cfg, processVars>>

Running == main # "exited"
Exit(n) == main' = "exited" /\ code' = n

ProcessInit ==
    /\ KrbInit /\ ConfigInit
    /\ main = "start"
    /\ signalled = FALSE /\ closed = FALSE /\ broken = FALSE
    /\ code = 0

\* config.Load; NotifyContext takes over the signals after it.
ReadConfig ==
    /\ main = "start"
    /\ LoadConfig
    /\ IF cfg'.ok THEN main' = "auth" /\ UNCHANGED code ELSE Exit(1)
    /\ UNCHANGED <<krbVars, signalled, closed, broken>>

\* setupAuth without Kerberos ...
SetupKey ==
    /\ main = "auth" /\ cfg.mode # "gss-tsig"
    /\ main' = "listen"
    /\ UNCHANGED <<krbVars, env, cfg, signalled, closed, broken, code>>

\* ... and with it: one kinit, which a signal does not interrupt; the loop
\* starts.
SetupKerberos ==
    /\ main = "auth" /\ cfg.mode = "gss-tsig"
    /\ BootReady
    /\ main' = "listen"
    /\ UNCHANGED <<env, cfg, signalled, closed, broken, code>>

\* The first kinit, or the client after it, failed.
SetupFails ==
    /\ main = "auth" /\ cfg.mode = "gss-tsig"
    /\ Exit(1)
    /\ UNCHANGED <<krbVars, env, cfg, signalled, closed, broken>>

\* ListenAndServe binds its address; after Shutdown it does not even try.
Listen ==
    /\ main = "listen" /\ ~closed
    /\ main' = "serve"
    /\ UNCHANGED <<krbVars, env, cfg, signalled, closed, broken, code>>

\* Mutant of ListenFails: every return of ListenAndServe is a normal end.
ListenFailsQuietly ==
    /\ main = "listen" \/ (main = "serve" /\ broken)
    /\ ~closed
    /\ Exit(0)
    /\ UNCHANGED <<krbVars, env, cfg, signalled, closed, broken>>

\* ListenAndServe returns another error: it cannot bind, or the listener it
\* serves from fails.  Once Shutdown has begun it returns ErrServerClosed.
ListenFails ==
    /\ main = "listen" \/ (main = "serve" /\ broken)
    /\ ~closed
    /\ Exit(1)
    /\ UNCHANGED <<krbVars, env, cfg, signalled, closed, broken>>

\* Mutant of ServeReturns: main waits until the refresh loop has ended, too.
ServeReturnsWaits ==
    /\ main \in {"listen", "serve"} /\ closed /\ loop = "off"
    /\ Exit(0)
    /\ UNCHANGED <<krbVars, env, cfg, signalled, closed, broken>>

\* ListenAndServe returns ErrServerClosed, and main with it.
ServeReturns ==
    /\ main \in {"listen", "serve"} /\ closed
    /\ Exit(0)
    /\ UNCHANGED <<krbVars, env, cfg, signalled, closed, broken>>

MainStep ==
    ReadConfig \/ SetupKey \/ SetupKerberos \/ SetupFails \/ Listen \/ ListenFails \/ ServeReturns

\* The goroutine that waits for ctx and calls Shutdown.  How long Shutdown
\* then waits for running requests makes no difference to main.
CloseListener ==
    /\ main \in {"listen", "serve"} /\ signalled /\ ~closed
    /\ closed' = TRUE
    /\ UNCHANGED <<krbVars, env, cfg, main, signalled, broken, code>>

\* Accept reports an error that is not temporary.
ListenerBreaks ==
    /\ main = "serve" /\ ~closed /\ ~broken
    /\ broken' = TRUE
    /\ UNCHANGED <<krbVars, env, cfg, main, signalled, closed, code>>

\* SIGINT or SIGTERM.  Before NotifyContext it ends the process.
Signal ==
    /\ Running /\ ~signalled
    /\ signalled' = TRUE
    /\ IF main = "start" THEN Exit(1) ELSE UNCHANGED <<main, code>>
    /\ UNCHANGED <<krbVars, env, cfg, closed, broken>>

\* Mutant of RefreshStep: a kinit that fails is as fatal as the first one.
RefreshStepFatal ==
    /\ Running
    /\ \/ (StartKinit \/ KinitOK) /\ UNCHANGED processVars
       \/ KinitFails /\ Exit(1) /\ UNCHANGED <<signalled, closed, broken>>
    /\ UNCHANGED <<env, cfg>>

\* The refresh loop next to it: its steps, and its end once ctx is cancelled.
RefreshStep ==
    /\ Running
    /\ RefreshLoop
    /\ UNCHANGED <<env, cfg, processVars>>

RefreshEnds ==
    /\ Running /\ signalled
    /\ LoopEnds
    /\ UNCHANGED <<env, cfg, processVars>>

\* Stopping takes no time worth counting; getting the first ticket does.
TimePasses ==
    /\ Running
    /\ main \in {"listen", "serve"} => ~signalled /\ ~broken
    /\ Surroundings
    /\ UNCHANGED <<env, cfg, processVars>>

Ended == ~Running /\ UNCHANGED allVars

ProcessNext ==
    \/ MainStep \/ CloseListener \/ ListenerBreaks \/ Signal
    \/ RefreshStep \/ RefreshEnds \/ TimePasses \/ Ended

\* main and the goroutine that calls Shutdown go on when they can; nothing makes
\* the listener fail.  kinit gives up on a KDC that does not answer.
ProcessFairness == WF_allVars(MainStep) /\ WF_allVars(CloseListener)

ProcessSpec == ProcessInit /\ [][ProcessNext]_allVars /\ ProcessFairness

\* What GET /healthz answers; without Kerberos there is no state to ask.
Healthz ==
    IF cfg.mode # "gss-tsig" THEN [ok |-> TRUE, kerberos |-> "ready"]
    ELSE [ok |-> status = "ready", kerberos |-> status]

-----------------------------------------------------------------------------
(* Properties *)

\* A signal ends the process, whenever it comes: while the first kinit is
\* running, between that and the bind, or while serving.  The server that is
\* told to shut down before it listens does not listen.
SignalStops == signalled ~> ~Running

\* The process says it ended well only if it was told to end; whatever else
\* ends it (configuration, first kinit, client, listener) shows in its status.
CleanEndOnlyOnSignal ==
    ~Running => code = 1 \/ signalled

\* Unless it is told to end or its listener fails, a process that serves goes on
\* serving and renewing its ticket: a KDC that stays away and a ticket that runs
\* out degrade /healthz, and stop neither main nor the loop that could recover.
KeepsServing ==
    [][main = "serve" /\ ~signalled /\ ~broken
       => main' = "serve" /\ (cfg.mode = "gss-tsig" => loop' # "off")]_allVars

\* In gss-tsig mode /healthz answers 200 only while there is a good ticket, from
\* the first request the server takes to its last: no request is taken before
\* the first kinit has succeeded, and no ticket that should last runs out during
\* a sleep of the loop or a running kinit without /healthz saying so.
NeverSilentlyStale ==
    main = "serve" /\ cfg.mode = "gss-tsig" /\ Healthz.ok /\ Outlasts(ccache) => left > 0

=============================================================================
