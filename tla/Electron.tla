------------------------------- MODULE Electron -------------------------------
(***************************************************************************)
(* The desktop shell (electron/main.js): it starts the Go server as a      *)
(* child process, waits for its port, shows it in a window that closes to  *)
(* the tray, and takes the server down when the application quits.         *)
(*                                                                         *)
(* A step is one callback of the main process, or something the operating  *)
(* system, the server or the user does.  Electron and Node are external:   *)
(* app.quit() runs the before-quit handlers and, unless one prevents it,   *)
(* closes every window and exits unless a window refuses; app.exit() exits *)
(* at once; a child that ends emits 'close' once.                          *)
(***************************************************************************)
EXTENDS Integers, FiniteSets

CONSTANTS
  MaxRetries,    \* maxRetries of checkServerAvailability
  MaxWindows,    \* bound on the windows created
  MaxLaunches    \* bound on the launches of the application

ASSUME ElectronAssumption ==
  MaxRetries \in Nat \ {0} /\ MaxWindows \in Nat \ {0} /\ MaxLaunches \in Nat \ {0}

None == 0
Ids == 1 .. MaxWindows
Exits == {"ok", "bad"}     \* exit code 0 or null (a signal), any other code

VARIABLES
  dev,           \* NODE_ENV is development: the shell starts no server
  app,           \* "ready", "up", "exited" or "crashed"
  start,         \* the promise of startServer: "pending", "resolved", "rejected"
  check,         \* attempts made, requests under way and retries that are due
  serverProcess, \* a child was spawned and the reference not reset
  proc,          \* that child: "none", "unspawned", "booting", "serving", "exited"
  closing,       \* its 'close' event that has not been handled yet, or "none"
  foreign,       \* some other process answers on the port
  termed,        \* the before-quit handler ran: SIGTERM sent, timer set
  onClose,       \* its 'close' handler is registered
  windows,       \* windows not destroyed
  shown,         \* those that are visible
  mainWindow,
  made,          \* windows created so far
  tray,          \* the tray icon exists
  isQuitting,
  dialogs,       \* message boxes that wait for the user
  early,         \* the dock icon was clicked before the server answered (history)
  launches

server == <<serverProcess, proc, closing, foreign>>
quitting == <<termed, onClose>>
wins == <<windows, shown, mainWindow, made>>
vars == <<dev, app, start, check, server, quitting, wins, tray, isQuitting,
          dialogs, early, launches>>

Running == app \in {"ready", "up"}

NoCheck == [attempts |-> 0, flying |-> 0, due |-> 0]

Init ==
  /\ dev \in BOOLEAN /\ app = "exited" /\ start = "pending" /\ check = NoCheck
  /\ serverProcess = FALSE /\ proc = "none" /\ closing = "none" /\ foreign \in BOOLEAN
  /\ termed = FALSE /\ onClose = FALSE
  /\ windows = {} /\ shown = {} /\ mainWindow = None /\ made = 0
  /\ tray = FALSE /\ isQuitting = FALSE /\ dialogs = {} /\ early = FALSE /\ launches = 0

-----------------------------------------------------------------------------
(* startServer and checkServerAvailability.                                *)

\* tryConnect: one more attempt; an attempt that is over, with the retries it leads to.
Attempt(c) == [attempts |-> c.attempts + 1, flying |-> c.flying + 1, due |-> c.due]
Over(c, retries) == [attempts |-> c.attempts, flying |-> c.flying - 1, due |-> c.due + retries]

\* whenReady: a child left behind by a crash still holds the port.
Launch ==
  /\ app \in {"exited", "crashed"} /\ launches < MaxLaunches
  /\ launches' = launches + 1
  /\ app' = "ready" /\ tray' = FALSE /\ isQuitting' = FALSE /\ early' = FALSE
  /\ termed' = FALSE /\ onClose' = FALSE /\ closing' = "none"
  /\ windows' = {} /\ shown' = {} /\ mainWindow' = None /\ made' = 0
  /\ foreign' = (foreign \/ proc \in {"booting", "serving"})
  /\ \/ /\ dev /\ serverProcess' = FALSE /\ proc' = "none"
        /\ start' = "pending" /\ check' = Attempt(NoCheck) /\ dialogs' = {}
     \/ /\ ~ dev /\ serverProcess' = TRUE /\ proc' \in {"booting", "unspawned"}
        /\ start' = "pending" /\ check' = Attempt(NoCheck) /\ dialogs' = {}
     \/ \* The data directory cannot be created: the promise is rejected.
        /\ ~ dev /\ serverProcess' = FALSE /\ proc' = "none"
        /\ start' = "rejected" /\ check' = NoCheck /\ dialogs' = {"startup"}
  /\ UNCHANGED dev

\* The catch block of whenReady.  A promise is settled once.
Reject ==
  IF start = "pending"
  THEN start' = "rejected" /\ dialogs' = dialogs \cup {"startup"}
  ELSE UNCHANGED <<start, dialogs>>

CreateWindow ==
  /\ made' = made + 1 /\ mainWindow' = made + 1
  /\ windows' = windows \cup {made + 1} /\ shown' = shown \cup {made + 1}

\* Something answers on the port: the promise is resolved, and whenReady goes
\* on to create the tray and the window.
Connect ==
  /\ Running /\ check.flying > 0
  /\ foreign \/ proc = "serving" \/ dev
  /\ check' = Over(check, 0)
  /\ \/ /\ start = "pending"
        /\ start' = "resolved" /\ app' = "up" /\ tray' = TRUE
        /\ CreateWindow
     \/ /\ start # "pending"
        /\ UNCHANGED <<start, app, tray, wins>>
  /\ UNCHANGED <<dev, server, quitting, isQuitting, dialogs, early, launches>>

\* Mutant of ConnectFails: the last attempt rejects nothing.
ConnectGivesUp ==
  /\ Running /\ check.flying > 0
  /\ check' = Over(check, IF check.attempts >= MaxRetries THEN 0 ELSE 1)
  /\ UNCHANGED <<dev, app, start, server, quitting, wins, tray, isQuitting, dialogs, early, launches>>

\* A refused connection is tried again a second later, up to maxRetries; a
\* request that times out is destroyed, which may report an error as well, so
\* that two retries follow.
ConnectFails ==
  /\ Running /\ check.flying > 0
  /\ \E retries \in {1, 2} :
       IF check.attempts >= MaxRetries
       THEN Reject /\ check' = Over(check, 0)
       ELSE /\ check' = Over(check, retries)
            /\ UNCHANGED <<start, dialogs>>
  /\ UNCHANGED <<dev, app, server, quitting, wins, tray, isQuitting, early, launches>>

Retry ==
  /\ Running /\ check.due > 0
  /\ check' = Attempt([check EXCEPT !.due = check.due - 1])
  /\ UNCHANGED <<dev, app, start, server, quitting, wins, tray, isQuitting, dialogs,
                 early, launches>>

\* 'error': the binary could not be spawned; 'close' follows with a negative code.
SpawnError ==
  /\ Running /\ proc = "unspawned"
  /\ proc' = "exited" /\ closing' = "bad"
  /\ Reject
  /\ UNCHANGED <<dev, app, check, serverProcess, foreign, quitting, wins, tray,
                 isQuitting, early, launches>>

-----------------------------------------------------------------------------
(* The server process.                                                     *)

ServerListens ==
  /\ proc = "booting" /\ ~ foreign
  /\ proc' = "serving"
  /\ UNCHANGED <<dev, app, start, check, serverProcess, closing, foreign, quitting, wins,
                 tray, isQuitting, dialogs, early, launches>>

\* It ends by itself, on SIGTERM, or because the port is taken.
ServerExits(code) ==
  /\ proc \in {"booting", "serving"}
  /\ proc' = "exited"
  /\ closing' = IF Running THEN code ELSE "none"
  /\ UNCHANGED <<dev, app, start, check, serverProcess, foreign, quitting, wins,
                 tray, isQuitting, dialogs, early, launches>>

\* What app.exit() leaves.
Exit ==
  /\ app' = "exited"
  /\ windows' = {} /\ shown' = {} /\ mainWindow' = None
  /\ dialogs' = {} /\ tray' = FALSE /\ check' = NoCheck

\* The 'close' handler of a window hides the main window instead, unless the
\* application is quitting; 'closed' forgets the main window.
CloseOne(w) ==
  IF isQuitting
  THEN windows' = windows \ {w} /\ shown' = shown \ {w} /\ mainWindow' = None
  ELSE shown' = shown \ {mainWindow} /\ UNCHANGED <<windows, mainWindow>>

\* 'close' of the server: a crash is reported, after a normal exit the window
\* is closed.  The reference stays.  A handler of before-quit, registered
\* later, runs next and ends the application.
ServerClose ==
  /\ Running /\ closing # "none"
  /\ closing' = "none"
  /\ \/ onClose /\ Exit /\ serverProcess' = FALSE
     \/ /\ ~ onClose
        /\ \/ /\ closing = "bad"
              /\ dialogs' = dialogs \cup {"crash"}
              /\ UNCHANGED <<windows, shown, mainWindow>>
           \/ /\ closing = "ok" /\ mainWindow # None
              /\ CloseOne(mainWindow)
              /\ UNCHANGED dialogs
           \/ /\ closing = "ok" /\ mainWindow = None
              /\ UNCHANGED <<windows, shown, mainWindow, dialogs>>
        /\ UNCHANGED <<app, serverProcess, tray, check>>
  /\ UNCHANGED <<dev, start, proc, foreign, quitting, made, isQuitting, early, launches>>

\* Whatever else held the port ends.
PortFreed ==
  /\ foreign /\ foreign' = FALSE
  /\ UNCHANGED <<dev, app, start, check, serverProcess, proc, closing, quitting, wins, tray,
                 isQuitting, dialogs, early, launches>>

-----------------------------------------------------------------------------
(* Quitting.                                                               *)

\* app.quit(): with a server, before-quit prevents it, asks the server to end
\* and sets the timer; without one every window is closed, and refuses unless
\* isQuitting is set.
AppQuit(quit, rest) ==
  /\ isQuitting' = quit
  /\ \/ /\ serverProcess
        /\ termed' = TRUE /\ onClose' = TRUE
        /\ dialogs' = rest
        /\ UNCHANGED <<app, check, windows, shown, mainWindow, tray>>
     \/ /\ ~ serverProcess /\ (windows = {} \/ quit)
        /\ Exit
        /\ UNCHANGED quitting
     \/ /\ ~ serverProcess /\ windows # {} /\ ~ quit
        /\ shown' = shown \ {mainWindow}
        /\ dialogs' = rest
        /\ UNCHANGED <<app, check, windows, mainWindow, tray, quitting>>
  /\ UNCHANGED <<dev, start, server, made, early, launches>>

\* Mutant of QuitTimer: the application exits, the server is not killed.
QuitTimerSparesServer ==
  /\ Running /\ termed
  /\ closing' = "none"
  /\ Exit
  /\ UNCHANGED <<dev, start, serverProcess, proc, foreign, quitting, made, isQuitting, early, launches>>

\* Mutant of QuitTimer: the server is killed, and its 'close' awaited.
QuitTimerAwaitsClose ==
  /\ Running /\ termed /\ proc \in {"booting", "serving"}
  /\ proc' = "exited" /\ closing' = "ok"
  /\ UNCHANGED <<dev, app, start, check, serverProcess, foreign, quitting, wins, tray, isQuitting,
                 dialogs, early, launches>>

\* Five seconds after SIGTERM.
QuitTimer ==
  /\ Running /\ termed
  /\ proc' = IF proc \in {"booting", "serving"} THEN "exited" ELSE proc
  /\ closing' = "none"
  /\ Exit
  /\ UNCHANGED <<dev, start, serverProcess, foreign, quitting, made, isQuitting, early, launches>>

TrayQuit == Running /\ tray /\ AppQuit(TRUE, dialogs)

\* Quit from the menu of the application or by the operating system.
OsQuit == Running /\ AppQuit(isQuitting, dialogs)

\* A message box offers to quit or to write the log; then only to quit.  After
\* a crash isQuitting is set, after a failed start it is not.
Dismiss(d) ==
  /\ Running /\ d \in dialogs
  /\ AppQuit(isQuitting \/ d \in {"crash", "crashLog"}, dialogs \ {d})

ViewLog(d) ==
  /\ Running /\ d \in dialogs \cap {"crash", "startup"}
  /\ dialogs' = (dialogs \ {d}) \cup {IF d = "crash" THEN "crashLog" ELSE "startupLog"}
  /\ UNCHANGED <<dev, app, start, check, server, quitting, wins, tray, isQuitting, early, launches>>

\* The main process is killed: the server is left running.
Crash ==
  /\ Running
  /\ app' = "crashed" /\ closing' = "none"
  /\ windows' = {} /\ shown' = {} /\ mainWindow' = None
  /\ dialogs' = {} /\ tray' = FALSE /\ check' = NoCheck
  /\ UNCHANGED <<dev, start, serverProcess, proc, foreign, quitting, made, isQuitting,
                 early, launches>>

-----------------------------------------------------------------------------
(* Windows.                                                                *)

UserCloses(w) ==
  /\ Running /\ w \in shown
  /\ CloseOne(w)
  /\ UNCHANGED <<dev, app, start, check, server, quitting, made, tray, isQuitting, dialogs,
                 early, launches>>

\* Mutant of Show: the window may have been destroyed.
ShowUnchecked ==
  /\ shown' = shown \cup {mainWindow}
  /\ UNCHANGED <<windows, mainWindow, made>>

Show ==
  \/ /\ mainWindow = None /\ made + 1 < MaxWindows
     /\ CreateWindow
  \/ /\ mainWindow # None
     /\ shown' = shown \cup {mainWindow}
     /\ UNCHANGED <<windows, mainWindow, made>>

TrayShow ==
  /\ Running /\ tray
  /\ Show
  /\ UNCHANGED <<dev, app, start, check, server, quitting, tray, isQuitting, dialogs, early,
                 launches>>

TrayClick ==
  /\ Running /\ tray
  /\ \/ mainWindow \notin shown /\ Show
     \/ /\ mainWindow \in shown
        /\ shown' = shown \ {mainWindow}
        /\ UNCHANGED <<windows, mainWindow, made>>
  /\ UNCHANGED <<dev, app, start, check, server, quitting, tray, isQuitting, dialogs, early,
                 launches>>

\* Mutant of Activate: windows are not counted.
ActivateUnchecked ==
  /\ Running /\ made + 1 < MaxWindows
  /\ CreateWindow
  /\ early' = (early \/ start = "pending")
  /\ UNCHANGED <<dev, app, start, check, server, quitting, tray, isQuitting, dialogs, launches>>

\* macOS: the dock icon is clicked and there is no window, which is also so
\* while the server is still starting.
Activate ==
  /\ Running /\ windows = {} /\ made + 1 < MaxWindows
  /\ CreateWindow
  /\ early' = (early \/ start = "pending")
  /\ UNCHANGED <<dev, app, start, check, server, quitting, tray, isQuitting, dialogs, launches>>

Next ==
  \/ Launch \/ Connect \/ ConnectFails \/ Retry \/ SpawnError
  \/ ServerListens \/ (\E code \in Exits : ServerExits(code)) \/ ServerClose \/ PortFreed
  \/ QuitTimer \/ TrayQuit \/ OsQuit \/ Crash
  \/ \E d \in dialogs : Dismiss(d) \/ ViewLog(d)
  \/ \E w \in windows : UserCloses(w)
  \/ TrayShow \/ TrayClick \/ Activate

Spec == Init /\ [][Next]_vars

\* Node delivers the events of sockets, timers and children.  The user and the
\* server owe nothing: SIGTERM may be ignored, a message box stay open.
FairSpec ==
  /\ Spec
  /\ WF_vars(Connect \/ ConnectFails) /\ WF_vars(Retry) /\ WF_vars(SpawnError)
  /\ WF_vars(ServerClose) /\ WF_vars(QuitTimer)

-----------------------------------------------------------------------------
(* Properties.                                                             *)

\* Every variable has its type; only windows that exist are visible.
TypeOK ==
  /\ dev \in BOOLEAN /\ serverProcess \in BOOLEAN /\ foreign \in BOOLEAN /\ termed \in BOOLEAN
  /\ onClose \in BOOLEAN /\ tray \in BOOLEAN /\ isQuitting \in BOOLEAN /\ early \in BOOLEAN
  /\ app \in {"ready", "up", "exited", "crashed"}
  /\ start \in {"pending", "resolved", "rejected"}
  /\ check \in [attempts : Nat, flying : Nat, due : Nat]
  /\ proc \in {"none", "unspawned", "booting", "serving", "exited"}
  /\ closing \in {"none"} \cup Exits
  /\ windows \subseteq Ids /\ shown \subseteq windows
  /\ mainWindow \in Ids \cup {None} /\ made \in 0 .. MaxWindows
  /\ dialogs \subseteq {"crash", "crashLog", "startup", "startupLog"}
  /\ launches \in 0 .. MaxLaunches

\* An application that quit, however the server took SIGTERM, in whatever phase
\* of the start, leaves no server of its own behind: the next launch finds the
\* port free and the database unlocked.  (A killed main process does leave it.)
NoOrphan == app = "exited" => proc \notin {"booting", "serving"}

\* The shell never has two windows, and the tray can reach the one it has; a
\* click on the dock icon before the server answers is the exception.
OneWindow == ~ early => windows \subseteq {mainWindow}

\* A quit ends the application: a server that is slow, hung or already dead
\* cannot keep it alive.
QuitEnds == (Running /\ isQuitting) ~> ~ Running

\* The start never hangs: within its retries it comes up or reports a failure.
StartupAnswers == (Running /\ start = "pending") ~> (start # "pending" \/ ~ Running)
=============================================================================
