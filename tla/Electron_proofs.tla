--------------------------- MODULE Electron_proofs ---------------------------
(***************************************************************************)
(* Proofs about the desktop shell, for every number of connection          *)
(* attempts, windows and launches.                                         *)
(***************************************************************************)
EXTENDS Electron, TLAPS

\* There is room for the window that the start of the server will open, and the
\* main window is one that exists.
Room == start = "pending" => made < MaxWindows
MainExists == mainWindow # None => mainWindow \in windows

\* The child of a running shell is known to it, and a 'close' event that waits
\* to be handled is that of a child that ended.
Known ==
  /\ Running /\ ~ serverProcess => proc \notin {"booting", "serving"}
  /\ closing # "none" => proc = "exited"

\* The tray exists once the server has answered; until then a window is there
\* only if the dock icon was clicked.
Quiet ==
  /\ tray => start = "resolved"
  /\ start = "pending" /\ ~ early => windows = {}

\* The inductive invariant.
ShellInv ==
  /\ TypeOK /\ Room /\ MainExists
  /\ Known /\ NoOrphan
  /\ Quiet /\ OneWindow

-----------------------------------------------------------------------------

\* The initial state satisfies the invariant.
LEMMA InitShell == Init => ShellInv
<1> SUFFICES ASSUME Init PROVE ShellInv
  OBVIOUS
<1>1. TypeOK
  <2>1. check \in [attempts : Nat, flying : Nat, due : Nat]
    BY DEF Init, NoCheck
  <2>2. /\ made \in 0 .. MaxWindows /\ launches \in 0 .. MaxLaunches
        /\ mainWindow \in Ids \cup {None}
    BY ElectronAssumption DEF Init
  <2>3. /\ windows \subseteq Ids /\ shown \subseteq windows
        /\ dialogs \subseteq {"crash", "crashLog", "startup", "startupLog"}
    BY DEF Init
  <2> QED
    BY <2>1, <2>2, <2>3, Zenon DEF Init, TypeOK, Exits
<1>2. Room /\ MainExists
  BY ElectronAssumption DEF Init, Room, MainExists
<1>3. Known /\ NoOrphan /\ Quiet /\ OneWindow
  BY DEF Init, Known, Running, NoOrphan, Quiet, OneWindow
<1> QED
  BY <1>1, <1>2, <1>3 DEF ShellInv

\* The connection attempts are counted in natural numbers.
LEMMA CheckType ==
  ASSUME TypeOK
  PROVE  LET C == [attempts : Nat, flying : Nat, due : Nat]
         IN  /\ NoCheck \in C /\ Attempt(NoCheck) \in C
             /\ check.flying > 0 => \A k \in 0 .. 2 : Over(check, k) \in C
             /\ check.due > 0 => Attempt([check EXCEPT !.due = check.due - 1]) \in C
<1> DEFINE C == [attempts : Nat, flying : Nat, due : Nat]
<1>1. check \in C
  BY DEF TypeOK
<1>2. NoCheck \in C
  BY DEF NoCheck
<1>3. ASSUME NEW c \in C PROVE Attempt(c) \in C
  BY <1>3 DEF Attempt
<1>4. ASSUME check.flying > 0, NEW k \in 0 .. 2 PROVE Over(check, k) \in C
  BY <1>1, <1>4 DEF Over
<1>5. ASSUME check.due > 0 PROVE [check EXCEPT !.due = check.due - 1] \in C
  BY <1>1, <1>5
<1> HIDE DEF C
<1>6. /\ NoCheck \in C /\ Attempt(NoCheck) \in C
      /\ check.due > 0 => Attempt([check EXCEPT !.due = check.due - 1]) \in C
  BY <1>2, <1>3, <1>5
<1> QED
  BY <1>4, <1>6 DEF C

\* What the windows must satisfy, in one place.
Windows ==
  /\ windows \subseteq Ids /\ shown \subseteq windows
  /\ mainWindow \in Ids \cup {None} /\ made \in 0 .. MaxWindows
  /\ MainExists /\ OneWindow

\* A window created when there is room and, unless the dock icon was clicked
\* early, no other window.
LEMMA CreateKeeps ==
  ASSUME ShellInv, made < MaxWindows, CreateWindow, early' \/ windows = {}
  PROVE  Windows'
BY ElectronAssumption
DEF ShellInv, TypeOK, CreateWindow, Windows, Ids, MainExists, OneWindow, None

\* A window that is closed is hidden or, during a quit, destroyed.
LEMMA CloseKeeps ==
  ASSUME ShellInv, NEW w \in windows, CloseOne(w), made' = made, early' = early
  PROVE  /\ Windows'
         /\ windows' \subseteq windows
<1>1. CASE isQuitting
  <2>1. windows' = windows \ {w} /\ shown' = shown \ {w} /\ mainWindow' = None
    BY <1>1 DEF CloseOne
  <2>2. OneWindow'
    BY <2>1 DEF ShellInv, OneWindow
  <2> QED
    BY <2>1, <2>2 DEF ShellInv, TypeOK, Windows, MainExists
<1>2. CASE ~ isQuitting
  BY <1>2 DEF CloseOne, ShellInv, TypeOK, Windows, MainExists, OneWindow
<1> QED
  BY <1>1, <1>2

\* The tray shows the one window there is, or creates it.
LEMMA ShowKeeps ==
  ASSUME ShellInv, Show, early' = early
  PROVE  /\ Windows'
         /\ made' = made \/ made' < MaxWindows
<1>1. CASE mainWindow = None /\ made + 1 < MaxWindows /\ CreateWindow
  <2>1. early' \/ windows = {}
    BY <1>1 DEF ShellInv, TypeOK, OneWindow, Ids, None
  <2>2. made < MaxWindows
    BY <1>1, ElectronAssumption DEF ShellInv, TypeOK
  <2> QED
    BY <1>1, <2>1, <2>2, CreateKeeps DEF CreateWindow
<1>2. CASE mainWindow # None /\ shown' = shown \cup {mainWindow}
           /\ UNCHANGED <<windows, mainWindow, made>>
  BY <1>2 DEF ShellInv, TypeOK, Windows, MainExists, OneWindow
<1> QED
  BY <1>1, <1>2 DEF Show

\* The exit of the shell, or its death, leaves no window.
LEMMA NoWindows ==
  ASSUME windows' = {}, shown' = {}, mainWindow' = None, made' \in 0 .. MaxWindows
  PROVE  Windows'
BY DEF Windows, MainExists, OneWindow

\* Every step keeps the windows in order.
LEMMA StepWindows == ShellInv /\ [Next]_vars => Windows' /\ Room' /\ Quiet'
<1> SUFFICES ASSUME ShellInv, [Next]_vars PROVE Windows' /\ Room' /\ Quiet'
  OBVIOUS
<1> DEFINE Same == UNCHANGED <<wins, start, tray, early>>
<1>a. Windows /\ Room /\ Quiet
  BY DEF ShellInv, Windows, TypeOK
<1>b. ASSUME Same PROVE Windows' /\ Room' /\ Quiet'
  BY <1>a, <1>b DEF Windows, MainExists, OneWindow, Room, Quiet, wins
<1>c. ASSUME Reject, UNCHANGED <<wins, tray, early>> PROVE Windows' /\ Room' /\ Quiet'
  BY <1>a, <1>c DEF Reject, Windows, MainExists, OneWindow, Room, Quiet, wins
<1>d. ASSUME Exit, UNCHANGED <<made, start, early>> PROVE Windows' /\ Room' /\ Quiet'
  BY <1>a, <1>d, NoWindows DEF Exit, Windows, Room, Quiet
<1>e. ASSUME NEW w \in windows, CloseOne(w), UNCHANGED <<made, start, tray, early>>
      PROVE  Windows' /\ Room' /\ Quiet'
  <2>1. Windows' /\ windows' \subseteq windows
    BY <1>e, CloseKeeps
  <2> QED
    BY <1>a, <1>e, <2>1 DEF Room, Quiet
<1>f. ASSUME UNCHANGED <<windows, mainWindow, made, start, tray, early>>, shown' \subseteq windows
      PROVE  Windows' /\ Room' /\ Quiet'
  BY <1>a, <1>f DEF Windows, MainExists, OneWindow, Room, Quiet
<1>1. CASE Launch
  <2>1. windows' = {} /\ shown' = {} /\ mainWindow' = None /\ made' = 0 /\ tray' = FALSE
    BY <1>1 DEF Launch
  <2> QED
    BY <2>1, NoWindows, ElectronAssumption DEF Room, Quiet
<1>2. CASE Connect
  <2>1. CASE start = "pending" /\ start' = "resolved" /\ CreateWindow
    <3>1. early' = early
      BY <1>2 DEF Connect
    <3>2. early' \/ windows = {}
      BY <1>a, <2>1, <3>1 DEF Quiet
    <3>3. Windows'
      BY <1>a, <2>1, <3>2, CreateKeeps DEF Room
    <3> QED
      BY <2>1, <3>3 DEF Room, Quiet
  <2>2. CASE UNCHANGED <<start, app, tray, wins>>
    BY <1>2, <1>b, <2>2 DEF Connect
  <2> QED
    BY <1>2, <2>1, <2>2 DEF Connect
<1>3. CASE ConnectFails
  BY <1>3, <1>b, <1>c DEF ConnectFails
<1>4. CASE SpawnError
  BY <1>4, <1>c DEF SpawnError
<1>5. CASE Retry \/ ServerListens \/ (\E code \in Exits : ServerExits(code)) \/ PortFreed
  BY <1>5, <1>b DEF Retry, ServerListens, ServerExits, PortFreed
<1>6. CASE ServerClose
  <2>1. UNCHANGED <<made, start, early>>
    BY <1>6 DEF ServerClose
  <2>2. CASE Exit
    BY <1>d, <2>1, <2>2
  <2>3. CASE UNCHANGED <<windows, shown, mainWindow, tray>>
    BY <1>b, <2>1, <2>3 DEF wins
  <2>4. CASE mainWindow # None /\ CloseOne(mainWindow) /\ tray' = tray
    <3>1. mainWindow \in windows
      BY <1>a, <2>4 DEF Windows, MainExists
    <3> QED
      BY <1>e, <2>1, <2>4, <3>1
  <2> QED
    BY <1>6, <2>2, <2>3, <2>4 DEF ServerClose
<1>7. CASE QuitTimer
  BY <1>7, <1>d DEF QuitTimer
<1>8. ASSUME NEW quit, NEW rest, AppQuit(quit, rest) PROVE Windows' /\ Room' /\ Quiet'
  <2>1. UNCHANGED <<made, start, early>>
    BY <1>8 DEF AppQuit
  <2>2. CASE Exit
    BY <1>d, <2>1, <2>2
  <2>3. CASE UNCHANGED <<windows, mainWindow, tray>> /\ (shown' = shown \/ shown' = shown \ {mainWindow})
    <3>1. shown' \subseteq windows
      BY <1>a, <2>3 DEF Windows
    <3> QED
      BY <1>f, <2>1, <2>3, <3>1
  <2> QED
    BY <1>8, <2>2, <2>3 DEF AppQuit
<1>9. CASE TrayQuit \/ OsQuit \/ \E d \in dialogs : Dismiss(d)
  BY <1>9, <1>8 DEF TrayQuit, OsQuit, Dismiss
<1>10. CASE \E d \in dialogs : ViewLog(d)
  BY <1>10, <1>b DEF ViewLog
<1>11. CASE Crash
  <2>1. windows' = {} /\ shown' = {} /\ mainWindow' = None /\ UNCHANGED <<made, start, early>> /\ tray' = FALSE
    BY <1>11 DEF Crash
  <2> QED
    BY <1>a, <2>1, NoWindows DEF Windows, Room, Quiet
<1>12. CASE \E w \in windows : UserCloses(w)
  BY <1>12, <1>e DEF UserCloses
<1>13. ASSUME Show, tray, UNCHANGED <<start, tray, early>> PROVE Windows' /\ Room' /\ Quiet'
  <2>1. Windows'
    BY <1>13, ShowKeeps
  <2> QED
    BY <1>a, <1>13, <2>1 DEF Room, Quiet
<1>14. CASE TrayShow
  BY <1>14, <1>13 DEF TrayShow
<1>15. CASE TrayClick
  <2>1. CASE Show
    BY <1>15, <1>13, <2>1 DEF TrayClick
  <2>2. CASE shown' = shown \ {mainWindow} /\ UNCHANGED <<windows, mainWindow, made>>
    <3>1. shown' \subseteq windows
      BY <1>a, <2>2 DEF Windows
    <3> QED
      BY <1>15, <1>f, <2>2, <3>1 DEF TrayClick
  <2> QED
    BY <1>15, <2>1, <2>2 DEF TrayClick
<1>16. CASE Activate
  <2>1. windows = {} /\ made + 1 < MaxWindows /\ CreateWindow /\ UNCHANGED <<start, tray>>
    BY <1>16 DEF Activate
  <2>2. made < MaxWindows /\ made' < MaxWindows
    BY <1>a, <2>1, ElectronAssumption DEF Windows, CreateWindow
  <2>3. Windows'
    BY <2>1, <2>2, CreateKeeps
  <2>4. start = "pending" => early'
    BY <1>16 DEF Activate
  <2> QED
    BY <1>a, <2>1, <2>2, <2>3, <2>4 DEF Room, Quiet
<1>17. CASE UNCHANGED vars
  BY <1>17, <1>b DEF vars
<1> QED
  BY <1>1, <1>2, <1>3, <1>4, <1>5, <1>6, <1>7, <1>9, <1>10, <1>11, <1>12, <1>14, <1>15,
     <1>16, <1>17 DEF Next

\* Every step keeps the child known, and no exit leaves it running.
LEMMA StepServer == ShellInv /\ [Next]_vars => Known' /\ NoOrphan'
<1> SUFFICES ASSUME ShellInv, [Next]_vars PROVE Known' /\ NoOrphan'
  OBVIOUS
<1>a. /\ Running /\ ~ serverProcess => proc \notin {"booting", "serving"}
      /\ closing # "none" => proc = "exited"
      /\ app = "exited" => proc \notin {"booting", "serving"}
  BY DEF ShellInv, Known, NoOrphan
<1>b. ASSUME UNCHANGED server, (Running' => Running) /\ (app' = "exited" => app = "exited")
      PROVE  Known' /\ NoOrphan'
  BY <1>a, <1>b DEF Known, NoOrphan, server
<1>c. ASSUME proc' \notin {"booting", "serving"}, closing' # "none" => proc' = "exited"
      PROVE  Known' /\ NoOrphan'
  BY <1>c DEF Known, NoOrphan
<1>d. ASSUME UNCHANGED <<server, app>> PROVE Known' /\ NoOrphan'
  BY <1>b, <1>d DEF Running
<1>1. CASE Launch
  <2>1. app' = "ready" /\ closing' = "none" /\ (serverProcess' = TRUE \/ proc' = "none")
    BY <1>1 DEF Launch
  <2> QED
    BY <2>1 DEF Known, NoOrphan
<1>2. CASE Connect
  <2>1. Running /\ UNCHANGED server /\ (app' = "up" \/ app' = app)
    BY <1>2 DEF Connect
  <2> QED
    BY <1>b, <2>1
<1>3. CASE ConnectFails \/ Retry \/ (\E d \in dialogs : ViewLog(d)) \/ (\E w \in windows : UserCloses(w))
           \/ TrayShow \/ TrayClick \/ Activate
  BY <1>3, <1>d DEF ConnectFails, Retry, ViewLog, UserCloses, TrayShow, TrayClick, Activate
<1>4. CASE SpawnError \/ \E code \in Exits : ServerExits(code)
  <2>1. proc' = "exited"
    BY <1>4 DEF SpawnError, ServerExits
  <2> QED
    BY <1>c, <2>1
<1>5. CASE ServerListens
  <2>1. proc = "booting" /\ proc' = "serving" /\ UNCHANGED <<app, serverProcess, closing>>
    BY <1>5 DEF ServerListens
  <2> QED
    BY <1>a, <2>1 DEF Known, NoOrphan, Running
<1>6. CASE ServerClose
  <2>1. proc' = proc /\ proc = "exited"
    BY <1>6, <1>a DEF ServerClose
  <2> QED
    BY <1>c, <2>1
<1>7. CASE PortFreed
  <2>1. UNCHANGED <<app, serverProcess, proc, closing>>
    BY <1>7 DEF PortFreed
  <2> QED
    BY <1>a, <2>1 DEF Known, NoOrphan, Running
<1>8. CASE QuitTimer
  <2>1. closing' = "none" /\ proc' = IF proc \in {"booting", "serving"} THEN "exited" ELSE proc
    BY <1>8 DEF QuitTimer
  <2> QED
    BY <1>c, <2>1
<1>9. ASSUME NEW quit, NEW rest, Running, AppQuit(quit, rest) PROVE Known' /\ NoOrphan'
  <2>1. UNCHANGED server /\ (app' = app \/ ~ serverProcess)
    BY <1>9 DEF AppQuit
  <2>2. CASE app' = app
    BY <1>d, <2>1, <2>2
  <2>3. CASE ~ serverProcess
    <3>1. proc' \notin {"booting", "serving"} /\ (closing' # "none" => proc' = "exited")
      BY <1>a, <1>9, <2>1, <2>3 DEF server
    <3> QED
      BY <1>c, <3>1
  <2> QED
    BY <2>1, <2>2, <2>3
<1>10. CASE TrayQuit \/ OsQuit \/ \E d \in dialogs : Dismiss(d)
  BY <1>10, <1>9 DEF TrayQuit, OsQuit, Dismiss
<1>11. CASE Crash
  <2>1. app' = "crashed" /\ closing' = "none"
    BY <1>11 DEF Crash
  <2> QED
    BY <2>1 DEF Known, NoOrphan, Running
<1>12. CASE UNCHANGED vars
  BY <1>12, <1>d DEF vars
<1> QED
  BY <1>1, <1>2, <1>3, <1>4, <1>5, <1>6, <1>7, <1>8, <1>10, <1>11, <1>12 DEF Next

\* The flags.
Flags ==
  /\ dev \in BOOLEAN /\ serverProcess \in BOOLEAN /\ foreign \in BOOLEAN /\ termed \in BOOLEAN
  /\ onClose \in BOOLEAN /\ tray \in BOOLEAN /\ isQuitting \in BOOLEAN /\ early \in BOOLEAN

\* The other variables beside the windows.
Phases ==
  /\ app \in {"ready", "up", "exited", "crashed"}
  /\ start \in {"pending", "resolved", "rejected"}
  /\ check \in [attempts : Nat, flying : Nat, due : Nat]
  /\ proc \in {"none", "unspawned", "booting", "serving", "exited"}
  /\ closing \in {"none"} \cup Exits
  /\ dialogs \subseteq {"crash", "crashLog", "startup", "startupLog"}
  /\ launches \in 0 .. MaxLaunches

\* Every step keeps the flags Boolean.
LEMMA StepFlags == Flags /\ [Next]_vars => Flags'
<1> SUFFICES ASSUME Flags, [Next]_vars PROVE Flags'
  OBVIOUS
<1>1. CASE Launch
  BY <1>1, Zenon DEF Launch, Flags
<1>2. CASE Connect \/ ConnectFails \/ Retry \/ SpawnError
  BY <1>2, Zenon DEF Connect, ConnectFails, Retry, SpawnError, Flags, server, quitting
<1>3. CASE ServerListens \/ PortFreed \/ QuitTimer \/ Crash \/ \E code \in Exits : ServerExits(code)
  BY <1>3, Zenon DEF ServerListens, PortFreed, QuitTimer, Crash, ServerExits, Exit, Flags, quitting
<1>4. CASE ServerClose
  BY <1>4, Zenon DEF ServerClose, Exit, Flags, quitting
<1>5. ASSUME NEW quit \in BOOLEAN, NEW rest, AppQuit(quit, rest) PROVE Flags'
  BY <1>5, Zenon DEF AppQuit, Exit, Flags, server, quitting
<1>6. CASE TrayQuit \/ OsQuit
  BY <1>6, <1>5, Zenon DEF TrayQuit, OsQuit, Flags
<1>7. ASSUME NEW d \in dialogs, Dismiss(d) PROVE Flags'
  <2>1. (isQuitting \/ d \in {"crash", "crashLog"}) \in BOOLEAN
    BY Zenon
  <2> QED
    BY <1>7, <1>5, <2>1, Zenon DEF Dismiss
<1>8. CASE (\E d \in dialogs : ViewLog(d)) \/ (\E w \in windows : UserCloses(w)) \/ TrayShow \/ TrayClick
  BY <1>8, Zenon DEF ViewLog, UserCloses, TrayShow, TrayClick, Flags, server, quitting
<1>9. CASE Activate
  BY <1>9, Zenon DEF Activate, Flags, server, quitting
<1>10. CASE UNCHANGED vars
  BY <1>10, Zenon DEF vars, Flags, server, quitting
<1> QED
  BY <1>1, <1>2, <1>3, <1>4, <1>6, <1>7, <1>8, <1>9, <1>10, Zenon DEF Next

\* Every step keeps the phases among those the code has.
LEMMA StepPhases == ShellInv /\ [Next]_vars => Phases'
<1> SUFFICES ASSUME ShellInv, [Next]_vars PROVE Phases'
  OBVIOUS
<1> DEFINE C == [attempts : Nat, flying : Nat, due : Nat]
<1>a. Phases
  BY DEF ShellInv, TypeOK, Phases
<1>b. /\ NoCheck \in C /\ Attempt(NoCheck) \in C
      /\ check.flying > 0 => \A k \in 0 .. 2 : Over(check, k) \in C
      /\ check.due > 0 => Attempt([check EXCEPT !.due = check.due - 1]) \in C
  BY CheckType DEF ShellInv
<1> HIDE DEF C
<1>c. ASSUME UNCHANGED <<app, start, check, proc, closing, dialogs, launches>> PROVE Phases'
  BY <1>a, <1>c DEF Phases
<1>d. ASSUME Exit, UNCHANGED <<start, launches>>, proc' \in {proc, "exited"},
             closing' \in {closing, "none"}
      PROVE  Phases'
  BY <1>a, <1>b, <1>d DEF Phases, Exit, C
<1>1. CASE Launch
  <2>1. launches' \in 0 .. MaxLaunches
    BY <1>1, <1>a, ElectronAssumption DEF Launch, Phases
  <2>2. check' \in C
    BY <1>1, <1>b DEF Launch
  <2> QED
    BY <1>1, <2>1, <2>2 DEF Launch, Phases, C
<1>2. CASE Connect
  <2>1. check' \in C
    BY <1>2, <1>b DEF Connect
  <2> QED
    BY <1>2, <1>a, <2>1 DEF Connect, Phases, C, server
<1>3. ASSUME Reject PROVE start' \in {"pending", "resolved", "rejected"}
                          /\ dialogs' \subseteq {"crash", "crashLog", "startup", "startupLog"}
  BY <1>3, <1>a DEF Reject, Phases
<1>4. CASE ConnectFails
  <2>1. check' \in C
    BY <1>4, <1>b DEF ConnectFails
  <2>2. start' \in {"pending", "resolved", "rejected"}
        /\ dialogs' \subseteq {"crash", "crashLog", "startup", "startupLog"}
    BY <1>4, <1>a, <1>3 DEF ConnectFails, Phases
  <2> QED
    BY <1>4, <1>a, <2>1, <2>2 DEF ConnectFails, Phases, C, server
<1>5. CASE Retry
  BY <1>5, <1>a, <1>b DEF Retry, Phases, C, server
<1>6. CASE SpawnError
  BY <1>6, <1>a, <1>3 DEF SpawnError, Phases, Exits
<1>7. CASE ServerListens \/ PortFreed \/ \E code \in Exits : ServerExits(code)
  BY <1>7, <1>a DEF ServerListens, PortFreed, ServerExits, Phases
<1>8. CASE ServerClose
  <2>1. UNCHANGED <<start, proc, launches>> /\ closing' = "none"
    BY <1>8 DEF ServerClose
  <2>2. CASE Exit
    BY <1>d, <2>1, <2>2
  <2>3. CASE UNCHANGED <<app, check>> /\ (dialogs' = dialogs \/ dialogs' = dialogs \cup {"crash"})
    BY <1>a, <2>1, <2>3 DEF Phases
  <2> QED
    BY <1>8, <2>2, <2>3 DEF ServerClose
<1>9. CASE QuitTimer
  <2>1. Exit /\ UNCHANGED <<start, launches>> /\ closing' = "none" /\ proc' \in {proc, "exited"}
    BY <1>9 DEF QuitTimer
  <2> QED
    BY <1>d, <2>1
<1>10. ASSUME NEW quit, NEW rest \in SUBSET dialogs, AppQuit(quit, rest) PROVE Phases'
  <2>1. UNCHANGED <<start, launches, proc, closing>>
    BY <1>10 DEF AppQuit, server
  <2>2. CASE Exit
    BY <1>d, <2>1, <2>2
  <2>3. CASE UNCHANGED <<app, check>> /\ dialogs' = rest
    BY <1>a, <1>10, <2>1, <2>3 DEF Phases
  <2> QED
    BY <1>10, <2>2, <2>3 DEF AppQuit
<1>11. CASE TrayQuit \/ OsQuit \/ \E d \in dialogs : Dismiss(d)
  BY <1>11, <1>10 DEF TrayQuit, OsQuit, Dismiss
<1>12. CASE \E d \in dialogs : ViewLog(d)
  BY <1>12, <1>a DEF ViewLog, Phases, server
<1>13. CASE Crash
  BY <1>13, <1>a, <1>b DEF Crash, Phases, C
<1>14. CASE (\E w \in windows : UserCloses(w)) \/ TrayShow \/ TrayClick \/ Activate
  BY <1>14, <1>c DEF UserCloses, TrayShow, TrayClick, Activate, server
<1>15. CASE UNCHANGED vars
  BY <1>15, <1>c DEF vars, server
<1> QED
  BY <1>1, <1>2, <1>4, <1>5, <1>6, <1>7, <1>8, <1>9, <1>11, <1>12, <1>13, <1>14, <1>15 DEF Next

\* The invariant is inductive.
LEMMA StepShell == ShellInv /\ [Next]_vars => ShellInv'
<1> SUFFICES ASSUME ShellInv, [Next]_vars PROVE ShellInv'
  OBVIOUS
<1>1. Flags
  BY Zenon DEF ShellInv, TypeOK, Flags
<1>2. Flags'
  BY <1>1, StepFlags
<1>3. Phases' /\ Windows'
  BY StepPhases, StepWindows
<1>4. TypeOK'
  BY <1>2, <1>3, Zenon DEF TypeOK, Flags, Phases, Windows
<1> QED
  BY <1>3, <1>4, StepWindows, StepServer DEF ShellInv, Windows

\* The invariant holds in every state.
LEMMA ShellAlways == Spec => []ShellInv
BY InitShell, StepShell, PTL DEF Spec

-----------------------------------------------------------------------------

\* The shell's variables keep their types; only windows that exist are visible.
THEOREM TypeCorrect == Spec => []TypeOK
<1>1. ShellInv => TypeOK
  BY DEF ShellInv
<1> QED
  BY <1>1, ShellAlways, PTL

\* However the server takes SIGTERM and in whatever phase of the start a quit
\* comes, an application that exited has no server of its own running.
THEOREM NeverOrphaned == Spec => []NoOrphan
<1>1. ShellInv => NoOrphan
  BY DEF ShellInv
<1> QED
  BY <1>1, ShellAlways, PTL

\* Without an early click on the dock icon there is one window, which the tray
\* reaches, through any sequence of closing, hiding, showing and quitting.
THEOREM OneWindowAlways == Spec => []OneWindow
<1>1. ShellInv => OneWindow
  BY DEF ShellInv
<1> QED
  BY <1>1, ShellAlways, PTL
=============================================================================
