----------------------------- MODULE Controller -----------------------------
(***************************************************************************)
(* The application that starts, watches and stops the server               *)
(* (VNCController.m).                                                      *)
(*                                                                         *)
(* Everything here runs on the application's main thread: an action is a   *)
(* whole handler, a button, a menu item or a notification.  The server is  *)
(* a process of its own (an NSTask): it dies when it likes, and the        *)
(* application learns of it from a notification that comes later.          *)
(* The application is not set up for a reverse connection of its own       *)
(* (automaticReverseHost), and the launch of the task itself succeeds.     *)
(***************************************************************************)
EXTENDS FiniteSets

CONSTANTS
  Tasks,   \* NSTask objects
  Ports,
  Nil

ASSUME ControllerAssumption == Nil \notin Tasks /\ Ports # {}

VARIABLES
  controller,      \* the NSTask that was launched, Nil when there is none
  procs,           \* the process of each task
  status,          \* what controller.terminationStatus will say
  young,           \* the launch is no more than a second ago
  relaunchServer,
  userStopped,
  keepAlive,       \* serverKeepAliveCheckbox
  settings,        \* the authentication and the port that are chosen
  edit,            \* what was typed into a field that is still being edited
  passwordFile,    \* the password file is there
  launchedWith,    \* the settings on the command line of the server
  notice,          \* "Option Change Requires a Restart" is shown
  observed,        \* the ports whose servers' VNCConnections are listened to
  sheet,           \* the initial authentication sheet is open
  outcome,         \* how startServer: ended the last time
  quit             \* the application has terminated

\* What the user asked since the last launch, for the properties.
VARIABLES restartAsked, lastAsked, answered

serverVars == <<controller, procs, status, young>>
requestVars == <<relaunchServer, userStopped, outcome>>
optionVars == <<keepAlive, settings, edit, passwordFile, launchedWith, notice, sheet>>
askVars == <<restartAsked, lastAsked, answered>>
vars == <<serverVars, requestVars, optionVars, askVars, observed, quit>>

\* "unset": neither a password nor no authentication was ever chosen.
Settings == [auth : {"unset", "password", "noauth"}, port : Ports]
Edits == Ports \cup {"none", "password"}
Refusals == {"sheet", "unwritable"}

TypeOK ==
  /\ controller \in Tasks \cup {Nil}
  /\ procs \in [Tasks -> {"no", "up", "terminating", "dead"}]
  /\ status \in {"low", "other"}
  /\ settings \in Settings /\ launchedWith \in Settings
  /\ edit \in Edits
  /\ outcome \in Refusals \cup {"none", "launched"}
  /\ observed \subseteq Ports
  /\ lastAsked \in {"nothing", "restart", "stop"}
  /\ young \in BOOLEAN /\ relaunchServer \in BOOLEAN /\ userStopped \in BOOLEAN
  /\ keepAlive \in BOOLEAN /\ passwordFile \in BOOLEAN /\ notice \in BOOLEAN
  /\ sheet \in BOOLEAN /\ quit \in BOOLEAN
  /\ restartAsked \in BOOLEAN /\ answered \in BOOLEAN

Alive(t) == procs[t] \in {"up", "terminating"}

Init ==
  /\ controller = Nil
  /\ procs = [t \in Tasks |-> "no"]
  /\ status = "low" /\ young = FALSE
  /\ relaunchServer = FALSE /\ userStopped = FALSE
  /\ keepAlive \in BOOLEAN
  /\ settings \in Settings /\ launchedWith = settings
  /\ edit = "none"
  /\ passwordFile \in BOOLEAN
  /\ notice = FALSE /\ sheet = FALSE
  /\ observed = {}
  /\ outcome = "none"
  /\ quit = FALSE
  /\ restartAsked = FALSE /\ lastAsked = "nothing" /\ answered = FALSE

-----------------------------------------------------------------------------
(* The settings, of which s were chosen, when the field that is being      *)
(* edited has given up its contents.                                       *)
EndedEditing(s) ==
  CASE edit = "none"     -> s
    [] edit = "password" -> [s EXCEPT !.auth = "password"]
    [] OTHER             -> [s EXCEPT !.port = edit]

AuthenticationIsValid(s) == s.auth # "unset"

(* A server is launched.                                                   *)
LaunchesStillStopped(t, now, stillObserved) ==
  /\ controller' = t
  /\ launchedWith' = now
  /\ young' = TRUE
  /\ observed' = stillObserved \cup {now.port}
  /\ restartAsked' = FALSE /\ lastAsked' = "nothing" /\ answered' = FALSE
  /\ UNCHANGED userStopped

Launches(t, now, stillObserved) ==
  /\ controller' = t
  /\ launchedWith' = now
  /\ young' = TRUE
  /\ userStopped' = FALSE
  /\ observed' = stillObserved \cup {now.port}
  /\ restartAsked' = FALSE /\ lastAsked' = "nothing" /\ answered' = FALSE

(* startServer: without a controller, with the settings now on the command *)
(* line, and the password file there or not.  The file may be unwritable.  *)
(* It is called when there never was a controller, with nothing released,  *)
(* and at the end of serverStopped:, when the task that stopped is.        *)
StartsWith(now, t, written, chosen, file, stillOpen, released, stillObserved) ==
  LET result == CASE ~AuthenticationIsValid(now) -> "sheet"
                  [] now.auth = "password" /\ ~written -> "unwritable"
                  [] OTHER -> "launched"
  IN /\ settings' = EndedEditing(chosen)
     /\ edit' = "none"
     /\ passwordFile' = (file \/ (now.auth = "password" /\ written))
     /\ outcome' = result
     /\ sheet' = (stillOpen \/ result = "sheet")
     /\ procs' = [u \in Tasks |-> IF u \in released THEN "no"
                                  ELSE IF u = t /\ result = "launched" THEN "up"
                                  ELSE procs[u]]
     /\ IF result = "launched"
        THEN Launches(t, now, stillObserved)
        ELSE /\ controller' = Nil
             /\ observed' = stillObserved
             /\ UNCHANGED <<launchedWith, young, userStopped, askVars>>

(* It ends the editing before it looks at the settings.                    *)
StartsBeforeEditingEnds(t, written, chosen, file, stillOpen, released, stillObserved) ==
  StartsWith(chosen, t, written, chosen, file, stillOpen, released, stillObserved)

Starts(t, written, chosen, file, stillOpen, released, stillObserved) ==
  StartsWith(EndedEditing(chosen), t, written, chosen, file, stillOpen, released, stillObserved)

(* stopServer: SIGTERM, whoever asks.                                      *)
Terminates ==
  /\ userStopped' = (userStopped \/ controller # Nil)
  /\ procs' = [t \in Tasks |-> IF t = controller /\ procs[t] = "up"
                               THEN "terminating" ELSE procs[t]]

(* startServer: while there is a controller.                               *)
RequestsRestart ==
  /\ relaunchServer' = TRUE
  /\ Terminates
  /\ restartAsked' = TRUE /\ lastAsked' = "restart"

(* The task's object is a new one.                                         *)
Unused(t) == procs[t] = "no" /\ t # controller

-----------------------------------------------------------------------------
(* The Start button, which says Restart while there is a controller.       *)
StartServer(t, written) ==
  /\ ~quit /\ Unused(t)
  /\ IF controller = Nil
     THEN /\ Starts(t, written, settings, passwordFile, sheet, {}, observed)
          /\ UNCHANGED relaunchServer
     ELSE /\ RequestsRestart
          /\ UNCHANGED <<controller, young, settings, edit, passwordFile, launchedWith, sheet,
                         observed, outcome, answered>>
  /\ UNCHANGED <<status, keepAlive, notice, quit>>

StopServer ==
  /\ ~quit
  /\ Terminates
  /\ lastAsked' = IF controller = Nil THEN lastAsked ELSE "stop"
  /\ UNCHANGED <<controller, status, young, relaunchServer, outcome, optionVars,
                 restartAsked, answered, observed, quit>>

(* What is left of the task that stopped is released.                      *)
StartsOrReleases(t, written, starts) ==
  IF starts
  THEN Starts(t, written, settings, passwordFile, sheet, {controller}, observed \ {settings.port})
  ELSE /\ controller' = Nil
       /\ procs' = [procs EXCEPT ![controller] = "no"]
       /\ observed' = observed \ {settings.port}
       /\ UNCHANGED <<young, userStopped, outcome, settings, edit, passwordFile, launchedWith,
                      sheet, askVars>>

(* The notification that the server has terminated.  It is restarted when  *)
(* the user asked for that, or to keep it alive when it stopped by itself, *)
(* with a status that does not speak against it, and more than a second    *)
(* after the launch.                                                       *)
KeepsAliveAnyway == keepAlive /\ status = "low" /\ ~young
KeepsAlive == ~userStopped /\ keepAlive /\ status = "low" /\ ~young

ServerStoppedKeepsRequest(t, written) ==
  /\ ~quit /\ Unused(t)
  /\ controller # Nil /\ procs[controller] = "dead"
  /\ notice' = FALSE
  /\ StartsOrReleases(t, written, relaunchServer \/ KeepsAlive)
  /\ UNCHANGED <<relaunchServer, status, keepAlive, quit>>

ServerStoppedForgets(t, written) ==
  /\ ~quit /\ Unused(t)
  /\ controller # Nil /\ procs[controller] = "dead"
  /\ notice' = FALSE
  /\ relaunchServer' = FALSE
  /\ StartsOrReleases(t, written, KeepsAlive)
  /\ UNCHANGED <<status, keepAlive, quit>>

ServerStopped(t, written) ==
  /\ ~quit /\ Unused(t)
  /\ controller # Nil /\ procs[controller] = "dead"
  /\ notice' = FALSE
  /\ relaunchServer' = FALSE
  /\ StartsOrReleases(t, written, relaunchServer \/ KeepsAlive)
  /\ UNCHANGED <<status, keepAlive, quit>>

(* connectHost: starts a server if there is none; the invitation that it   *)
(* posts is the server's business.                                         *)
ConnectHost(t, written) ==
  /\ ~quit /\ Unused(t)
  /\ IF controller = Nil
     THEN Starts(t, written, settings, passwordFile, sheet, {}, observed)
     ELSE UNCHANGED <<controller, procs, young, userStopped, outcome, settings, edit, passwordFile,
                      launchedWith, sheet, askVars, observed>>
  /\ UNCHANGED <<status, relaunchServer, keepAlive, notice, quit>>

-----------------------------------------------------------------------------
(* checkForRestart                                                         *)
ChecksForRestart == notice' = (notice \/ controller # Nil)

(* A port or an authentication is chosen.  A password that was set is      *)
(* given up for no authentication only, and takes its file along; choosing *)
(* a password without one leaves the choice open.                          *)
ChangeOption(s) ==
  /\ ~quit /\ s # settings
  /\ s.auth = "unset" => settings.auth # "password"
  /\ settings' = s
  /\ passwordFile' = (passwordFile /\ (s.auth = "noauth" => settings.auth = "noauth"))
  /\ ChecksForRestart
  /\ UNCHANGED <<serverVars, requestVars, keepAlive, edit, launchedWith, sheet, askVars,
                 observed, quit>>

ChangeKeepAlive ==
  /\ ~quit
  /\ keepAlive' = ~keepAlive
  /\ ChecksForRestart
  /\ UNCHANGED <<serverVars, requestVars, settings, edit, passwordFile, launchedWith, sheet,
                 askVars, observed, quit>>

(* A port or a password is typed, and the field is left.                   *)
TypeInField(e) ==
  /\ ~quit /\ e # "none"
  /\ edit' = e
  /\ UNCHANGED <<serverVars, requestVars, keepAlive, settings, passwordFile, launchedWith, notice,
                 sheet, askVars, observed, quit>>

LeaveField ==
  /\ ~quit /\ edit # "none"
  /\ settings' = EndedEditing(settings)
  /\ edit' = "none"
  /\ ChecksForRestart
  /\ UNCHANGED <<serverVars, requestVars, keepAlive, passwordFile, launchedWith, sheet, askVars,
                 observed, quit>>

(* setInitialAuthentication: the sheet is answered.  The menu and the      *)
(* preferences work while it is open, so that a server may run already;    *)
(* with startServerOnLaunch it is started or restarted.                    *)
AnswerSheet(t, written, auth, startServerOnLaunch) ==
  LET chosen == [settings EXCEPT !.auth = auth]
      file == passwordFile /\ auth # "noauth"
  IN /\ ~quit /\ sheet /\ Unused(t)
     /\ IF startServerOnLaunch /\ controller = Nil
        THEN /\ Starts(t, written, chosen, file, FALSE, {}, observed)
             /\ UNCHANGED relaunchServer
        ELSE /\ settings' = chosen /\ passwordFile' = file /\ sheet' = FALSE
             /\ answered' = (controller # Nil)
             /\ IF startServerOnLaunch
                THEN RequestsRestart
                ELSE UNCHANGED <<relaunchServer, userStopped, procs, restartAsked, lastAsked>>
             /\ UNCHANGED <<controller, young, outcome, edit, launchedWith, observed>>
     /\ UNCHANGED <<status, keepAlive, notice, quit>>

-----------------------------------------------------------------------------
(* The process dies: because of the signal, or by itself.                  *)
ServerDies(s) ==
  /\ controller # Nil /\ Alive(controller)
  /\ procs' = [procs EXCEPT ![controller] = "dead"]
  /\ status' = s
  /\ UNCHANGED <<controller, young, requestVars, optionVars, askVars, observed, quit>>

SecondPasses ==
  /\ young /\ young' = FALSE
  /\ UNCHANGED <<controller, procs, status, requestVars, optionVars, askVars, observed, quit>>

(* applicationWillTerminate:                                               *)
Quit ==
  /\ ~quit /\ quit' = TRUE
  /\ Terminates
  /\ settings' = EndedEditing(settings)
  /\ edit' = "none"
  /\ lastAsked' = IF controller = Nil THEN lastAsked ELSE "stop"
  /\ ChecksForRestart
  /\ UNCHANGED <<controller, status, young, relaunchServer, outcome, keepAlive, passwordFile,
                 launchedWith, sheet, restartAsked, answered, observed>>

Next ==
  \/ \E t \in Tasks, written \in BOOLEAN : StartServer(t, written)
  \/ StopServer
  \/ \E t \in Tasks, written \in BOOLEAN : ServerStopped(t, written)
  \/ \E t \in Tasks, written \in BOOLEAN : ConnectHost(t, written)
  \/ \E s \in Settings : ChangeOption(s)
  \/ ChangeKeepAlive
  \/ \E e \in Edits : TypeInField(e)
  \/ LeaveField
  \/ \E t \in Tasks, written \in BOOLEAN, auth \in {"password", "noauth"}, start \in BOOLEAN :
       AnswerSheet(t, written, auth, start)
  \/ \E s \in {"low", "other"} : ServerDies(s)
  \/ SecondPasses
  \/ Quit

Spec == Init /\ [][Next]_vars

(* A server that got SIGTERM ends, and the run loop delivers the           *)
(* notification of a task that has ended.                                  *)
ServerEnds == procs[controller] = "terminating" /\ \E s \in {"low", "other"} : ServerDies(s)

Fairness ==
  /\ WF_vars(controller # Nil /\ ServerEnds)
  /\ WF_vars(\E t \in Tasks, written \in BOOLEAN : ServerStopped(t, written))

FairSpec == Spec /\ Fairness

-----------------------------------------------------------------------------
(* There is one server at most, the controller's.                          *)
OneServer == \A t \in Tasks : Alive(t) => t = controller

(* A request to stop or to restart is about the server that runs now: it   *)
(* has been told to end, and nothing is left over for the next one.        *)
RequestIsForThisServer ==
  /\ relaunchServer => controller # Nil /\ userStopped
  /\ controller # Nil /\ userStopped => procs[controller] # "up"

(* The user is told when the server runs with other settings than those    *)
(* that are shown, unless they come from the initial sheet, which does not *)
(* check for that.                                                         *)
NoticeWhenStale ==
  controller # Nil /\ settings # launchedWith => notice \/ answered

(* A server that stopped is relaunched only when the user asked for it, or *)
(* asked for nothing and it ran for more than a second ("If it crashes in  *)
(* less than a second it probably can't launch", VNCController.m 987).     *)
RelaunchIsWanted ==
  [][controller # Nil /\ controller' \notin {controller, Nil}
       => restartAsked \/ (lastAsked = "nothing" /\ ~young)]_vars

Refused == controller = Nil /\ outcome \in Refusals

(* A restart that was asked for ends with a server of its own, or with     *)
(* startServer: telling why not.                                           *)
RestartHappens ==
  relaunchServer ~> (quit \/ (controller # Nil /\ ~userStopped) \/ Refused)

(* A server that the user wants alive and never asked to stop comes back   *)
(* when it dies with a low status after more than a second.                *)
KeepAliveRelaunches ==
  (/\ controller # Nil /\ procs[controller] = "dead" /\ lastAsked = "nothing"
   /\ keepAlive /\ status = "low" /\ ~young)
  ~> (\/ quit \/ ~keepAlive \/ lastAsked # "nothing"
      \/ controller # Nil /\ Alive(controller)
      \/ Refused)

-----------------------------------------------------------------------------
(* What the code does not keep; see the README.  The last request is the   *)
(* one that counts: a stop after a restart is.                             *)
StopIsFinal ==
  [][controller # Nil /\ controller' \notin {controller, Nil} => lastAsked # "stop"]_vars

(* A server that asks for a password finds its file.                       *)
PasswordFileStays ==
  controller # Nil /\ Alive(controller) /\ launchedWith.auth = "password" => passwordFile

(* Nothing is listened to when no server runs.                             *)
ObserversEnd == controller = Nil => observed = {}

(* The user is always told.                                                *)
NoticeAlways == controller # Nil /\ settings # launchedWith => notice
=============================================================================
