-------------------------- MODULE ControllerProofs --------------------------
(***************************************************************************)
(* What Controller keeps for any number of tasks and ports.                *)
(*                                                                         *)
(* The invariants hold because no task but the controller's has a process, *)
(* a pending relaunch was asked for by the user, and whoever asked this    *)
(* server for anything has set userStopped.                                *)
(***************************************************************************)
EXTENDS Controller, TLAPS

OnlyTheControllers ==
  /\ \A t \in Tasks : procs[t] # "no" => t = controller
  /\ controller # Nil => procs[controller] # "no"

RequestsAreTheUsers ==
  /\ relaunchServer => restartAsked
  /\ controller # Nil /\ ~userStopped => lastAsked = "nothing"

IInv ==
  /\ TypeOK
  /\ OnlyTheControllers
  /\ RequestIsForThisServer
  /\ RequestsAreTheUsers
  /\ NoticeWhenStale

-----------------------------------------------------------------------------
LEMMA EndedEditingType ==
  ASSUME TypeOK, NEW s \in Settings PROVE EndedEditing(s) \in Settings
<1>1. CASE edit = "none"
  BY <1>1 DEF EndedEditing
<1>2. CASE edit # "none" /\ edit = "password"
  BY <1>2 DEF EndedEditing, Settings
<1>3. CASE edit # "none" /\ edit # "password"
  BY <1>3 DEF EndedEditing, Settings, TypeOK, Edits
<1> QED BY <1>1, <1>2, <1>3

(* startServer: without a controller: either a server is launched with the *)
(* settings that are shown, and nothing is asked of it yet, or there is no *)
(* controller.                                                             *)
Started(t) ==
  /\ settings' \in Settings /\ edit' \in Edits /\ passwordFile' \in BOOLEAN
  /\ outcome' \in Refusals \cup {"none", "launched"} /\ sheet' \in BOOLEAN
  /\ procs' \in [Tasks -> {"no", "up", "terminating", "dead"}]
  /\ observed' \subseteq Ports
  /\ launchedWith' \in Settings /\ young' \in BOOLEAN /\ userStopped' \in BOOLEAN
  /\ restartAsked' \in BOOLEAN /\ answered' \in BOOLEAN
  /\ lastAsked' \in {"nothing", "restart", "stop"}
  /\ \/ /\ controller' = t /\ settings' = launchedWith'
        /\ userStopped' = FALSE /\ lastAsked' = "nothing"
        /\ \A u \in Tasks : procs'[u] = IF u = t THEN "up" ELSE "no"
     \/ controller' = Nil /\ \A u \in Tasks : procs'[u] = "no"

LEMMA StartsLemma ==
  ASSUME TypeOK, OnlyTheControllers,
         NEW t \in Tasks, NEW written \in BOOLEAN, NEW chosen \in Settings,
         NEW file \in BOOLEAN, NEW stillOpen \in BOOLEAN, NEW released, NEW stillObserved,
         stillObserved \subseteq Ports,
         released = IF controller = Nil THEN {} ELSE {controller},
         Unused(t),
         Starts(t, written, chosen, file, stillOpen, released, stillObserved)
  PROVE  Started(t)
<1> USE DEF Started
<1> DEFINE now == EndedEditing(chosen)
           result == CASE ~AuthenticationIsValid(now) -> "sheet"
                       [] now.auth = "password" /\ ~written -> "unwritable"
                       [] OTHER -> "launched"
<1>1. now \in Settings
  BY EndedEditingType
<1>2. StartsWith(now, t, written, chosen, file, stillOpen, released, stillObserved)
  BY DEF Starts
<1>3. result \in {"sheet", "unwritable", "launched"}
  OBVIOUS
<1>4. /\ settings' = now
      /\ edit' = "none"
      /\ passwordFile' = (file \/ (now.auth = "password" /\ written))
      /\ outcome' = result
      /\ sheet' = (stillOpen \/ result = "sheet")
      /\ procs' = [u \in Tasks |-> IF u \in released THEN "no"
                                   ELSE IF u = t /\ result = "launched" THEN "up"
                                   ELSE procs[u]]
      /\ IF result = "launched"
         THEN Launches(t, now, stillObserved)
         ELSE /\ controller' = Nil
              /\ observed' = stillObserved
              /\ UNCHANGED <<launchedWith, young, userStopped, askVars>>
  BY <1>2 DEF StartsWith
<1> HIDE DEF now, result
<1>5. /\ settings' \in Settings /\ edit' \in Edits /\ passwordFile' \in BOOLEAN
      /\ outcome' \in Refusals \cup {"none", "launched"} /\ sheet' \in BOOLEAN
  BY <1>1, <1>3, <1>4 DEF Edits, Refusals
<1>6. procs' \in [Tasks -> {"no", "up", "terminating", "dead"}]
  BY <1>4 DEF TypeOK
<1>7. CASE result = "launched"
  <2>1. Launches(t, now, stillObserved)
    BY <1>4, <1>7
  <2>2. now.port \in Ports
    BY <1>1 DEF Settings
  <2>3. /\ controller' = t /\ settings' = launchedWith'
        /\ userStopped' = FALSE /\ lastAsked' = "nothing"
        /\ launchedWith' \in Settings /\ young' \in BOOLEAN
        /\ restartAsked' \in BOOLEAN /\ answered' \in BOOLEAN
        /\ observed' \subseteq Ports
    BY <1>1, <1>4, <2>1, <2>2 DEF Launches
  <2>4. \A u \in Tasks : procs'[u] = IF u = t THEN "up" ELSE "no"
    BY <1>4, <1>7, ControllerAssumption DEF OnlyTheControllers, Unused, TypeOK
  <2> QED BY <1>5, <1>6, <2>3, <2>4
<1>8. CASE result # "launched"
  <2>1. /\ controller' = Nil /\ observed' \subseteq Ports
        /\ launchedWith' \in Settings /\ young' \in BOOLEAN /\ userStopped' \in BOOLEAN
        /\ restartAsked' \in BOOLEAN /\ answered' \in BOOLEAN
        /\ lastAsked' \in {"nothing", "restart", "stop"}
    BY <1>4, <1>8 DEF TypeOK, askVars
  <2>2. \A u \in Tasks : procs'[u] = "no"
    BY <1>4, <1>8, ControllerAssumption DEF OnlyTheControllers, Unused, TypeOK
  <2> QED BY <1>5, <1>6, <2>1, <2>2
<1> QED BY <1>7, <1>8

(* After startServer: the invariant holds if no relaunch is pending.       *)
LEMMA StartsKeepsIInv ==
  ASSUME TypeOK, OnlyTheControllers,
         NEW t \in Tasks, NEW written \in BOOLEAN, NEW chosen \in Settings,
         NEW file \in BOOLEAN, NEW stillOpen \in BOOLEAN, NEW released, NEW stillObserved,
         stillObserved \subseteq Ports,
         released = IF controller = Nil THEN {} ELSE {controller},
         Unused(t),
         Starts(t, written, chosen, file, stillOpen, released, stillObserved),
         relaunchServer' = FALSE, notice' \in BOOLEAN,
         UNCHANGED <<status, keepAlive, quit>>
  PROVE  IInv'
<1>1. Started(t)
  BY StartsLemma
<1>2. TypeOK'
  BY <1>1 DEF Started, TypeOK
<1>3. OnlyTheControllers'
  BY <1>1, ControllerAssumption DEF Started, OnlyTheControllers
<1>4. RequestIsForThisServer' /\ RequestsAreTheUsers' /\ NoticeWhenStale'
  BY <1>1 DEF Started, RequestIsForThisServer, RequestsAreTheUsers, NoticeWhenStale
<1> QED BY <1>2, <1>3, <1>4 DEF IInv

(* stopServer                                                              *)
LEMMA TerminatesLemma ==
  ASSUME TypeOK, OnlyTheControllers, Terminates, controller' = controller
  PROVE  /\ procs' \in [Tasks -> {"no", "up", "terminating", "dead"}]
         /\ userStopped' \in BOOLEAN
         /\ OnlyTheControllers'
         /\ controller # Nil => userStopped' /\ procs'[controller] # "up"
<1>1. /\ procs' \in [Tasks -> {"no", "up", "terminating", "dead"}] /\ userStopped' \in BOOLEAN
  BY DEF Terminates, TypeOK
<1>2. \A t \in Tasks : procs'[t] = IF t = controller /\ procs[t] = "up"
                                   THEN "terminating" ELSE procs[t]
  BY DEF Terminates
<1>3. controller # Nil => controller \in Tasks
  BY DEF TypeOK
<1> QED BY <1>1, <1>2, <1>3 DEF Terminates, OnlyTheControllers

-----------------------------------------------------------------------------
LEMMA InitIInv == Init => IInv
<1> SUFFICES ASSUME Init PROVE IInv
  OBVIOUS
<1>1. TypeOK
  BY DEF Init, TypeOK, Edits
<1> QED BY <1>1 DEF Init, IInv, OnlyTheControllers, RequestIsForThisServer, RequestsAreTheUsers,
                    NoticeWhenStale

LEMMA NextIInv == IInv /\ [Next]_vars => IInv'
<1> SUFFICES ASSUME IInv, [Next]_vars PROVE IInv'
  OBVIOUS
<1> USE DEF IInv
<1>r. RequestsRestart /\ controller # Nil /\ controller' = controller
        => /\ procs' \in [Tasks -> {"no", "up", "terminating", "dead"}] /\ OnlyTheControllers'
           /\ relaunchServer' = TRUE /\ userStopped' = TRUE /\ restartAsked' = TRUE
           /\ lastAsked' = "restart" /\ procs'[controller] # "up"
  BY TerminatesLemma DEF RequestsRestart, Terminates
<1>1. ASSUME NEW t \in Tasks, NEW written \in BOOLEAN, StartServer(t, written) PROVE IInv'
  <2>1. CASE controller = Nil
    <3>1. /\ Starts(t, written, settings, passwordFile, sheet, {}, observed)
          /\ relaunchServer' = FALSE /\ notice' \in BOOLEAN /\ UNCHANGED <<status, keepAlive, quit>>
          /\ Unused(t)
      BY <1>1, <2>1 DEF StartServer, RequestIsForThisServer, TypeOK
    <3>2. settings \in Settings /\ passwordFile \in BOOLEAN /\ sheet \in BOOLEAN /\ observed \subseteq Ports
      BY DEF TypeOK
    <3> QED BY <2>1, <3>1, <3>2, StartsKeepsIInv
  <2>2. CASE controller # Nil
    <3>1. /\ RequestsRestart
          /\ UNCHANGED <<controller, young, settings, edit, passwordFile, launchedWith, sheet,
                         observed, outcome, answered, status, keepAlive, notice, quit>>
      BY <1>1, <2>2 DEF StartServer
    <3> QED BY <1>r, <2>2, <3>1 DEF TypeOK, RequestIsForThisServer, RequestsAreTheUsers, NoticeWhenStale
  <2> QED BY <2>1, <2>2
<1>2. CASE StopServer
  <2>1. /\ Terminates
        /\ lastAsked' = IF controller = Nil THEN lastAsked ELSE "stop"
        /\ UNCHANGED <<controller, status, young, relaunchServer, outcome, restartAsked, answered,
                       observed, quit, keepAlive, settings, edit, passwordFile, launchedWith,
                       notice, sheet>>
    BY <1>2 DEF StopServer, optionVars
  <2> QED BY <2>1, TerminatesLemma
          DEF TypeOK, RequestIsForThisServer, RequestsAreTheUsers, NoticeWhenStale
<1>3. ASSUME NEW t \in Tasks, NEW written \in BOOLEAN, ServerStopped(t, written) PROVE IInv'
  <2>1. /\ controller # Nil /\ Unused(t) /\ notice' = FALSE /\ relaunchServer' = FALSE
        /\ StartsOrReleases(t, written, relaunchServer \/ KeepsAlive)
        /\ UNCHANGED <<status, keepAlive, quit>>
    BY <1>3 DEF ServerStopped
  <2>2. settings \in Settings /\ passwordFile \in BOOLEAN /\ sheet \in BOOLEAN
        /\ observed \ {settings.port} \subseteq Ports
    BY DEF TypeOK
  <2>3. CASE relaunchServer \/ KeepsAlive
    <3>1. Starts(t, written, settings, passwordFile, sheet, {controller},
                 observed \ {settings.port})
      BY <2>1, <2>3 DEF StartsOrReleases
    <3> QED BY <2>1, <2>2, <3>1, StartsKeepsIInv
  <2>4. CASE ~(relaunchServer \/ KeepsAlive)
    <3>1. /\ controller' = Nil
          /\ procs' = [procs EXCEPT ![controller] = "no"]
          /\ observed' = observed \ {settings.port}
          /\ UNCHANGED <<young, userStopped, outcome, settings, edit, passwordFile, launchedWith,
                         sheet, restartAsked, lastAsked, answered>>
      BY <2>1, <2>4 DEF StartsOrReleases, askVars
    <3>2. TypeOK'
      <4>1. procs' \in [Tasks -> {"no", "up", "terminating", "dead"}]
        BY <3>1 DEF TypeOK
      <4>2. /\ controller' = Nil /\ observed' \subseteq Ports
            /\ notice' \in BOOLEAN /\ relaunchServer' \in BOOLEAN
            /\ UNCHANGED <<status, keepAlive, quit, young, userStopped, outcome, settings, edit,
                           passwordFile, launchedWith, sheet, restartAsked, lastAsked, answered>>
        BY <2>1, <2>2, <3>1
      <4> QED BY <4>1, <4>2 DEF TypeOK
    <3>3. OnlyTheControllers'
      BY <2>1, <3>1 DEF TypeOK, OnlyTheControllers
    <3> QED BY <2>1, <3>1, <3>2, <3>3 DEF RequestIsForThisServer, RequestsAreTheUsers, NoticeWhenStale
  <2> QED BY <2>3, <2>4
<1>4. ASSUME NEW t \in Tasks, NEW written \in BOOLEAN, ConnectHost(t, written) PROVE IInv'
  <2>1. CASE controller = Nil
    <3>1. /\ Starts(t, written, settings, passwordFile, sheet, {}, observed)
          /\ relaunchServer' = FALSE /\ notice' \in BOOLEAN /\ UNCHANGED <<status, keepAlive, quit>>
          /\ Unused(t)
      BY <1>4, <2>1 DEF ConnectHost, RequestIsForThisServer, TypeOK
    <3>2. settings \in Settings /\ passwordFile \in BOOLEAN /\ sheet \in BOOLEAN /\ observed \subseteq Ports
      BY DEF TypeOK
    <3> QED BY <2>1, <3>1, <3>2, StartsKeepsIInv
  <2>2. CASE controller # Nil
    <3>1. UNCHANGED vars
      BY <1>4, <2>2 DEF ConnectHost, vars, serverVars, requestVars, optionVars, askVars
    <3> QED BY <3>1 DEF vars, serverVars, requestVars, optionVars, askVars, TypeOK,
                        OnlyTheControllers, RequestIsForThisServer, RequestsAreTheUsers, NoticeWhenStale
  <2> QED BY <2>1, <2>2
<1>5. ASSUME NEW s \in Settings, ChangeOption(s) PROVE IInv'
  BY <1>5, ZenonT(60) DEF ChangeOption, ChecksForRestart, serverVars, requestVars, askVars, TypeOK,
              OnlyTheControllers, RequestIsForThisServer, RequestsAreTheUsers, NoticeWhenStale
<1>6. CASE ChangeKeepAlive
  BY <1>6 DEF ChangeKeepAlive, ChecksForRestart, serverVars, requestVars, askVars, TypeOK,
              OnlyTheControllers, RequestIsForThisServer, RequestsAreTheUsers, NoticeWhenStale
<1>7. ASSUME NEW e \in Edits, TypeInField(e) PROVE IInv'
  BY <1>7 DEF TypeInField, serverVars, requestVars, askVars, TypeOK,
              OnlyTheControllers, RequestIsForThisServer, RequestsAreTheUsers, NoticeWhenStale
<1>8. CASE LeaveField
  <2>1. EndedEditing(settings) \in Settings
    BY EndedEditingType DEF TypeOK
  <2>2. TypeOK'
    BY <1>8, <2>1 DEF LeaveField, ChecksForRestart, serverVars, requestVars, askVars, TypeOK, Edits
  <2>3. NoticeWhenStale'
    BY <1>8 DEF LeaveField, ChecksForRestart, serverVars, NoticeWhenStale
  <2> QED BY <1>8, <2>2, <2>3 DEF LeaveField, serverVars, requestVars, askVars,
              OnlyTheControllers, RequestIsForThisServer, RequestsAreTheUsers
<1>9. ASSUME NEW t \in Tasks, NEW written \in BOOLEAN, NEW auth \in {"password", "noauth"},
             NEW start \in BOOLEAN, AnswerSheet(t, written, auth, start)
      PROVE  IInv'
  <2> DEFINE chosen == [settings EXCEPT !.auth = auth]
             file == passwordFile /\ auth # "noauth"
  <2>1. chosen \in Settings /\ file \in BOOLEAN /\ observed \subseteq Ports
    BY DEF TypeOK, Settings
  <2>2. Unused(t) /\ UNCHANGED <<status, keepAlive, notice, quit>> /\ notice \in BOOLEAN
    BY <1>9 DEF AnswerSheet, TypeOK
  <2>3. CASE start /\ controller = Nil
    <3>1. Starts(t, written, chosen, file, FALSE, {}, observed) /\ relaunchServer' = FALSE
      BY <1>9, <2>3 DEF AnswerSheet, RequestIsForThisServer, TypeOK
    <3> HIDE DEF chosen, file
    <3> QED BY <2>1, <2>2, <2>3, <3>1, StartsKeepsIInv
  <2>4. CASE ~(start /\ controller = Nil)
    <3>1. /\ settings' = chosen /\ passwordFile' = file /\ sheet' = FALSE
          /\ answered' = (controller # Nil)
          /\ IF start
             THEN RequestsRestart
             ELSE UNCHANGED <<relaunchServer, userStopped, procs, restartAsked, lastAsked>>
          /\ UNCHANGED <<controller, young, outcome, edit, launchedWith, observed>>
      BY <1>9, <2>4 DEF AnswerSheet
    <3> HIDE DEF chosen, file
    <3>2. CASE start
      <4>1. controller # Nil /\ controller' = controller /\ RequestsRestart
        BY <2>4, <3>1, <3>2
      <4>2. TypeOK'
        BY <1>r, <2>1, <2>2, <3>1, <4>1 DEF TypeOK
      <4> QED BY <1>r, <3>1, <4>1, <4>2
              DEF RequestIsForThisServer, RequestsAreTheUsers, NoticeWhenStale
    <3>3. CASE ~start
      <4>0. /\ answered' \in BOOLEAN
            /\ UNCHANGED <<relaunchServer, userStopped, procs, restartAsked, lastAsked>>
        BY <3>1, <3>3
      <4>1. TypeOK'
        <5>1. /\ settings' \in Settings /\ passwordFile' \in BOOLEAN /\ sheet' \in BOOLEAN
              /\ UNCHANGED <<controller, young, outcome, edit, launchedWith, observed, status,
                             keepAlive, notice, quit>>
          BY <2>1, <2>2, <3>1
        <5> QED BY <4>0, <5>1 DEF TypeOK
      <4>2. OnlyTheControllers' /\ RequestIsForThisServer' /\ RequestsAreTheUsers'
        BY <3>1, <3>3 DEF OnlyTheControllers, RequestIsForThisServer, RequestsAreTheUsers
      <4>3. NoticeWhenStale'
        BY <3>1 DEF NoticeWhenStale
      <4> QED BY <4>1, <4>2, <4>3
    <3> QED BY <3>2, <3>3
  <2> QED BY <2>3, <2>4
<1>10. ASSUME NEW s \in {"low", "other"}, ServerDies(s) PROVE IInv'
  <2>1. /\ controller # Nil /\ controller \in Tasks
        /\ procs' = [procs EXCEPT ![controller] = "dead"] /\ status' = s
        /\ UNCHANGED <<controller, young, relaunchServer, userStopped, outcome, keepAlive, settings,
                       edit, passwordFile, launchedWith, notice, sheet, restartAsked, lastAsked,
                       answered, observed, quit>>
    BY <1>10 DEF ServerDies, requestVars, optionVars, askVars, TypeOK
  <2>2. TypeOK'
    BY <2>1 DEF TypeOK
  <2>3. OnlyTheControllers' /\ RequestIsForThisServer'
    BY <2>1 DEF OnlyTheControllers, RequestIsForThisServer, TypeOK
  <2>4. RequestsAreTheUsers'
    BY <2>1 DEF RequestsAreTheUsers
  <2>5. NoticeWhenStale'
    BY <2>1 DEF NoticeWhenStale
  <2> QED BY <2>2, <2>3, <2>4, <2>5
<1>11. CASE SecondPasses
  <2>1. TypeOK'
    <3>1. /\ young' \in BOOLEAN
          /\ UNCHANGED <<controller, procs, status, relaunchServer, userStopped, outcome, keepAlive,
                         settings, edit, passwordFile, launchedWith, notice, sheet, restartAsked,
                         lastAsked, answered, observed, quit>>
      BY <1>11 DEF SecondPasses, requestVars, optionVars, askVars
    <3> QED BY <3>1 DEF TypeOK
  <2>2. OnlyTheControllers' /\ RequestIsForThisServer'
    BY <1>11 DEF SecondPasses, requestVars, OnlyTheControllers, RequestIsForThisServer
  <2>3. RequestsAreTheUsers' /\ NoticeWhenStale'
    BY <1>11 DEF SecondPasses, requestVars, optionVars, askVars, RequestsAreTheUsers, NoticeWhenStale
  <2> QED BY <2>1, <2>2, <2>3
<1>12. CASE Quit
  <2>1. /\ Terminates
        /\ settings' = EndedEditing(settings) /\ edit' = "none" /\ quit' = TRUE
        /\ lastAsked' = IF controller = Nil THEN lastAsked ELSE "stop"
        /\ notice' = (notice \/ controller # Nil)
        /\ UNCHANGED <<controller, status, young, relaunchServer, outcome, keepAlive, passwordFile,
                       launchedWith, sheet, restartAsked, answered, observed>>
    BY <1>12 DEF Quit, ChecksForRestart
  <2>2. EndedEditing(settings) \in Settings
    BY EndedEditingType DEF TypeOK
  <2> QED BY <2>1, <2>2, TerminatesLemma
          DEF TypeOK, Edits, RequestIsForThisServer, RequestsAreTheUsers, NoticeWhenStale
<1>13. CASE UNCHANGED vars
  BY <1>13 DEF vars, serverVars, requestVars, optionVars, askVars, TypeOK, OnlyTheControllers,
     RequestIsForThisServer, RequestsAreTheUsers, NoticeWhenStale
<1> QED BY <1>1, <1>2, <1>3, <1>4, <1>5, <1>6, <1>7, <1>8, <1>9, <1>10, <1>11, <1>12, <1>13 DEF Next

THEOREM Invariance == Spec => []IInv
BY InitIInv, NextIInv, PTL DEF Spec

-----------------------------------------------------------------------------
(* Every variable keeps its type.                                          *)
THEOREM TypeCorrect == Spec => []TypeOK
<1>1. IInv => TypeOK
  BY DEF IInv
<1> QED BY <1>1, Invariance, PTL

(* No process but the controller's runs, however often the user restarts,  *)
(* stops and quits.                                                        *)
THEOREM OneServerTheorem == Spec => []OneServer
<1>1. IInv => OneServer
  BY DEF IInv, OnlyTheControllers, OneServer, Alive
<1> QED BY <1>1, Invariance, PTL

(* A pending stop or restart is about the server that runs now.            *)
THEOREM RequestTheorem == Spec => []RequestIsForThisServer
<1>1. IInv => RequestIsForThisServer
  BY DEF IInv
<1> QED BY <1>1, Invariance, PTL

(* Stale options come with a notice, or from the initial sheet.            *)
THEOREM NoticeTheorem == Spec => []NoticeWhenStale
<1>1. IInv => NoticeWhenStale
  BY DEF IInv
<1> QED BY <1>1, Invariance, PTL

(* Only serverStopped: replaces the controller, for the user or to keep    *)
(* alive a server of which nothing was asked and that is older than a      *)
(* second.                                                                 *)
THEOREM RelaunchTheorem == Spec => RelaunchIsWanted
<1>1. IInv /\ [Next]_vars
        => [controller # Nil /\ controller' \notin {controller, Nil}
              => restartAsked \/ (lastAsked = "nothing" /\ ~young)]_vars
  <2> SUFFICES ASSUME IInv, Next, controller # Nil, controller' \notin {controller, Nil}
               PROVE  restartAsked \/ (lastAsked = "nothing" /\ ~young)
    OBVIOUS
  <2>1. ASSUME NEW t \in Tasks, NEW written \in BOOLEAN, ServerStopped(t, written)
        PROVE  restartAsked \/ (lastAsked = "nothing" /\ ~young)
    <3>1. relaunchServer \/ KeepsAlive
      BY <2>1 DEF ServerStopped, StartsOrReleases
    <3> QED BY <3>1 DEF KeepsAlive, IInv, RequestsAreTheUsers
  <2>2. ~(\E t \in Tasks, written \in BOOLEAN : ServerStopped(t, written)) => FALSE
    <3>1. ASSUME NEW t \in Tasks, NEW written \in BOOLEAN, StartServer(t, written) \/ ConnectHost(t, written)
          PROVE  controller' = controller
      BY <3>1 DEF StartServer, ConnectHost
    <3>2. ASSUME NEW t \in Tasks, NEW written \in BOOLEAN, NEW auth \in {"password", "noauth"},
                 NEW start \in BOOLEAN, AnswerSheet(t, written, auth, start)
          PROVE  controller' = controller
      BY <3>2 DEF AnswerSheet
    <3>3. ASSUME \/ StopServer \/ ChangeKeepAlive \/ LeaveField \/ SecondPasses \/ Quit
                 \/ \E s \in Settings : ChangeOption(s)
                 \/ \E e \in Edits : TypeInField(e)
                 \/ \E s \in {"low", "other"} : ServerDies(s)
          PROVE  controller' = controller
      BY <3>3 DEF StopServer, ChangeKeepAlive, LeaveField, SecondPasses, Quit, ChangeOption,
         TypeInField, ServerDies, serverVars
    <3> QED BY <3>1, <3>2, <3>3 DEF Next
  <2> QED BY <2>1, <2>2
<1> QED BY <1>1, Invariance, PTL DEF Spec, RelaunchIsWanted
=============================================================================
