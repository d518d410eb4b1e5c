--------------------------- MODULE ServerLoopProofs ---------------------------
(***************************************************************************)
(* What ServerLoop says of any number of clients, listeners and displays.  *)
(* LockInv ties the locks that are kept across steps to where their        *)
(* holders are; VisitInv says which of the clients' mutexes a resolution   *)
(* change has at each of its stages; with them the geometry and the        *)
(* registration of the refresh callback follow.                            *)
(***************************************************************************)
EXTENDS ServerLoop, TLAPS

Blocking == {"takeList", "grab", "init", "retakeList", "notify", "unregistered"}
Walking == {"grab", "notify", "refresh"}

(* listenerAccepting and rfbClientListMutex are held exactly by the thread *)
(* whose code is between their lock and their unlock.                      *)
LockInv ==
  \A t \in Threads : /\ accepting = t <=> pc[t] \in Blocking
                     /\ listLock = t <=> pc[t] \in Walking

(* A record that is not linked is not connected.                           *)
RecordInv ==
  \A c \in Clients : /\ c \in listed <=> inPC[c] # "absent"
                     /\ c \notin listed => ~open[c] /\ told[c] = NotTold

(* What a resolution change holds: what the first walk has visited, then   *)
(* every client, then what the second walk has still to visit.             *)
VisitInv ==
  /\ \A t \in Threads :
       /\ pc[t] \in Walking => toVisit \subseteq listed
       /\ pc[t] = "grab" => \A c \in listed \ toVisit : mutex[c] = t
       /\ pc[t] \in {"init", "retakeList"} => \A c \in listed : mutex[c] = t
       /\ pc[t] = "notify" => \A c \in listed : mutex[c] = t <=> c \in toVisit
  /\ \A c \in Clients : mutex[c] # "none" => c \in listed

(* One client at a time is between its call and the flag, and never while  *)
(* the main thread is between its own.                                     *)
RegisterInv ==
  /\ \A c, d \in Clients : inPC[c] = "registering" /\ inPC[d] = "registering" => c = d
  /\ ~NobodyRegisters => ~registered /\ callbacks = 1
  /\ pc[MainThread] = "unregistered" => registered /\ callbacks = 0

-----------------------------------------------------------------------------

LEMMA InitTypeOK == Init => TypeOK
<1> SUFFICES ASSUME Init PROVE TypeOK
  OBVIOUS
<1> USE ConstantsAssumption DEF Init, ChangePCs, MainPCs, ListenerPCs, Threads, MainThread
<1>1. pc \in [Threads -> MainPCs \cup ListenerPCs] /\ pc[MainThread] \in MainPCs
  OBVIOUS
<1>2. \A l \in Listeners : pc[l] \in ListenerPCs
  OBVIOUS
<1>3. changed \in [Threads -> Changes]
  BY DEF NoChange, Changes
<1>4. told \in [Clients -> SUBSET Sizes]
  BY DEF NotTold
<1> QED BY <1>1, <1>2, <1>3, <1>4 DEF TypeOK

(* Registering and unregistering alternate, so the callbacks stay a bit.   *)
LEMMA NextTypeOK == TypeOK /\ RegisterInv /\ RegisteredOnce /\ [Next]_vars => TypeOK'
<1> SUFFICES ASSUME TypeOK, RegisterInv, RegisteredOnce, [Next]_vars PROVE TypeOK'
  OBVIOUS
<1> USE ConstantsAssumption DEF TypeOK, ChangePCs, MainPCs, ListenerPCs, Threads, MainThread, Goto, vars, screenVars, threadVars, lockVars, recordVars, refreshVars
<1>1. ASSUME NEW t \in Threads, Compare(t) PROVE TypeOK'
  BY <1>1 DEF Compare, AfterCheck, Difference, OtherDepth, NoChange, Changes
<1>2. ASSUME NEW t \in Threads, BlockListeners(t) PROVE TypeOK'
  BY <1>2 DEF BlockListeners
<1>3. ASSUME NEW t \in Threads, TakeList(t) PROVE TypeOK'
  BY <1>3 DEF TakeList
<1>4. ASSUME NEW t \in Threads, NEW c \in Clients, Grab(t, c) PROVE TypeOK'
  BY <1>4 DEF Grab
<1>5. ASSUME NEW t \in Threads, NEW c \in Clients, Notify(t, c) PROVE TypeOK'
  BY <1>5 DEF Notify, Told, Sizes
<1>6. ASSUME NEW t \in Threads, GrabEnds(t) PROVE TypeOK'
  BY <1>6 DEF GrabEnds
<1>7. ASSUME NEW t \in Threads, ScreenInit(t) PROVE TypeOK'
  BY <1>7 DEF ScreenInit
<1>8. ASSUME NEW t \in Threads, RetakeList(t) PROVE TypeOK'
  BY <1>8 DEF RetakeList
<1>9. ASSUME NEW t \in Threads, ChangeEnds(t) PROVE TypeOK'
  BY <1>9 DEF ChangeEnds, AfterCheck, NoChange, Changes
<1>10. ASSUME NEW l \in Listeners, NEW c \in Clients, StartClient(l, c) PROVE TypeOK'
  BY <1>10 DEF StartClient, Link
<1>11. ASSUME NEW l \in Listeners, SignalNewClient(l) PROVE TypeOK'
  BY <1>11 DEF SignalNewClient
<1>12. CASE TestClients
  BY <1>12 DEF TestClients
<1>13. CASE Unregister
  BY <1>13 DEF Unregister, RegisteredOnce, RegisterInv
<1>14. CASE ClearRegistered
  BY <1>14 DEF ClearRegistered
<1>15. CASE Hibernate
  BY <1>15 DEF Hibernate
<1>16. CASE Awake
  BY <1>16 DEF Awake
<1>17. CASE RefreshBegins
  BY <1>17 DEF RefreshBegins
<1>18. ASSUME NEW c \in Clients, RefreshVisit(c) PROVE TypeOK'
  BY <1>18 DEF RefreshVisit
<1>19. CASE RefreshEnds
  BY <1>19 DEF RefreshEnds
<1>20. CASE EventsEnd
  BY <1>20 DEF EventsEnd
<1>21. ASSUME NEW c \in Clients, SetRegistered(c) PROVE TypeOK'
  BY <1>21 DEF SetRegistered
<1>22. ASSUME NEW c \in Clients, OutputEnds(c) PROVE TypeOK'
  BY <1>22 DEF OutputEnds
<1>23. ASSUME NEW c \in Clients, ConnectionGone(c) PROVE TypeOK'
  BY <1>23 DEF ConnectionGone, NotTold
<1>24. ASSUME NEW d \in Displays, DisplayChanges(d) PROVE TypeOK'
  BY <1>24 DEF DisplayChanges
<1>25. ASSUME NEW l \in Listeners, AcceptConnection(l) PROVE TypeOK'
  BY <1>25 DEF AcceptConnection
<1>26. ASSUME NEW c \in Clients, NEW inputPC \in {"reading", "orphan"}, ReverseConnect(c, inputPC) PROVE TypeOK'
  BY <1>26 DEF ReverseConnect, Link
<1>27. CASE SpuriousWakeup
  BY <1>27 DEF SpuriousWakeup
<1>28. ASSUME NEW c \in Clients, ServerInit(c) PROVE TypeOK'
  BY <1>28 DEF ServerInit, Sizes
<1>29. ASSUME NEW c \in Clients, NEW desktopResize \in BOOLEAN, SetEncodings(c, desktopResize) PROVE TypeOK'
  BY <1>29 DEF SetEncodings
<1>30. ASSUME NEW c \in Clients, Register(c) PROVE TypeOK'
  BY <1>30 DEF Register, RegisteredOnce, RegisterInv, NobodyRegisters
<1>31. ASSUME NEW c \in Clients, Disconnect(c) PROVE TypeOK'
  BY <1>31 DEF Disconnect
<1>32. ASSUME NEW t \in Threads, ResolutionChange(t) PROVE TypeOK'
  BY <1>32, <1>1, <1>2, <1>3, <1>4, <1>5, <1>6, <1>7, <1>8, <1>9 DEF ResolutionChange, Threads
<1>33. ASSUME NEW l \in Listeners, Listener(l) PROVE TypeOK'
  BY <1>33, <1>10, <1>11, <1>32 DEF Listener, Threads
<1>34. CASE MainLoop
  BY <1>34, <1>12, <1>13, <1>14, <1>15, <1>16, <1>17, <1>18, <1>19,
     <1>20, <1>32 DEF MainLoop, Threads
<1>35. ASSUME NEW c \in Clients, ClientThreads(c) PROVE TypeOK'
  BY <1>35, <1>21, <1>22, <1>23 DEF ClientThreads
<1>36. CASE Environment
  BY <1>36, <1>24, <1>25, <1>26, <1>27, <1>28, <1>29, <1>30, <1>31 DEF Environment
<1>37. CASE UNCHANGED vars
  BY <1>37
<1> QED BY <1>33, <1>34, <1>35, <1>36, <1>37 DEF Next

(* The locks follow their holders.                                        *)
LEMMA NextLockInv == TypeOK /\ LockInv /\ [Next]_vars => LockInv'
<1> SUFFICES ASSUME TypeOK, LockInv, [Next]_vars PROVE LockInv'
  OBVIOUS
<1> USE ConstantsAssumption DEF TypeOK, ChangePCs, MainPCs, ListenerPCs, Threads, MainThread, Goto, vars, screenVars, threadVars, lockVars, recordVars, refreshVars, LockInv, Blocking, Walking, AcceptingFree, ListFree
<1>1. ASSUME NEW t \in Threads, Compare(t) PROVE LockInv'
  BY <1>1 DEF Compare, AfterCheck
<1>2. ASSUME NEW t \in Threads, BlockListeners(t) PROVE LockInv'
  BY <1>2 DEF BlockListeners
<1>3. ASSUME NEW t \in Threads, TakeList(t) PROVE LockInv'
  BY <1>3 DEF TakeList
<1>4. ASSUME NEW t \in Threads, NEW c \in Clients, Grab(t, c) PROVE LockInv'
  BY <1>4 DEF Grab
<1>5. ASSUME NEW t \in Threads, NEW c \in Clients, Notify(t, c) PROVE LockInv'
  BY <1>5 DEF Notify
<1>6. ASSUME NEW t \in Threads, GrabEnds(t) PROVE LockInv'
  BY <1>6 DEF GrabEnds
<1>7. ASSUME NEW t \in Threads, ScreenInit(t) PROVE LockInv'
  BY <1>7 DEF ScreenInit
<1>8. ASSUME NEW t \in Threads, RetakeList(t) PROVE LockInv'
  BY <1>8 DEF RetakeList
<1>9. ASSUME NEW t \in Threads, ChangeEnds(t) PROVE LockInv'
  BY <1>9 DEF ChangeEnds, AfterCheck
<1>10. ASSUME NEW l \in Listeners, NEW c \in Clients, StartClient(l, c) PROVE LockInv'
  BY <1>10 DEF StartClient
<1>11. ASSUME NEW l \in Listeners, SignalNewClient(l) PROVE LockInv'
  BY <1>11 DEF SignalNewClient
<1>12. CASE TestClients
  BY <1>12 DEF TestClients
<1>13. CASE Unregister
  BY <1>13 DEF Unregister
<1>14. CASE ClearRegistered
  BY <1>14 DEF ClearRegistered
<1>15. CASE Hibernate
  BY <1>15 DEF Hibernate
<1>16. CASE Awake
  BY <1>16 DEF Awake
<1>17. CASE RefreshBegins
  BY <1>17 DEF RefreshBegins
<1>18. ASSUME NEW c \in Clients, RefreshVisit(c) PROVE LockInv'
  BY <1>18 DEF RefreshVisit
<1>19. CASE RefreshEnds
  BY <1>19 DEF RefreshEnds
<1>20. CASE EventsEnd
  BY <1>20 DEF EventsEnd
<1>21. ASSUME NEW c \in Clients, SetRegistered(c) PROVE LockInv'
  BY <1>21 DEF SetRegistered
<1>22. ASSUME NEW c \in Clients, OutputEnds(c) PROVE LockInv'
  BY <1>22 DEF OutputEnds
<1>23. ASSUME NEW c \in Clients, ConnectionGone(c) PROVE LockInv'
  BY <1>23 DEF ConnectionGone
<1>24. ASSUME NEW d \in Displays, DisplayChanges(d) PROVE LockInv'
  BY <1>24 DEF DisplayChanges
<1>25. ASSUME NEW l \in Listeners, AcceptConnection(l) PROVE LockInv'
  BY <1>25 DEF AcceptConnection
<1>26. ASSUME NEW c \in Clients, NEW inputPC \in {"reading", "orphan"}, ReverseConnect(c, inputPC) PROVE LockInv'
  BY <1>26 DEF ReverseConnect
<1>27. CASE SpuriousWakeup
  BY <1>27 DEF SpuriousWakeup
<1>28. ASSUME NEW c \in Clients, ServerInit(c) PROVE LockInv'
  BY <1>28 DEF ServerInit
<1>29. ASSUME NEW c \in Clients, NEW desktopResize \in BOOLEAN, SetEncodings(c, desktopResize) PROVE LockInv'
  BY <1>29 DEF SetEncodings
<1>30. ASSUME NEW c \in Clients, Register(c) PROVE LockInv'
  BY <1>30 DEF Register
<1>31. ASSUME NEW c \in Clients, Disconnect(c) PROVE LockInv'
  BY <1>31 DEF Disconnect
<1>32. ASSUME NEW t \in Threads, ResolutionChange(t) PROVE LockInv'
  BY <1>32, <1>1, <1>2, <1>3, <1>4, <1>5, <1>6, <1>7, <1>8, <1>9 DEF ResolutionChange, Threads
<1>33. ASSUME NEW l \in Listeners, Listener(l) PROVE LockInv'
  BY <1>33, <1>10, <1>11, <1>32 DEF Listener, Threads
<1>34. CASE MainLoop
  BY <1>34, <1>12, <1>13, <1>14, <1>15, <1>16, <1>17, <1>18, <1>19,
     <1>20, <1>32 DEF MainLoop, Threads
<1>35. ASSUME NEW c \in Clients, ClientThreads(c) PROVE LockInv'
  BY <1>35, <1>21, <1>22, <1>23 DEF ClientThreads
<1>36. CASE Environment
  BY <1>36, <1>24, <1>25, <1>26, <1>27, <1>28, <1>29, <1>30, <1>31 DEF Environment
<1>37. CASE UNCHANGED vars
  BY <1>37
<1> QED BY <1>33, <1>34, <1>35, <1>36, <1>37 DEF Next

(* Records are linked before they are used and unlinked closed.            *)
LEMMA NextRecordInv == TypeOK /\ RecordInv /\ VisitInv /\ [Next]_vars => RecordInv'
<1> SUFFICES ASSUME TypeOK, RecordInv, VisitInv, [Next]_vars PROVE RecordInv'
  OBVIOUS
<1> USE ConstantsAssumption DEF TypeOK, RecordInv, vars, screenVars, threadVars, lockVars, recordVars, refreshVars, Threads
<1>1. ASSUME NEW t \in Threads, Compare(t) PROVE RecordInv'
  BY <1>1 DEF Compare
<1>2. ASSUME NEW t \in Threads, BlockListeners(t) PROVE RecordInv'
  BY <1>2 DEF BlockListeners
<1>3. ASSUME NEW t \in Threads, TakeList(t) PROVE RecordInv'
  BY <1>3 DEF TakeList
<1>4. ASSUME NEW t \in Threads, NEW c \in Clients, Grab(t, c) PROVE RecordInv'
  BY <1>4 DEF Grab
<1>5. ASSUME NEW t \in Threads, NEW c \in Clients, Notify(t, c) PROVE RecordInv'
  BY <1>5 DEF Notify, VisitInv, Walking
<1>6. ASSUME NEW t \in Threads, GrabEnds(t) PROVE RecordInv'
  BY <1>6 DEF GrabEnds
<1>7. ASSUME NEW t \in Threads, ScreenInit(t) PROVE RecordInv'
  BY <1>7 DEF ScreenInit
<1>8. ASSUME NEW t \in Threads, RetakeList(t) PROVE RecordInv'
  BY <1>8 DEF RetakeList
<1>9. ASSUME NEW t \in Threads, ChangeEnds(t) PROVE RecordInv'
  BY <1>9 DEF ChangeEnds
<1>10. ASSUME NEW l \in Listeners, NEW c \in Clients, StartClient(l, c) PROVE RecordInv'
  BY <1>10 DEF StartClient, Link
<1>11. ASSUME NEW l \in Listeners, SignalNewClient(l) PROVE RecordInv'
  BY <1>11 DEF SignalNewClient
<1>12. CASE TestClients
  BY <1>12 DEF TestClients
<1>13. CASE Unregister
  BY <1>13 DEF Unregister
<1>14. CASE ClearRegistered
  BY <1>14 DEF ClearRegistered
<1>15. CASE Hibernate
  BY <1>15 DEF Hibernate
<1>16. CASE Awake
  BY <1>16 DEF Awake
<1>17. CASE RefreshBegins
  BY <1>17 DEF RefreshBegins
<1>18. ASSUME NEW c \in Clients, RefreshVisit(c) PROVE RecordInv'
  BY <1>18 DEF RefreshVisit
<1>19. CASE RefreshEnds
  BY <1>19 DEF RefreshEnds
<1>20. CASE EventsEnd
  BY <1>20 DEF EventsEnd
<1>21. ASSUME NEW c \in Clients, SetRegistered(c) PROVE RecordInv'
  BY <1>21 DEF SetRegistered
<1>22. ASSUME NEW c \in Clients, OutputEnds(c) PROVE RecordInv'
  BY <1>22 DEF OutputEnds
<1>23. ASSUME NEW c \in Clients, ConnectionGone(c) PROVE RecordInv'
  BY <1>23 DEF ConnectionGone
<1>24. ASSUME NEW d \in Displays, DisplayChanges(d) PROVE RecordInv'
  BY <1>24 DEF DisplayChanges
<1>25. ASSUME NEW l \in Listeners, AcceptConnection(l) PROVE RecordInv'
  BY <1>25 DEF AcceptConnection
<1>26. ASSUME NEW c \in Clients, NEW inputPC \in {"reading", "orphan"}, ReverseConnect(c, inputPC) PROVE RecordInv'
  BY <1>26 DEF ReverseConnect, Link
<1>27. CASE SpuriousWakeup
  BY <1>27 DEF SpuriousWakeup
<1>28. ASSUME NEW c \in Clients, ServerInit(c) PROVE RecordInv'
  BY <1>28 DEF ServerInit
<1>29. ASSUME NEW c \in Clients, NEW desktopResize \in BOOLEAN, SetEncodings(c, desktopResize) PROVE RecordInv'
  BY <1>29 DEF SetEncodings
<1>30. ASSUME NEW c \in Clients, Register(c) PROVE RecordInv'
  BY <1>30 DEF Register
<1>31. ASSUME NEW c \in Clients, Disconnect(c) PROVE RecordInv'
  BY <1>31 DEF Disconnect
<1>32. ASSUME NEW t \in Threads, ResolutionChange(t) PROVE RecordInv'
  BY <1>32, <1>1, <1>2, <1>3, <1>4, <1>5, <1>6, <1>7, <1>8, <1>9 DEF ResolutionChange, Threads
<1>33. ASSUME NEW l \in Listeners, Listener(l) PROVE RecordInv'
  BY <1>33, <1>10, <1>11, <1>32 DEF Listener, Threads
<1>34. CASE MainLoop
  BY <1>34, <1>12, <1>13, <1>14, <1>15, <1>16, <1>17, <1>18, <1>19,
     <1>20, <1>32 DEF MainLoop, Threads
<1>35. ASSUME NEW c \in Clients, ClientThreads(c) PROVE RecordInv'
  BY <1>35, <1>21, <1>22, <1>23 DEF ClientThreads
<1>36. CASE Environment
  BY <1>36, <1>24, <1>25, <1>26, <1>27, <1>28, <1>29, <1>30, <1>31 DEF Environment
<1>37. CASE UNCHANGED vars
  BY <1>37
<1> QED BY <1>33, <1>34, <1>35, <1>36, <1>37 DEF Next

(* Nobody joins the list and nobody else takes or returns a mutex while a  *)
(* resolution change has them.                                            *)
LEMMA NextVisitInv == TypeOK /\ LockInv /\ RecordInv /\ MutexesReturned /\ VisitInv /\ [Next]_vars => VisitInv'
<1> SUFFICES ASSUME TypeOK, LockInv, RecordInv, MutexesReturned, VisitInv, [Next]_vars PROVE VisitInv'
  OBVIOUS
<1> USE ConstantsAssumption DEF TypeOK, ChangePCs, MainPCs, ListenerPCs, Threads, MainThread, Goto, vars, screenVars, threadVars, lockVars, recordVars, refreshVars, LockInv, Blocking, Walking, AcceptingFree, ListFree, VisitInv, MutexFree
<1>1. ASSUME NEW t \in Threads, Compare(t) PROVE VisitInv'
  BY <1>1 DEF Compare, AfterCheck
<1>2. ASSUME NEW t \in Threads, BlockListeners(t) PROVE VisitInv'
  BY <1>2 DEF BlockListeners, MutexesReturned
<1>3. ASSUME NEW t \in Threads, TakeList(t) PROVE VisitInv'
  BY <1>3 DEF TakeList, MutexesReturned
<1>4. ASSUME NEW t \in Threads, NEW c \in Clients, Grab(t, c) PROVE VisitInv'
  BY <1>4 DEF Grab
<1>5. ASSUME NEW t \in Threads, NEW c \in Clients, Notify(t, c) PROVE VisitInv'
  BY <1>5 DEF Notify
<1>6. ASSUME NEW t \in Threads, GrabEnds(t) PROVE VisitInv'
  BY <1>6 DEF GrabEnds
<1>7. ASSUME NEW t \in Threads, ScreenInit(t) PROVE VisitInv'
  BY <1>7 DEF ScreenInit
<1>8. ASSUME NEW t \in Threads, RetakeList(t) PROVE VisitInv'
  BY <1>8 DEF RetakeList
<1>9. ASSUME NEW t \in Threads, ChangeEnds(t) PROVE VisitInv'
  BY <1>9 DEF ChangeEnds, AfterCheck
<1>10. ASSUME NEW l \in Listeners, NEW c \in Clients, StartClient(l, c) PROVE VisitInv'
  BY <1>10 DEF StartClient, Link, RecordInv
<1>11. ASSUME NEW l \in Listeners, SignalNewClient(l) PROVE VisitInv'
  BY <1>11 DEF SignalNewClient
<1>12. CASE TestClients
  BY <1>12 DEF TestClients
<1>13. CASE Unregister
  BY <1>13 DEF Unregister
<1>14. CASE ClearRegistered
  BY <1>14 DEF ClearRegistered
<1>15. CASE Hibernate
  BY <1>15 DEF Hibernate
<1>16. CASE Awake
  BY <1>16 DEF Awake
<1>17. CASE RefreshBegins
  BY <1>17 DEF RefreshBegins
<1>18. ASSUME NEW c \in Clients, RefreshVisit(c) PROVE VisitInv'
  BY <1>18 DEF RefreshVisit
<1>19. CASE RefreshEnds
  BY <1>19 DEF RefreshEnds
<1>20. CASE EventsEnd
  BY <1>20 DEF EventsEnd
<1>21. ASSUME NEW c \in Clients, SetRegistered(c) PROVE VisitInv'
  BY <1>21 DEF SetRegistered
<1>22. ASSUME NEW c \in Clients, OutputEnds(c) PROVE VisitInv'
  BY <1>22 DEF OutputEnds
<1>23. ASSUME NEW c \in Clients, ConnectionGone(c) PROVE VisitInv'
  BY <1>23 DEF ConnectionGone, RecordInv
<1>24. ASSUME NEW d \in Displays, DisplayChanges(d) PROVE VisitInv'
  BY <1>24 DEF DisplayChanges
<1>25. ASSUME NEW l \in Listeners, AcceptConnection(l) PROVE VisitInv'
  BY <1>25 DEF AcceptConnection
<1>26. ASSUME NEW c \in Clients, NEW inputPC \in {"reading", "orphan"}, ReverseConnect(c, inputPC) PROVE VisitInv'
  BY <1>26 DEF ReverseConnect, Link, RecordInv
<1>27. CASE SpuriousWakeup
  BY <1>27 DEF SpuriousWakeup
<1>28. ASSUME NEW c \in Clients, ServerInit(c) PROVE VisitInv'
  BY <1>28 DEF ServerInit
<1>29. ASSUME NEW c \in Clients, NEW desktopResize \in BOOLEAN, SetEncodings(c, desktopResize) PROVE VisitInv'
  BY <1>29 DEF SetEncodings
<1>30. ASSUME NEW c \in Clients, Register(c) PROVE VisitInv'
  BY <1>30 DEF Register
<1>31. ASSUME NEW c \in Clients, Disconnect(c) PROVE VisitInv'
  BY <1>31 DEF Disconnect
<1>32. ASSUME NEW t \in Threads, ResolutionChange(t) PROVE VisitInv'
  BY <1>32, <1>1, <1>2, <1>3, <1>4, <1>5, <1>6, <1>7, <1>8, <1>9 DEF ResolutionChange, Threads
<1>33. ASSUME NEW l \in Listeners, Listener(l) PROVE VisitInv'
  BY <1>33, <1>10, <1>11, <1>32 DEF Listener, Threads
<1>34. CASE MainLoop
  BY <1>34, <1>12, <1>13, <1>14, <1>15, <1>16, <1>17, <1>18, <1>19,
     <1>20, <1>32 DEF MainLoop, Threads
<1>35. ASSUME NEW c \in Clients, ClientThreads(c) PROVE VisitInv'
  BY <1>35, <1>21, <1>22, <1>23 DEF ClientThreads
<1>36. CASE Environment
  BY <1>36, <1>24, <1>25, <1>26, <1>27, <1>28, <1>29, <1>30, <1>31 DEF Environment
<1>37. CASE UNCHANGED vars
  BY <1>37
<1> QED BY <1>33, <1>34, <1>35, <1>36, <1>37 DEF Next

(* A mutex is returned before the change that took it ends.               *)
LEMMA NextMutexesReturned == TypeOK /\ LockInv /\ VisitInv /\ MutexesReturned /\ [Next]_vars => MutexesReturned'
<1> SUFFICES ASSUME TypeOK, LockInv, VisitInv, MutexesReturned, [Next]_vars PROVE MutexesReturned'
  OBVIOUS
<1> USE ConstantsAssumption DEF TypeOK, ChangePCs, MainPCs, ListenerPCs, Threads, MainThread, Goto, vars, screenVars, threadVars, lockVars, recordVars, refreshVars, LockInv, Blocking, Walking, AcceptingFree, ListFree, MutexesReturned
<1>1. ASSUME NEW t \in Threads, Compare(t) PROVE MutexesReturned'
  BY <1>1 DEF Compare, AfterCheck
<1>2. ASSUME NEW t \in Threads, BlockListeners(t) PROVE MutexesReturned'
  BY <1>2 DEF BlockListeners
<1>3. ASSUME NEW t \in Threads, TakeList(t) PROVE MutexesReturned'
  BY <1>3 DEF TakeList
<1>4. ASSUME NEW t \in Threads, NEW c \in Clients, Grab(t, c) PROVE MutexesReturned'
  BY <1>4 DEF Grab
<1>5. ASSUME NEW t \in Threads, NEW c \in Clients, Notify(t, c) PROVE MutexesReturned'
  BY <1>5 DEF Notify
<1>6. ASSUME NEW t \in Threads, GrabEnds(t) PROVE MutexesReturned'
  BY <1>6 DEF GrabEnds
<1>7. ASSUME NEW t \in Threads, ScreenInit(t) PROVE MutexesReturned'
  BY <1>7 DEF ScreenInit
<1>8. ASSUME NEW t \in Threads, RetakeList(t) PROVE MutexesReturned'
  BY <1>8 DEF RetakeList
<1>9. ASSUME NEW t \in Threads, ChangeEnds(t) PROVE MutexesReturned'
  BY <1>9 DEF ChangeEnds, AfterCheck, VisitInv
<1>10. ASSUME NEW l \in Listeners, NEW c \in Clients, StartClient(l, c) PROVE MutexesReturned'
  BY <1>10 DEF StartClient, Link
<1>11. ASSUME NEW l \in Listeners, SignalNewClient(l) PROVE MutexesReturned'
  BY <1>11 DEF SignalNewClient
<1>12. CASE TestClients
  BY <1>12 DEF TestClients
<1>13. CASE Unregister
  BY <1>13 DEF Unregister
<1>14. CASE ClearRegistered
  BY <1>14 DEF ClearRegistered
<1>15. CASE Hibernate
  BY <1>15 DEF Hibernate
<1>16. CASE Awake
  BY <1>16 DEF Awake
<1>17. CASE RefreshBegins
  BY <1>17 DEF RefreshBegins
<1>18. ASSUME NEW c \in Clients, RefreshVisit(c) PROVE MutexesReturned'
  BY <1>18 DEF RefreshVisit
<1>19. CASE RefreshEnds
  BY <1>19 DEF RefreshEnds
<1>20. CASE EventsEnd
  BY <1>20 DEF EventsEnd
<1>21. ASSUME NEW c \in Clients, SetRegistered(c) PROVE MutexesReturned'
  BY <1>21 DEF SetRegistered
<1>22. ASSUME NEW c \in Clients, OutputEnds(c) PROVE MutexesReturned'
  BY <1>22 DEF OutputEnds
<1>23. ASSUME NEW c \in Clients, ConnectionGone(c) PROVE MutexesReturned'
  BY <1>23 DEF ConnectionGone
<1>24. ASSUME NEW d \in Displays, DisplayChanges(d) PROVE MutexesReturned'
  BY <1>24 DEF DisplayChanges
<1>25. ASSUME NEW l \in Listeners, AcceptConnection(l) PROVE MutexesReturned'
  BY <1>25 DEF AcceptConnection
<1>26. ASSUME NEW c \in Clients, NEW inputPC \in {"reading", "orphan"}, ReverseConnect(c, inputPC) PROVE MutexesReturned'
  BY <1>26 DEF ReverseConnect, Link
<1>27. CASE SpuriousWakeup
  BY <1>27 DEF SpuriousWakeup
<1>28. ASSUME NEW c \in Clients, ServerInit(c) PROVE MutexesReturned'
  BY <1>28 DEF ServerInit
<1>29. ASSUME NEW c \in Clients, NEW desktopResize \in BOOLEAN, SetEncodings(c, desktopResize) PROVE MutexesReturned'
  BY <1>29 DEF SetEncodings
<1>30. ASSUME NEW c \in Clients, Register(c) PROVE MutexesReturned'
  BY <1>30 DEF Register
<1>31. ASSUME NEW c \in Clients, Disconnect(c) PROVE MutexesReturned'
  BY <1>31 DEF Disconnect
<1>32. ASSUME NEW t \in Threads, ResolutionChange(t) PROVE MutexesReturned'
  BY <1>32, <1>1, <1>2, <1>3, <1>4, <1>5, <1>6, <1>7, <1>8, <1>9 DEF ResolutionChange, Threads
<1>33. ASSUME NEW l \in Listeners, Listener(l) PROVE MutexesReturned'
  BY <1>33, <1>10, <1>11, <1>32 DEF Listener, Threads
<1>34. CASE MainLoop
  BY <1>34, <1>12, <1>13, <1>14, <1>15, <1>16, <1>17, <1>18, <1>19,
     <1>20, <1>32 DEF MainLoop, Threads
<1>35. ASSUME NEW c \in Clients, ClientThreads(c) PROVE MutexesReturned'
  BY <1>35, <1>21, <1>22, <1>23 DEF ClientThreads
<1>36. CASE Environment
  BY <1>36, <1>24, <1>25, <1>26, <1>27, <1>28, <1>29, <1>30, <1>31 DEF Environment
<1>37. CASE UNCHANGED vars
  BY <1>37
<1> QED BY <1>33, <1>34, <1>35, <1>36, <1>37 DEF Next

(* The screen changes while no connected client's mutex is free, and a     *)
(* mutex is freed when its client knows.                                   *)
LEMMA NextScreenAgrees == TypeOK /\ RecordInv /\ VisitInv /\ ScreenAgrees /\ [Next]_vars => ScreenAgrees'
<1> SUFFICES ASSUME TypeOK, RecordInv, VisitInv, ScreenAgrees, [Next]_vars PROVE ScreenAgrees'
  OBVIOUS
<1> USE ConstantsAssumption DEF TypeOK, ScreenAgrees, MutexFree, vars, screenVars, threadVars, lockVars, recordVars, refreshVars
<1>1. ASSUME NEW t \in Threads, Compare(t) PROVE ScreenAgrees'
  BY <1>1 DEF Compare
<1>2. ASSUME NEW t \in Threads, BlockListeners(t) PROVE ScreenAgrees'
  BY <1>2 DEF BlockListeners
<1>3. ASSUME NEW t \in Threads, TakeList(t) PROVE ScreenAgrees'
  BY <1>3 DEF TakeList
<1>4. ASSUME NEW t \in Threads, NEW c \in Clients, Grab(t, c) PROVE ScreenAgrees'
  BY <1>4 DEF Grab
<1>5. ASSUME NEW t \in Threads, NEW c \in Clients, Notify(t, c) PROVE ScreenAgrees'
  BY <1>5 DEF Notify
<1>6. ASSUME NEW t \in Threads, GrabEnds(t) PROVE ScreenAgrees'
  BY <1>6 DEF GrabEnds
<1>7. ASSUME NEW t \in Threads, ScreenInit(t) PROVE ScreenAgrees'
  <2>1. \A c \in listed : mutex[c] = t
    BY <1>7 DEF ScreenInit, VisitInv
  <2>2. t # "none"
    BY ConstantsAssumption DEF Threads, MainThread
  <2>3. \A c \in Clients : open[c] => mutex[c] # "none"
    BY <2>1, <2>2 DEF RecordInv
  <2> QED BY <1>7, <2>3 DEF ScreenInit
<1>8. ASSUME NEW t \in Threads, RetakeList(t) PROVE ScreenAgrees'
  BY <1>8 DEF RetakeList
<1>9. ASSUME NEW t \in Threads, ChangeEnds(t) PROVE ScreenAgrees'
  BY <1>9 DEF ChangeEnds
<1>10. ASSUME NEW l \in Listeners, NEW c \in Clients, StartClient(l, c) PROVE ScreenAgrees'
  BY <1>10 DEF StartClient, Link, RecordInv
<1>11. ASSUME NEW l \in Listeners, SignalNewClient(l) PROVE ScreenAgrees'
  BY <1>11 DEF SignalNewClient
<1>12. CASE TestClients
  BY <1>12 DEF TestClients
<1>13. CASE Unregister
  BY <1>13 DEF Unregister
<1>14. CASE ClearRegistered
  BY <1>14 DEF ClearRegistered
<1>15. CASE Hibernate
  BY <1>15 DEF Hibernate
<1>16. CASE Awake
  BY <1>16 DEF Awake
<1>17. CASE RefreshBegins
  BY <1>17 DEF RefreshBegins
<1>18. ASSUME NEW c \in Clients, RefreshVisit(c) PROVE ScreenAgrees'
  BY <1>18 DEF RefreshVisit
<1>19. CASE RefreshEnds
  BY <1>19 DEF RefreshEnds
<1>20. CASE EventsEnd
  BY <1>20 DEF EventsEnd
<1>21. ASSUME NEW c \in Clients, SetRegistered(c) PROVE ScreenAgrees'
  BY <1>21 DEF SetRegistered
<1>22. ASSUME NEW c \in Clients, OutputEnds(c) PROVE ScreenAgrees'
  BY <1>22 DEF OutputEnds
<1>23. ASSUME NEW c \in Clients, ConnectionGone(c) PROVE ScreenAgrees'
  BY <1>23 DEF ConnectionGone, NotTold
<1>24. ASSUME NEW d \in Displays, DisplayChanges(d) PROVE ScreenAgrees'
  BY <1>24 DEF DisplayChanges
<1>25. ASSUME NEW l \in Listeners, AcceptConnection(l) PROVE ScreenAgrees'
  BY <1>25 DEF AcceptConnection
<1>26. ASSUME NEW c \in Clients, NEW inputPC \in {"reading", "orphan"}, ReverseConnect(c, inputPC) PROVE ScreenAgrees'
  BY <1>26 DEF ReverseConnect, Link, RecordInv
<1>27. CASE SpuriousWakeup
  BY <1>27 DEF SpuriousWakeup
<1>28. ASSUME NEW c \in Clients, ServerInit(c) PROVE ScreenAgrees'
  BY <1>28 DEF ServerInit
<1>29. ASSUME NEW c \in Clients, NEW desktopResize \in BOOLEAN, SetEncodings(c, desktopResize) PROVE ScreenAgrees'
  BY <1>29 DEF SetEncodings
<1>30. ASSUME NEW c \in Clients, Register(c) PROVE ScreenAgrees'
  BY <1>30 DEF Register
<1>31. ASSUME NEW c \in Clients, Disconnect(c) PROVE ScreenAgrees'
  BY <1>31 DEF Disconnect
<1>32. ASSUME NEW t \in Threads, ResolutionChange(t) PROVE ScreenAgrees'
  BY <1>32, <1>1, <1>2, <1>3, <1>4, <1>5, <1>6, <1>7, <1>8, <1>9 DEF ResolutionChange, Threads
<1>33. ASSUME NEW l \in Listeners, Listener(l) PROVE ScreenAgrees'
  BY <1>33, <1>10, <1>11, <1>32 DEF Listener, Threads
<1>34. CASE MainLoop
  BY <1>34, <1>12, <1>13, <1>14, <1>15, <1>16, <1>17, <1>18, <1>19,
     <1>20, <1>32 DEF MainLoop, Threads
<1>35. ASSUME NEW c \in Clients, ClientThreads(c) PROVE ScreenAgrees'
  BY <1>35, <1>21, <1>22, <1>23 DEF ClientThreads
<1>36. CASE Environment
  BY <1>36, <1>24, <1>25, <1>26, <1>27, <1>28, <1>29, <1>30, <1>31 DEF Environment
<1>37. CASE UNCHANGED vars
  BY <1>37
<1> QED BY <1>33, <1>34, <1>35, <1>36, <1>37 DEF Next

(* The flag is tested, and the callback registered, by one client at a     *)
(* time; the main thread unregisters only what the flag says.              *)
LEMMA NextRegister == TypeOK /\ RecordInv /\ RegisterInv /\ RegisteredOnce /\ [Next]_vars => (RegisterInv /\ RegisteredOnce)'
<1> SUFFICES ASSUME TypeOK, RecordInv, RegisterInv, RegisteredOnce, [Next]_vars PROVE (RegisterInv /\ RegisteredOnce)'
  OBVIOUS
<1> USE ConstantsAssumption DEF TypeOK, RegisterInv, RegisteredOnce, NobodyRegisters, Goto, Threads, MainThread, vars, screenVars, threadVars, lockVars, recordVars, refreshVars
<1>1. ASSUME NEW t \in Threads, Compare(t) PROVE (RegisterInv /\ RegisteredOnce)'
  BY <1>1 DEF Compare, AfterCheck
<1>2. ASSUME NEW t \in Threads, BlockListeners(t) PROVE (RegisterInv /\ RegisteredOnce)'
  BY <1>2 DEF BlockListeners
<1>3. ASSUME NEW t \in Threads, TakeList(t) PROVE (RegisterInv /\ RegisteredOnce)'
  BY <1>3 DEF TakeList
<1>4. ASSUME NEW t \in Threads, NEW c \in Clients, Grab(t, c) PROVE (RegisterInv /\ RegisteredOnce)'
  BY <1>4 DEF Grab
<1>5. ASSUME NEW t \in Threads, NEW c \in Clients, Notify(t, c) PROVE (RegisterInv /\ RegisteredOnce)'
  BY <1>5 DEF Notify
<1>6. ASSUME NEW t \in Threads, GrabEnds(t) PROVE (RegisterInv /\ RegisteredOnce)'
  BY <1>6 DEF GrabEnds
<1>7. ASSUME NEW t \in Threads, ScreenInit(t) PROVE (RegisterInv /\ RegisteredOnce)'
  BY <1>7 DEF ScreenInit
<1>8. ASSUME NEW t \in Threads, RetakeList(t) PROVE (RegisterInv /\ RegisteredOnce)'
  BY <1>8 DEF RetakeList
<1>9. ASSUME NEW t \in Threads, ChangeEnds(t) PROVE (RegisterInv /\ RegisteredOnce)'
  BY <1>9 DEF ChangeEnds, AfterCheck
<1>10. ASSUME NEW l \in Listeners, NEW c \in Clients, StartClient(l, c) PROVE (RegisterInv /\ RegisteredOnce)'
  BY <1>10 DEF StartClient, Link, RecordInv
<1>11. ASSUME NEW l \in Listeners, SignalNewClient(l) PROVE (RegisterInv /\ RegisteredOnce)'
  BY <1>11 DEF SignalNewClient
<1>12. CASE TestClients
  BY <1>12 DEF TestClients
<1>13. CASE Unregister
  BY <1>13 DEF Unregister
<1>14. CASE ClearRegistered
  BY <1>14 DEF ClearRegistered
<1>15. CASE Hibernate
  BY <1>15 DEF Hibernate
<1>16. CASE Awake
  BY <1>16 DEF Awake
<1>17. CASE RefreshBegins
  BY <1>17 DEF RefreshBegins
<1>18. ASSUME NEW c \in Clients, RefreshVisit(c) PROVE (RegisterInv /\ RegisteredOnce)'
  BY <1>18 DEF RefreshVisit
<1>19. CASE RefreshEnds
  BY <1>19 DEF RefreshEnds
<1>20. CASE EventsEnd
  BY <1>20 DEF EventsEnd
<1>21. ASSUME NEW c \in Clients, SetRegistered(c) PROVE (RegisterInv /\ RegisteredOnce)'
  BY <1>21 DEF SetRegistered
<1>22. ASSUME NEW c \in Clients, OutputEnds(c) PROVE (RegisterInv /\ RegisteredOnce)'
  BY <1>22 DEF OutputEnds
<1>23. ASSUME NEW c \in Clients, ConnectionGone(c) PROVE (RegisterInv /\ RegisteredOnce)'
  BY <1>23 DEF ConnectionGone
<1>24. ASSUME NEW d \in Displays, DisplayChanges(d) PROVE (RegisterInv /\ RegisteredOnce)'
  BY <1>24 DEF DisplayChanges
<1>25. ASSUME NEW l \in Listeners, AcceptConnection(l) PROVE (RegisterInv /\ RegisteredOnce)'
  BY <1>25 DEF AcceptConnection
<1>26. ASSUME NEW c \in Clients, NEW inputPC \in {"reading", "orphan"}, ReverseConnect(c, inputPC) PROVE (RegisterInv /\ RegisteredOnce)'
  BY <1>26 DEF ReverseConnect, Link, RecordInv
<1>27. CASE SpuriousWakeup
  BY <1>27 DEF SpuriousWakeup
<1>28. ASSUME NEW c \in Clients, ServerInit(c) PROVE (RegisterInv /\ RegisteredOnce)'
  BY <1>28 DEF ServerInit
<1>29. ASSUME NEW c \in Clients, NEW desktopResize \in BOOLEAN, SetEncodings(c, desktopResize) PROVE (RegisterInv /\ RegisteredOnce)'
  BY <1>29 DEF SetEncodings
<1>30. ASSUME NEW c \in Clients, Register(c) PROVE (RegisterInv /\ RegisteredOnce)'
  BY <1>30 DEF Register
<1>31. ASSUME NEW c \in Clients, Disconnect(c) PROVE (RegisterInv /\ RegisteredOnce)'
  BY <1>31 DEF Disconnect
<1>32. ASSUME NEW t \in Threads, ResolutionChange(t) PROVE (RegisterInv /\ RegisteredOnce)'
  BY <1>32, <1>1, <1>2, <1>3, <1>4, <1>5, <1>6, <1>7, <1>8, <1>9 DEF ResolutionChange, Threads
<1>33. ASSUME NEW l \in Listeners, Listener(l) PROVE (RegisterInv /\ RegisteredOnce)'
  BY <1>33, <1>10, <1>11, <1>32 DEF Listener, Threads
<1>34. CASE MainLoop
  BY <1>34, <1>12, <1>13, <1>14, <1>15, <1>16, <1>17, <1>18, <1>19,
     <1>20, <1>32 DEF MainLoop, Threads
<1>35. ASSUME NEW c \in Clients, ClientThreads(c) PROVE (RegisterInv /\ RegisteredOnce)'
  BY <1>35, <1>21, <1>22, <1>23 DEF ClientThreads
<1>36. CASE Environment
  BY <1>36, <1>24, <1>25, <1>26, <1>27, <1>28, <1>29, <1>30, <1>31 DEF Environment
<1>37. CASE UNCHANGED vars
  BY <1>37
<1> QED BY <1>33, <1>34, <1>35, <1>36, <1>37 DEF Next

-----------------------------------------------------------------------------
(* Everything together is inductive.                                      *)
IInv == /\ TypeOK
        /\ LockInv
        /\ RecordInv
        /\ VisitInv
        /\ MutexesReturned
        /\ ScreenAgrees
        /\ RegisterInv
        /\ RegisteredOnce

LEMMA InitIInv == Init => IInv
<1> SUFFICES ASSUME Init PROVE IInv
  OBVIOUS
<1>1. TypeOK
  BY InitTypeOK
<1>2. LockInv /\ VisitInv /\ MutexesReturned
  BY ConstantsAssumption DEF Init, LockInv, VisitInv, MutexesReturned, Blocking, Walking, Threads, MainThread
<1>3. RecordInv /\ ScreenAgrees
  BY DEF Init, RecordInv, ScreenAgrees, NotTold
<1>4. RegisterInv /\ RegisteredOnce
  BY DEF Init, RegisterInv, RegisteredOnce, NobodyRegisters, Threads
<1> QED BY <1>1, <1>2, <1>3, <1>4 DEF IInv

LEMMA NextIInv == IInv /\ [Next]_vars => IInv'
BY NextTypeOK, NextLockInv, NextRecordInv, NextVisitInv, NextMutexesReturned, NextScreenAgrees,
   NextRegister DEF IInv

LEMMA Invariance == Spec => []IInv
BY InitIInv, NextIInv, PTL DEF Spec

(* The variables of ServerLoop always have their types.                   *)
THEOREM TypeCorrect == Spec => []TypeOK
BY Invariance, PTL DEF IInv

(* The refresh callback is registered at most once, and the flag says so.  *)
THEOREM RegistrationCorrect == Spec => []RegisteredOnce
BY Invariance, PTL DEF IInv

(* No connected client that may use its geometry has another than the      *)
(* screen's.                                                               *)
THEOREM ScreenCorrect == Spec => []ScreenAgrees
BY Invariance, PTL DEF IInv

(* No mutex stays with a thread that is done with the change.              *)
THEOREM MutexesCorrect == Spec => []MutexesReturned
BY Invariance, PTL DEF IInv

(* The second walk of a resolution change unlocks only what the first one  *)
(* locked.                                                                 *)
THEOREM VisitsCorrect == Spec => []VisitsHeld
<1>1. IInv => VisitsHeld
  BY DEF IInv, VisitInv, VisitsHeld, Walking
<1> QED BY <1>1, Invariance, PTL

(* The geometry changes only while every client's mutex is kept.           *)
THEOREM PrivacyCorrect == Spec => GeometryChangesInPrivate
<1>1. IInv /\ [Next]_vars => [screen' # screen => \A c \in listed : mutex[c] # "none"]_vars
  <2> SUFFICES ASSUME IInv, Next, screen' # screen PROVE \A c \in listed : mutex[c] # "none"
    BY DEF vars
  <2>1. PICK t \in Threads : ScreenInit(t)
    BY DEF Next, MainLoop, ResolutionChange, Listener, ClientThreads, Environment, Threads, MainThread,
       Compare, BlockListeners, TakeList, Grab, Notify, GrabEnds, ScreenInit, RetakeList, ChangeEnds,
       StartClient, SignalNewClient, TestClients, Unregister, ClearRegistered, Hibernate, Awake,
       RefreshBegins, RefreshVisit, RefreshEnds, EventsEnd, SetRegistered, OutputEnds, ConnectionGone,
       DisplayChanges, AcceptConnection, ReverseConnect, SpuriousWakeup, ServerInit, SetEncodings,
       Register, Disconnect, screenVars
  <2>2. \A c \in listed : mutex[c] = t
    BY <2>1 DEF IInv, VisitInv, ScreenInit
  <2>3. t # "none"
    BY ConstantsAssumption DEF Threads, MainThread
  <2> QED BY <2>2, <2>3
<1> QED BY <1>1, Invariance, PTL DEF Spec, GeometryChangesInPrivate
=============================================================================
