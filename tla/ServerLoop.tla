------------------------------ MODULE ServerLoop ------------------------------
(***************************************************************************)
(* The server's main loop and its listeners (OSXvnc-server/main.c): going  *)
(* to sleep while nobody is connected, registering and unregistering the   *)
(* window server's refresh callback, and restarting on another geometry    *)
(* when the display changes.                                               *)
(*                                                                         *)
(* The main thread and the listener threads (IPv4, and IPv6 through a      *)
(* notification) share listenerAccepting, listenerGotNewClient, the list   *)
(* of clients and rfbScreen.  rfbCheckForScreenResolutionChange runs on    *)
(* any of them, and keeps the updateMutex of every client from before the  *)
(* screen is changed until that client was told.  A client's own uses of   *)
(* updateMutex are short here: UpdatePipeline has them in full.            *)
(***************************************************************************)
EXTENDS Integers

CONSTANTS
  Clients,                      \* the client records; one is reused after it is freed
  Listeners,                    \* the threads that accept connections
  Displays,                     \* what the display can look like, [size, depth]
  Reverse,                      \* those the server may use to connect to listening viewers
  UnregisterWhenNoConnections   \* the option of that name

MainThread == "main"
Threads == {MainThread} \cup Listeners

ASSUME ConstantsAssumption ==
  /\ "none" \notin Listeners
  /\ MainThread \notin Listeners
  /\ \A d \in Displays : {"size", "depth"} = DOMAIN d /\ d.depth \in Nat
  /\ Reverse \subseteq Clients
  /\ UnregisterWhenNoConnections \in BOOLEAN

VARIABLES
  display,     \* what CGDisplayPixelsWide/High and the display mode answer
  screen,      \* rfbScreen
  pc,          \* where each of the threads is
  changed,     \* sizeChange and colorChange of each thread's last comparison
  accepting,   \* who keeps listenerAccepting across steps
  listLock,    \* who keeps rfbClientListMutex across steps
  toVisit,     \* the records the one client iterator has still to return
  listed,      \* the records reachable from rfbClientHead
  inPC,        \* where clientInput is; "orphan": a record without threads
  outRuns,     \* clientOutput of the record has not returned
  open,        \* cl->sock # -1
  told,        \* the size the client was last sent, {} before ServerInit
  resizable,   \* cl->desktopSizeUpdate
  mutex,       \* which thread's resolution change keeps cl->updateMutex
  registered,  \* the flag of that name
  callbacks    \* how often refreshCallback is registered at the window server

screenVars == <<display, screen>>
threadVars == <<pc, changed>>
lockVars   == <<accepting, listLock, toVisit>>
recordVars == <<listed, inPC, outRuns, open, told, resizable, mutex>>
refreshVars == <<registered, callbacks>>
vars == <<display, screen, pc, changed, accepting, listLock, toVisit, listed,
          inPC, outRuns, open, told, resizable, mutex, registered, callbacks>>

-----------------------------------------------------------------------------
NoChange == [size |-> FALSE, depth |-> FALSE]
Changes == [size : BOOLEAN, depth : BOOLEAN]

Sizes == {d.size : d \in Displays}
NotTold == {}

(* bitsPerPixelForDisplay answers 0 for a pixel encoding it does not know. *)
Unknown == 0

(* pthread_mutex_lock(&listenerAccepting) and rfbGetClientIterator go      *)
(* through, and so does pthread_mutex_lock(&cl->updateMutex).              *)
AcceptingFreeAlways == TRUE
AcceptingFree == accepting = "none"
ListFree == listLock = "none"
MutexFree(c) == mutex[c] = "none"

Goto(t, label) == pc' = [pc EXCEPT ![t] = label]

Init ==
  /\ display \in Displays
  /\ screen = display
  /\ pc = [t \in Threads |-> IF t = MainThread THEN "events" ELSE "accept"]
  /\ changed = [t \in Threads |-> NoChange]
  /\ accepting = "none"
  /\ listLock = "none"
  /\ toVisit = {}
  /\ listed = {}
  /\ inPC = [c \in Clients |-> "absent"]
  /\ outRuns = [c \in Clients |-> FALSE]
  /\ open = [c \in Clients |-> FALSE]
  /\ told = [c \in Clients |-> NotTold]
  /\ resizable = [c \in Clients |-> FALSE]
  /\ mutex = [c \in Clients |-> "none"]
  /\ registered = FALSE
  /\ callbacks = 0

(* Somebody changes the resolution or the depth of the display.            *)
DisplayChanges(d) ==
  /\ d # display
  /\ display' = d
  /\ UNCHANGED <<screen, threadVars, lockVars, recordVars, refreshVars>>

-----------------------------------------------------------------------------
(* rfbCheckForScreenResolutionChange, on the main thread or a listener.    *)

AfterCheck(t) == IF t = MainThread THEN "events" ELSE "start"

(* The comparison is made without any lock; what it found is kept in two   *)
(* locals while the thread waits for listenerAccepting.                    *)
(* A display whose pixel format it does not know has no other depth.       *)
OtherDepth == display.depth # Unknown /\ display.depth # screen.depth

DifferenceInDepth == [size |-> FALSE, depth |-> OtherDepth]
Difference == [size |-> display.size # screen.size, depth |-> OtherDepth]

Compare(t) ==
  /\ pc[t] = "compare"
  /\ changed' = [changed EXCEPT ![t] = Difference]
  /\ Goto(t, IF Difference = NoChange THEN AfterCheck(t) ELSE "block")
  /\ UNCHANGED <<screenVars, lockVars, recordVars, refreshVars>>

(* No new client may be accepted until the change is over.                 *)
BlockListeners(t) ==
  /\ pc[t] = "block"
  /\ AcceptingFree
  /\ accepting' = t
  /\ Goto(t, "takeList")
  /\ UNCHANGED <<screenVars, changed, listLock, toVisit, recordVars, refreshVars>>

(* The first walk takes every client's updateMutex, and keeps it.          *)
TakeList(t) ==
  /\ pc[t] = "takeList"
  /\ ListFree
  /\ listLock' = t
  /\ toVisit' = listed
  /\ Goto(t, "grab")
  /\ UNCHANGED <<screenVars, changed, accepting, recordVars, refreshVars>>

Grab(t, c) ==
  /\ pc[t] = "grab"
  /\ c \in toVisit
  /\ MutexFree(c)
  /\ mutex' = [mutex EXCEPT ![c] = t]
  /\ toVisit' = toVisit \ {c}
  /\ UNCHANGED <<screenVars, threadVars, accepting, listLock, listed, inPC,
                 outRuns, open, told, resizable, refreshVars>>

GrabEnds(t) ==
  /\ pc[t] = "grab"
  /\ toVisit = {}
  /\ listLock' = "none"
  /\ Goto(t, "init")
  /\ UNCHANGED <<screenVars, changed, accepting, toVisit, recordVars, refreshVars>>

(* rfbScreenInit, until it succeeds.                                       *)
ScreenInit(t) ==
  /\ pc[t] = "init"
  /\ screen' = display
  /\ Goto(t, "retakeList")
  /\ UNCHANGED <<display, changed, lockVars, recordVars, refreshVars>>

(* The second walk tells or closes each client, and lets go of its mutex.  *)
RetakeList(t) ==
  /\ pc[t] = "retakeList"
  /\ ListFree
  /\ listLock' = t
  /\ toVisit' = listed
  /\ Goto(t, "notify")
  /\ UNCHANGED <<screenVars, changed, accepting, recordVars, refreshVars>>

Told(t, c) == changed[t].size /\ resizable[c]

NotifyKeepsOpen(t, c) ==
  /\ pc[t] = "notify"
  /\ c \in toVisit
  /\ told' = IF Told(t, c) THEN [told EXCEPT ![c] = {screen.size}] ELSE told
  /\ mutex' = [mutex EXCEPT ![c] = "none"]
  /\ toVisit' = toVisit \ {c}
  /\ UNCHANGED <<screenVars, threadVars, accepting, listLock, listed, inPC,
                 outRuns, open, resizable, refreshVars>>

NotifySkipsClosed(t, c) ==
  /\ pc[t] = "notify"
  /\ c \in toVisit
  /\ told' = IF Told(t, c) THEN [told EXCEPT ![c] = {screen.size}] ELSE told
  /\ open' = IF Told(t, c) THEN open ELSE [open EXCEPT ![c] = FALSE]
  /\ mutex' = IF open[c] THEN [mutex EXCEPT ![c] = "none"] ELSE mutex
  /\ toVisit' = toVisit \ {c}
  /\ UNCHANGED <<screenVars, threadVars, accepting, listLock, listed, inPC,
                 outRuns, resizable, refreshVars>>

Notify(t, c) ==
  /\ pc[t] = "notify"
  /\ c \in toVisit
  /\ told' = IF Told(t, c) THEN [told EXCEPT ![c] = {screen.size}] ELSE told
  /\ open' = IF Told(t, c) THEN open ELSE [open EXCEPT ![c] = FALSE]
  /\ mutex' = [mutex EXCEPT ![c] = "none"]
  /\ toVisit' = toVisit \ {c}
  /\ UNCHANGED <<screenVars, threadVars, accepting, listLock, listed, inPC,
                 outRuns, resizable, refreshVars>>

ChangeEnds(t) ==
  /\ pc[t] = "notify"
  /\ toVisit = {}
  /\ listLock' = "none"
  /\ accepting' = "none"
  /\ changed' = [changed EXCEPT ![t] = NoChange]
  /\ Goto(t, AfterCheck(t))
  /\ UNCHANGED <<screenVars, toVisit, recordVars, refreshVars>>

-----------------------------------------------------------------------------
(* rfbNewClient's part of the list; nothing else of the new record is      *)
(* seen by these threads.  inputPC is "orphan" when the greeting failed    *)
(* and no thread will ever serve (or free) the record.                     *)
Link(c, inputPC) ==
  /\ inPC[c] = "absent"
  /\ ListFree
  /\ listed' = listed \cup {c}
  /\ inPC' = [inPC EXCEPT ![c] = inputPC]
  /\ outRuns' = [outRuns EXCEPT ![c] = inputPC = "reading"]
  /\ open' = [open EXCEPT ![c] = inputPC = "reading"]
  /\ UNCHANGED <<told, resizable, mutex>>

(* The listeners: accept returned, and rfbStartClientWithFD looks for a    *)
(* new geometry if nobody is connected (read without a lock) ...           *)
AcceptConnection(l) ==
  /\ pc[l] = "accept"
  /\ Goto(l, IF listed = {} THEN "compare" ELSE "start")
  /\ UNCHANGED <<screenVars, changed, lockVars, recordVars, refreshVars>>

(* ... makes the record under listenerAccepting ...                        *)
StartClientUnlocked(l, c) ==
  /\ pc[l] = "start"
  /\ Link(c, "reading")
  /\ Goto(l, "signal")
  /\ UNCHANGED <<screenVars, changed, lockVars, refreshVars>>

StartClient(l, c) ==
  /\ pc[l] = "start"
  /\ AcceptingFree
  /\ Link(c, "reading")
  /\ Goto(l, "signal")
  /\ UNCHANGED <<screenVars, changed, lockVars, refreshVars>>

(* ... and signals the main thread, after the unlock.                      *)
SignalNewClient(l) ==
  /\ pc[l] = "signal"
  /\ pc' = [pc EXCEPT ![l] = "accept",
                      ![MainThread] = IF @ = "hibernate" THEN "awake" ELSE @]
  /\ UNCHANGED <<screenVars, changed, lockVars, recordVars, refreshVars>>

(* connectReverseClient, from the command line or a notification.  Its     *)
(* signal finds nobody waiting: the main thread itself sends it.           *)
ReverseConnect(c, inputPC) ==
  /\ c \in Reverse
  /\ pc[MainThread] = "events"
  /\ AcceptingFree
  /\ Link(c, inputPC)
  /\ UNCHANGED <<screenVars, threadVars, lockVars, refreshVars>>

-----------------------------------------------------------------------------
(* The main loop.                                                          *)

(* rfbClientsConnected, without a lock.                                    *)
TestClients ==
  /\ pc[MainThread] = "test"
  /\ Goto(MainThread, IF listed = {} THEN "fallAsleep" ELSE "compare")
  /\ UNCHANGED <<screenVars, changed, lockVars, recordVars, refreshVars>>

(* The refresh callback is unregistered, under listenerAccepting only; the *)
(* flag follows.                                                           *)
Unregister ==
  /\ pc[MainThread] = "fallAsleep"
  /\ AcceptingFree
  /\ registered /\ UnregisterWhenNoConnections
  /\ accepting' = MainThread
  /\ callbacks' = callbacks - 1
  /\ Goto(MainThread, "unregistered")
  /\ UNCHANGED <<screenVars, changed, listLock, toVisit, recordVars, registered>>

ClearRegistered ==
  /\ pc[MainThread] = "unregistered"
  /\ registered' = FALSE
  /\ accepting' = "none"
  /\ Goto(MainThread, "hibernate")
  /\ UNCHANGED <<screenVars, changed, listLock, toVisit, recordVars, callbacks>>

(* pthread_cond_wait releases listenerAccepting and sleeps in one step.    *)
Hibernate ==
  /\ pc[MainThread] = "fallAsleep"
  /\ AcceptingFree
  /\ ~(registered /\ UnregisterWhenNoConnections)
  /\ Goto(MainThread, "hibernate")
  /\ UNCHANGED <<screenVars, changed, lockVars, recordVars, refreshVars>>

SpuriousWakeup ==
  /\ pc[MainThread] = "hibernate"
  /\ Goto(MainThread, "awake")
  /\ UNCHANGED <<screenVars, changed, lockVars, recordVars, refreshVars>>

(* pthread_cond_wait takes listenerAccepting again before it returns.      *)
Awake ==
  /\ pc[MainThread] = "awake"
  /\ AcceptingFree
  /\ Goto(MainThread, "compare")
  /\ UNCHANGED <<screenVars, changed, lockVars, recordVars, refreshVars>>

(* RunCurrentEventLoop: the refresh callback locks each client in turn.    *)
RefreshBegins ==
  /\ pc[MainThread] = "events"
  /\ callbacks > 0
  /\ ListFree
  /\ listLock' = MainThread
  /\ toVisit' = listed
  /\ Goto(MainThread, "refresh")
  /\ UNCHANGED <<screenVars, changed, accepting, recordVars, refreshVars>>

RefreshVisit(c) ==
  /\ pc[MainThread] = "refresh"
  /\ c \in toVisit
  /\ MutexFree(c)
  /\ toVisit' = toVisit \ {c}
  /\ UNCHANGED <<screenVars, threadVars, accepting, listLock, recordVars, refreshVars>>

RefreshEnds ==
  /\ pc[MainThread] = "refresh"
  /\ toVisit = {}
  /\ listLock' = "none"
  /\ Goto(MainThread, "events")
  /\ UNCHANGED <<screenVars, changed, accepting, toVisit, recordVars, refreshVars>>

EventsEnd ==
  /\ pc[MainThread] = "events"
  /\ Goto(MainThread, "test")
  /\ UNCHANGED <<screenVars, changed, lockVars, recordVars, refreshVars>>

-----------------------------------------------------------------------------
(* The clients.                                                            *)

(* rfbProcessClientInitMessage sends the size rfbScreen has, without a     *)
(* lock.                                                                   *)
ServerInit(c) ==
  /\ inPC[c] = "reading"
  /\ open[c]
  /\ told[c] = NotTold
  /\ told' = [told EXCEPT ![c] = {screen.size}]
  /\ UNCHANGED <<screenVars, threadVars, lockVars, listed, inPC, outRuns, open,
                 resizable, mutex, refreshVars>>

(* rfbSetEncodings clears desktopSizeUpdate and sets it again if asked to, *)
(* under updateMutex.                                                      *)
SetEncodings(c, desktopResize) ==
  /\ inPC[c] = "reading"
  /\ open[c]
  /\ told[c] # NotTold
  /\ MutexFree(c)
  /\ resizable' = [resizable EXCEPT ![c] = desktopResize]
  /\ UNCHANGED <<screenVars, threadVars, lockVars, listed, inPC, outRuns, open,
                 told, mutex, refreshVars>>

(* After a message that left a request outstanding, clientInput registers  *)
(* the callback if the flag is not set; @synchronized lets one thread at a *)
(* time look.                                                              *)
NobodyRegisters == \A d \in Clients : inPC[d] # "registering"

RegisterUnsynchronized(c) ==
  /\ inPC[c] = "reading"
  /\ told[c] # NotTold
  /\ ~registered
  /\ callbacks' = callbacks + 1
  /\ inPC' = [inPC EXCEPT ![c] = "registering"]
  /\ UNCHANGED <<screenVars, threadVars, lockVars, listed, outRuns, open, told,
                 resizable, mutex, registered>>

Register(c) ==
  /\ inPC[c] = "reading"
  /\ told[c] # NotTold
  /\ NobodyRegisters
  /\ ~registered
  /\ callbacks' = callbacks + 1
  /\ inPC' = [inPC EXCEPT ![c] = "registering"]
  /\ UNCHANGED <<screenVars, threadVars, lockVars, listed, outRuns, open, told,
                 resizable, mutex, registered>>

SetRegistered(c) ==
  /\ inPC[c] = "registering"
  /\ registered' = TRUE
  /\ inPC' = [inPC EXCEPT ![c] = "reading"]
  /\ UNCHANGED <<screenVars, threadVars, lockVars, listed, outRuns, open, told,
                 resizable, mutex, callbacks>>

(* The peer goes away, or another client shuts this one out.               *)
Disconnect(c) ==
  /\ open[c]
  /\ open' = [open EXCEPT ![c] = FALSE]
  /\ UNCHANGED <<screenVars, threadVars, lockVars, listed, inPC, outRuns, told,
                 resizable, mutex, refreshVars>>

OutputEnds(c) ==
  /\ outRuns[c]
  /\ ~open[c]
  /\ MutexFree(c)
  /\ outRuns' = [outRuns EXCEPT ![c] = FALSE]
  /\ UNCHANGED <<screenVars, threadVars, lockVars, listed, inPC, open, told,
                 resizable, mutex, refreshVars>>

(* clientInput joined clientOutput: rfbClientConnectionGone unlinks the    *)
(* record and frees it, its mutexes included.                              *)
ConnectionGone(c) ==
  /\ inPC[c] = "reading"
  /\ ~open[c]
  /\ ~outRuns[c]
  /\ ListFree
  /\ listed' = listed \ {c}
  /\ inPC' = [inPC EXCEPT ![c] = "absent"]
  /\ told' = [told EXCEPT ![c] = NotTold]
  /\ resizable' = [resizable EXCEPT ![c] = FALSE]
  /\ mutex' = [mutex EXCEPT ![c] = "none"]
  /\ UNCHANGED <<screenVars, threadVars, lockVars, outRuns, open, refreshVars>>

-----------------------------------------------------------------------------
ResolutionChange(t) ==
  \/ Compare(t)
  \/ BlockListeners(t)
  \/ TakeList(t)
  \/ \E c \in Clients : Grab(t, c) \/ Notify(t, c)
  \/ GrabEnds(t)
  \/ ScreenInit(t)
  \/ RetakeList(t)
  \/ ChangeEnds(t)

Listener(l) ==
  \/ \E c \in Clients : StartClient(l, c)
  \/ SignalNewClient(l)
  \/ ResolutionChange(l)

MainLoop ==
  \/ TestClients
  \/ Unregister
  \/ ClearRegistered
  \/ Hibernate
  \/ Awake
  \/ RefreshBegins
  \/ \E c \in Clients : RefreshVisit(c)
  \/ RefreshEnds
  \/ EventsEnd
  \/ ResolutionChange(MainThread)

ClientThreads(c) ==
  \/ SetRegistered(c)
  \/ OutputEnds(c)
  \/ ConnectionGone(c)

Environment ==
  \/ \E d \in Displays : DisplayChanges(d)
  \/ \E l \in Listeners : AcceptConnection(l)
  \/ \E c \in Clients, inputPC \in {"reading", "orphan"} : ReverseConnect(c, inputPC)
  \/ SpuriousWakeup
  \/ \E c \in Clients : \/ ServerInit(c)
                        \/ \E desktopResize \in BOOLEAN : SetEncodings(c, desktopResize)
                        \/ Register(c)
                        \/ Disconnect(c)

Next ==
  \/ MainLoop
  \/ \E l \in Listeners : Listener(l)
  \/ \E c \in Clients : ClientThreads(c)
  \/ Environment

Spec == Init /\ [][Next]_vars

(* The threads that have something to do go on doing it; connections,      *)
(* messages, changes of the display and spurious wakeups come or do not.   *)
(* The event loop is run for a thirtieth of a second at a time, so it ends *)
(* however many refreshes it delivers.                                     *)
FairSpec ==
  /\ Spec
  /\ WF_vars(MainLoop)
  /\ WF_vars(EventsEnd)
  /\ \A l \in Listeners : WF_vars(Listener(l))
  /\ \A c \in Clients : WF_vars(ClientThreads(c))

-----------------------------------------------------------------------------
(* Properties.                                                             *)

ChangePCs == {"compare", "block", "takeList", "grab", "init", "retakeList", "notify"}
MainPCs == ChangePCs \cup {"events", "test", "fallAsleep", "unregistered",
                           "hibernate", "awake", "refresh"}
ListenerPCs == ChangePCs \cup {"accept", "start", "signal"}

(* Every variable stays in the range its code gives it.                    *)
TypeOK ==
  /\ display \in Displays /\ screen \in Displays
  /\ pc \in [Threads -> MainPCs \cup ListenerPCs]
  /\ pc[MainThread] \in MainPCs
  /\ \A l \in Listeners : pc[l] \in ListenerPCs
  /\ changed \in [Threads -> Changes]
  /\ accepting \in Threads \cup {"none"}
  /\ listLock \in Threads \cup {"none"}
  /\ toVisit \subseteq Clients
  /\ listed \subseteq Clients
  /\ inPC \in [Clients -> {"absent", "reading", "registering", "orphan"}]
  /\ outRuns \in [Clients -> BOOLEAN]
  /\ open \in [Clients -> BOOLEAN]
  /\ told \in [Clients -> SUBSET Sizes]
  /\ resizable \in [Clients -> BOOLEAN]
  /\ mutex \in [Clients -> Threads \cup {"none"}]
  /\ registered \in BOOLEAN
  /\ callbacks \in {0, 1}

(* The refresh callback is registered once or not at all, and whenever no  *)
(* thread is between the call and its flag, the flag says which            *)
(* (main.c:435: registering twice can lose the notices).                   *)
RegisteredOnce ==
  /\ callbacks \in {0, 1}
  /\ NobodyRegisters /\ pc[MainThread] # "unregistered" => (registered <=> callbacks = 1)

(* A client that is connected and whose updateMutex no resolution change   *)
(* keeps was last told the size rfbScreen has: nothing can be encoded for  *)
(* it, or asked by it, in terms of another geometry.                       *)
ScreenAgrees ==
  \A c \in Clients : open[c] /\ MutexFree(c) => told[c] \in {NotTold, {screen.size}}

(* The second walk of a resolution change finds only clients whose mutex   *)
(* the first walk took: none joined the list in between, and nobody else   *)
(* let go of it (main.c:319 unlocks what it visits).                       *)
VisitsHeld ==
  \A t \in Threads : pc[t] = "notify" => \A c \in toVisit : mutex[c] = t

(* No updateMutex is kept by a thread that is not changing the screen.     *)
MutexesReturned ==
  \A c \in Clients : mutex[c] # "none" =>
    accepting = mutex[c] /\ pc[mutex[c]] \in {"grab", "init", "retakeList", "notify"}

(* The geometry only changes while every connected client that was told    *)
(* one is locked out of using it.                                          *)
GeometryChangesInPrivate ==
  [][screen' # screen => \A c \in listed : mutex[c] # "none"]_vars

(* As long as the main loop turns, a display that stops changing is the    *)
(* one the connected clients see; of one whose depth cannot be told they   *)
(* see the size, at whatever depth the screen last had (main.c:243).  That *)
(* the loop turns is a hypothesis: it does not once it is caught between a *)
(* resolution change and a client that ends (AcceptsAgain), or asleep      *)
(* while somebody is connected (ClientsWakeServer).                        *)
Followed == screen.size = display.size /\ display.depth \in {Unknown, screen.depth}

ScreenFollows ==
  (/\ []<>(pc[MainThread] = "test")
   /\ <>[][display' = display]_display)
  => []<>(Followed \/ listed = {})

(* "Accept new connections again" (main.c:324): a thread that blocks the   *)
(* listeners for a resolution change lets them go on.                      *)
AcceptsAgain ==
  \A t \in Threads : (accepting = t) ~> (accepting # t)

(* main.c:1289: the server hibernates because there are no clients.  One   *)
(* that connects wakes it up, or it would get no updates.                  *)
ClientsWakeServer ==
  \A c \in Clients : open[c] ~> (~open[c] \/ pc[MainThread] # "hibernate")

=============================================================================
