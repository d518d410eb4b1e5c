--------------------------- MODULE UpdatePipeline ---------------------------
(***************************************************************************)
(* How the server keeps its clients' copies of the screen up to date       *)
(* (OSXvnc-server/main.c, rfbserver.c, mousecursor.c).                     *)
(*                                                                         *)
(* Every client record is served by two threads: clientInput reads the     *)
(* protocol messages, clientOutput sends the framebuffer updates.  The     *)
(* main thread runs the event loop, in which the window server's refresh   *)
(* callback reports damaged rectangles and rfbCheckForCursorChange looks   *)
(* at the cursor.  The three meet in modifiedRegion and requestedRegion,   *)
(* under updateMutex and updateCond, and in the list of clients, under     *)
(* rfbClientListMutex.                                                     *)
(*                                                                         *)
(* The content of a pixel is abstracted to one bit per client: whether     *)
(* what the server last encoded for that client is what the screen shows.  *)
(* A region is a set of Pixels.                                            *)
(***************************************************************************)
EXTENDS FiniteSets

CONSTANTS
  Clients,          \* the client records; a record is reused after it is freed
  Pixels,           \* the pixels of the screen
  DeferUpdate,      \* rfbDeferUpdateTime > 0
  Encodings,        \* do clients send SetEncodings in the run
  BrokenEncodings,  \* may a connection break inside a SetEncodings message
  UnregisterWhenNoConnections   \* not -keepregistration

ASSUME ConstantsAssumption ==
  /\ Pixels # {}
  /\ DeferUpdate \in BOOLEAN
  /\ Encodings \in BOOLEAN
  /\ BrokenEncodings \in BOOLEAN
  /\ UnregisterWhenNoConnections \in BOOLEAN

VARIABLES
  inPC,        \* where clientInput of the record is; "absent": there is no record
  outPC,       \* where clientOutput of the record is
  open,        \* cl->sock # -1
  mutex,       \* who holds cl->updateMutex: "none", "in", "out" ("main" never keeps it)
  modified,    \* cl->modifiedRegion
  requested,   \* cl->requestedRegion
  sending,     \* the part of clientOutput's updateRegion not yet encoded
  immediate,   \* cl->immediateUpdate
  rich,        \* cl->useRichCursorEncoding
  cursorDue,   \* cl->currentCursorSeed # lastCursorSeed
  stale,       \* pixels the client was last sent with another content
  listed,      \* the records reachable from rfbClientHead
  mainPC,      \* what the main thread does: "idle" in its loop, or inside a handler
  toVisit,     \* the records the main thread's iterator has still to return
  rect,        \* the rectangle refreshCallback is adding
  pending,     \* damage the window server has still to report
  registered   \* the refresh callback is registered at the window server

inputVars  == <<inPC, open>>
regionVars == <<modified, requested, sending>>
flagVars   == <<immediate, rich, cursorDue>>
mainVars   == <<mainPC, toVisit, rect>>
vars == <<inPC, outPC, open, mutex, modified, requested, sending, immediate,
          rich, cursorDue, stale, listed, mainPC, toVisit, rect, pending,
          registered>>

-----------------------------------------------------------------------------
(* rfbGetClientIterator holds rfbClientListMutex until the main thread     *)
(* releases the iterator; every other holder releases it at once.          *)
ListFreeAlways == TRUE
ListFree == mainPC \notin {"refresh", "cursor"}

(* pthread_mutex_lock(&cl->updateMutex) goes through.                      *)
MutexFreeAlways(c) == TRUE
MutexFree(c) == mutex[c] = "none"

(* pthread_cond_signal(&cl->updateCond): only clientOutput ever waits, and *)
(* a thread that is woken has to take updateMutex again.                   *)
WokenLost(c) == outPC[c]
Woken(c) == IF outPC[c] = "wait" THEN "lock" ELSE outPC[c]

Signal(c) == outPC' = [outPC EXCEPT ![c] = Woken(c)]

Live(c) == inPC[c] # "absent"

Init ==
  /\ inPC = [c \in Clients |-> "absent"]
  /\ outPC = [c \in Clients |-> "absent"]
  /\ open = [c \in Clients |-> FALSE]
  /\ mutex = [c \in Clients |-> "none"]
  /\ modified = [c \in Clients |-> {}]
  /\ requested = [c \in Clients |-> {}]
  /\ sending = [c \in Clients |-> {}]
  /\ immediate = [c \in Clients |-> FALSE]
  /\ rich = [c \in Clients |-> FALSE]
  /\ cursorDue = [c \in Clients |-> FALSE]
  /\ stale = [c \in Clients |-> {}]
  /\ listed = {}
  /\ mainPC = "idle"
  /\ toVisit = {}
  /\ rect = {}
  /\ pending = {}
  /\ registered = FALSE

-----------------------------------------------------------------------------
(* The screen.                                                             *)

(* An application draws: every client's copy is out of date, and the       *)
(* window server has damage to report if it was asked to.                  *)
Draw(p) ==
  /\ stale' = [c \in Clients |-> IF Live(c) THEN stale[c] \cup {p} ELSE stale[c]]
  /\ pending' = IF registered THEN pending \cup {p} ELSE pending
  /\ UNCHANGED <<inPC, outPC, open, mutex, regionVars, flagVars, listed,
                 mainVars, registered>>

-----------------------------------------------------------------------------
(* The main thread.                                                        *)

(* refreshCallback is entered with one rectangle and takes the iterator.   *)
RefreshBegin(r) ==
  /\ mainPC = "idle"
  /\ r # {}
  /\ mainPC' = "refresh"
  /\ toVisit' = listed
  /\ rect' = r
  /\ pending' = pending \ r
  /\ UNCHANGED <<inPC, outPC, open, mutex, regionVars, flagVars, stale,
                 listed, registered>>

RefreshVisitIfAsked(c) ==
  /\ mainPC = "refresh"
  /\ c \in toVisit
  /\ MutexFree(c)
  /\ modified' = [modified EXCEPT ![c] = IF requested[c] = {} THEN @ ELSE @ \cup rect]
  /\ Signal(c)
  /\ toVisit' = toVisit \ {c}
  /\ UNCHANGED <<inputVars, mutex, requested, sending, flagVars, stale, listed,
                 mainPC, rect, pending, registered>>

(* One turn of refreshCallback's loop.  The signal follows the unlock; it  *)
(* is one step with it because clientOutput looks at the region whenever   *)
(* it gets the mutex in between.                                           *)
RefreshVisit(c) ==
  /\ mainPC = "refresh"
  /\ c \in toVisit
  /\ MutexFree(c)
  /\ modified' = [modified EXCEPT ![c] = @ \cup rect]
  /\ Signal(c)
  /\ toVisit' = toVisit \ {c}
  /\ UNCHANGED <<inputVars, mutex, requested, sending, flagVars, stale, listed,
                 mainPC, rect, pending, registered>>

(* rfbCheckForCursorChange records the new seed, under cursorMutex: from   *)
(* here every client that draws the cursor itself is due a new shape.      *)
CursorChange ==
  /\ mainPC = "idle"
  /\ cursorDue' = rich
  /\ mainPC' = "cursorNotice"
  /\ UNCHANGED <<inPC, outPC, open, mutex, regionVars, immediate, rich, stale,
                 listed, toVisit, rect, pending, registered>>

(* It then takes the iterator (ListFree holds: nobody keeps the list) ...  *)
CursorBegin ==
  /\ mainPC = "cursorNotice"
  /\ mainPC' = "cursor"
  /\ toVisit' = listed
  /\ UNCHANGED <<inPC, outPC, open, mutex, regionVars, flagVars, stale, listed,
                 rect, pending, registered>>

(* ... and signals every client that is due, without its updateMutex.      *)
CursorVisit(c) ==
  /\ mainPC = "cursor"
  /\ c \in toVisit
  /\ outPC' = [outPC EXCEPT ![c] = IF cursorDue[c] THEN Woken(c) ELSE @]
  /\ toVisit' = toVisit \ {c}
  /\ UNCHANGED <<inputVars, mutex, regionVars, flagVars, stale, listed, mainPC,
                 rect, pending, registered>>

(* rfbReleaseClientIterator.                                               *)
IteratorEnd ==
  /\ mainPC \in {"refresh", "cursor"}
  /\ toVisit = {}
  /\ mainPC' = "idle"
  /\ rect' = {}
  /\ UNCHANGED <<inPC, outPC, open, mutex, regionVars, flagVars, stale, listed,
                 toVisit, pending, registered>>

(* rfbClientsConnected says no: the main loop is about to hibernate, and   *)
(* does not look again.                                                    *)
NoClients ==
  /\ mainPC = "idle"
  /\ listed = {}
  /\ mainPC' = "hibernate"
  /\ UNCHANGED <<inPC, outPC, open, mutex, regionVars, flagVars, stale, listed,
                 toVisit, rect, pending, registered>>

(* Under listenerAccepting the callback is unregistered, unless it is to   *)
(* be kept, and what was not yet reported never is; then the main thread   *)
(* waits for the listeners.                                                *)
(* A client thread that finds the flag still set in between does nothing.  *)
Hibernate ==
  /\ mainPC = "hibernate"
  /\ mainPC' = "sleep"
  /\ registered' = (registered /\ ~UnregisterWhenNoConnections)
  /\ pending' = IF UnregisterWhenNoConnections THEN {} ELSE pending
  /\ UNCHANGED <<inPC, outPC, open, mutex, regionVars, flagVars, stale, listed,
                 toVisit, rect>>

(* pthread_cond_wait on listenerGotNewClient returns with no new client.   *)
MainWakes ==
  /\ mainPC = "sleep"
  /\ mainPC' = "idle"
  /\ UNCHANGED <<inPC, outPC, open, mutex, regionVars, flagVars, stale, listed,
                 toVisit, rect, pending, registered>>

-----------------------------------------------------------------------------
(* The input thread.                                                       *)

(* rfbStartClientWithFD: rfbNewClient fills the record, with all of the    *)
(* screen modified, links it into the list and greets the peer; then       *)
(* clientInput is started, which starts clientOutput.  The main thread is  *)
(* signalled, which it hears if it sleeps already.                         *)
Accept(c) ==
  /\ inPC[c] = "absent"
  /\ ListFree
  /\ inPC' = [inPC EXCEPT ![c] = "recv"]
  /\ outPC' = [outPC EXCEPT ![c] = "lock"]
  /\ open' = [open EXCEPT ![c] = TRUE]
  /\ modified' = [modified EXCEPT ![c] = Pixels]
  /\ stale' = [stale EXCEPT ![c] = Pixels]
  /\ listed' = listed \cup {c}
  /\ mainPC' = IF mainPC = "sleep" THEN "idle" ELSE mainPC
  /\ UNCHANGED <<mutex, requested, sending, flagVars, toVisit, rect, pending,
                 registered>>

(* rfbFramebufferUpdateRequest for r, which may have been read before the  *)
(* socket was closed.  As in RefreshVisit the signal follows the unlock.   *)
UpdateRequest(c, r, incremental) ==
  /\ inPC[c] = "recv"
  /\ MutexFree(c)
  /\ requested' = [requested EXCEPT ![c] = @ \cup r]
  /\ modified' = IF incremental THEN modified
                 ELSE [modified EXCEPT ![c] = @ \cup r]
  /\ Signal(c)
  /\ inPC' = [inPC EXCEPT ![c] = "check"]
  /\ UNCHANGED <<open, mutex, sending, flagVars, stale, listed, mainVars,
                 pending, registered>>

(* rfbSetEncodings takes updateMutex, clears what the last SetEncodings    *)
(* set and reads the list from the socket with the mutex held.             *)
EncodingsBegin(c) ==
  /\ Encodings
  /\ inPC[c] = "recv"
  /\ MutexFree(c)
  /\ mutex' = [mutex EXCEPT ![c] = "in"]
  /\ immediate' = [immediate EXCEPT ![c] = FALSE]
  /\ rich' = [rich EXCEPT ![c] = FALSE]
  /\ cursorDue' = [cursorDue EXCEPT ![c] = FALSE]
  /\ inPC' = [inPC EXCEPT ![c] = "encodings"]
  /\ UNCHANGED <<outPC, open, regionVars, stale, listed, mainVars, pending,
                 registered>>

(* The whole list was read: with a rich cursor a shape is due at once.     *)
EncodingsEnd(c, useRich, now) ==
  /\ inPC[c] = "encodings"
  /\ mutex' = [mutex EXCEPT ![c] = "none"]
  /\ immediate' = [immediate EXCEPT ![c] = now]
  /\ rich' = [rich EXCEPT ![c] = useRich]
  /\ cursorDue' = [cursorDue EXCEPT ![c] = useRich]
  /\ outPC' = [outPC EXCEPT ![c] = IF useRich THEN Woken(c) ELSE @]
  /\ inPC' = [inPC EXCEPT ![c] = "check"]
  /\ UNCHANGED <<open, regionVars, stale, listed, mainVars, pending, registered>>

(* ReadExact fails inside the list: the record is closed and the handler   *)
(* returns, past pthread_mutex_unlock.                                     *)
EncodingsBroken(c) ==
  /\ BrokenEncodings
  /\ inPC[c] = "encodings"
  /\ open' = [open EXCEPT ![c] = FALSE]
  /\ inPC' = [inPC EXCEPT ![c] = "check"]
  /\ UNCHANGED <<outPC, mutex, regionVars, flagVars, stale, listed, mainVars,
                 pending, registered>>

(* ReadExact fails at the start of a message, because the peer closed or   *)
(* because another thread closed the socket: rfbCloseClient.               *)
ReadFails(c) ==
  /\ inPC[c] = "recv"
  /\ open' = [open EXCEPT ![c] = FALSE]
  /\ inPC' = [inPC EXCEPT ![c] = "check"]
  /\ UNCHANGED <<outPC, mutex, regionVars, flagVars, stale, listed, mainVars,
                 pending, registered>>

(* Back in clientInput's loop: the refresh callback is registered if there *)
(* is an outstanding request (read without updateMutex), unless the window *)
(* server refuses ...                                                      *)
Register(c) == registered' \in {registered, registered \/ requested[c] # {}}

(* ... and the loop goes on while the socket is open.                      *)
InputContinues(c) ==
  /\ inPC[c] = "check"
  /\ open[c]
  /\ Register(c)
  /\ inPC' = [inPC EXCEPT ![c] = "recv"]
  /\ UNCHANGED <<outPC, open, mutex, regionVars, flagVars, stale, listed,
                 mainVars, pending>>

(* The socket is closed: clientOutput is signalled without updateMutex and *)
(* clientInput waits for it in pthread_join.                               *)
InputLeaves(c) ==
  /\ inPC[c] = "check"
  /\ ~open[c]
  /\ Register(c)
  /\ Signal(c)
  /\ inPC' = [inPC EXCEPT ![c] = "join"]
  /\ UNCHANGED <<open, mutex, regionVars, flagVars, stale, listed, mainVars,
                 pending>>

(* pthread_join returned: rfbClientConnectionGone unlinks and frees.       *)
ConnectionGone(c) ==
  /\ inPC[c] = "join"
  /\ outPC[c] = "done"
  /\ ListFree
  /\ inPC' = [inPC EXCEPT ![c] = "absent"]
  /\ outPC' = [outPC EXCEPT ![c] = "absent"]
  /\ listed' = listed \ {c}
  /\ mutex' = [mutex EXCEPT ![c] = "none"]
  /\ modified' = [modified EXCEPT ![c] = {}]
  /\ requested' = [requested EXCEPT ![c] = {}]
  /\ immediate' = [immediate EXCEPT ![c] = FALSE]
  /\ rich' = [rich EXCEPT ![c] = FALSE]
  /\ cursorDue' = [cursorDue EXCEPT ![c] = FALSE]
  /\ stale' = [stale EXCEPT ![c] = {}]
  /\ UNCHANGED <<open, sending, mainVars, pending, registered>>

(* Another client, in rfbProcessClientInitMessage, takes the display for   *)
(* itself and closes this one's socket.                                    *)
Evict(c, d) ==
  /\ c # d
  /\ inPC[d] = "recv"
  /\ open[d]
  /\ Live(c)
  /\ open[c]
  /\ ListFree
  /\ open' = [open EXCEPT ![c] = FALSE]
  /\ UNCHANGED <<inPC, outPC, mutex, regionVars, flagVars, stale, listed,
                 mainVars, pending, registered>>

-----------------------------------------------------------------------------
(* The output thread.                                                      *)

Defers(c) == DeferUpdate /\ ~immediate[c]

(* What an update for c carries, and what is left of modifiedRegion.       *)
Selected(c) == modified[c] \cap requested[c]
Kept(c) == modified[c] \ Selected(c)

HaveUpdate(c) ==
  /\ requested[c] # {}
  /\ \/ Defers(c) /\ Selected(c) # {}
     \/ ~Defers(c)
     \/ cursorDue[c]

(* pthread_mutex_lock, or the end of pthread_cond_wait, then the test of   *)
(* the socket.  Closed: the thread ends.                                   *)
OutputEnds(c) ==
  /\ outPC[c] = "lock"
  /\ MutexFree(c)
  /\ ~open[c]
  /\ outPC' = [outPC EXCEPT ![c] = "done"]
  /\ UNCHANGED <<inputVars, mutex, regionVars, flagVars, stale, listed,
                 mainVars, pending, registered>>

(* Open, and nothing to send: the thread is about to wait, with the mutex. *)
OutputFindsNothing(c) ==
  /\ outPC[c] = "lock"
  /\ MutexFree(c)
  /\ open[c]
  /\ ~HaveUpdate(c)
  /\ mutex' = [mutex EXCEPT ![c] = "out"]
  /\ outPC' = [outPC EXCEPT ![c] = "nothing"]
  /\ UNCHANGED <<inputVars, regionVars, flagVars, stale, listed, mainVars,
                 pending, registered>>

(* pthread_cond_wait releases the mutex and sleeps in one step.            *)
OutputWaits(c) ==
  /\ outPC[c] = "nothing"
  /\ mutex' = [mutex EXCEPT ![c] = "none"]
  /\ outPC' = [outPC EXCEPT ![c] = "wait"]
  /\ UNCHANGED <<inputVars, regionVars, flagVars, stale, listed, mainVars,
                 pending, registered>>

(* Open, and something to send: the mutex is given up again for the time   *)
(* in which more damage is collected.                                      *)
OutputDefers(c) ==
  /\ outPC[c] = "lock"
  /\ MutexFree(c)
  /\ open[c]
  /\ HaveUpdate(c)
  /\ Defers(c)
  /\ outPC' = [outPC EXCEPT ![c] = "defer"]
  /\ UNCHANGED <<inputVars, mutex, regionVars, flagVars, stale, listed,
                 mainVars, pending, registered>>

ReadyToSelect(c) ==
  \/ outPC[c] = "lock" /\ open[c] /\ HaveUpdate(c) /\ ~Defers(c)
  \/ outPC[c] = "defer"

(* updateRegion is taken out of modifiedRegion and the request is emptied. *)
(* The head of rfbSendFramebufferUpdate, which sends a due cursor shape    *)
(* (or gives a big one up), is part of the step; an update that ends with  *)
(* a LastRect marker leaves the cursor out.                                *)
OutputSelects(c, lastRect) ==
  /\ ReadyToSelect(c)
  /\ MutexFree(c)
  /\ lastRect => Encodings /\ Selected(c) # {}
  /\ mutex' = [mutex EXCEPT ![c] = "out"]
  /\ sending' = [sending EXCEPT ![c] = Selected(c)]
  /\ modified' = [modified EXCEPT ![c] = Kept(c)]
  /\ requested' = [requested EXCEPT ![c] = {}]
  /\ cursorDue' = [cursorDue EXCEPT ![c] = @ /\ lastRect]
  /\ outPC' = [outPC EXCEPT ![c] = "send"]
  /\ UNCHANGED <<inputVars, immediate, rich, stale, listed, mainVars, pending,
                 registered>>

(* rfbGetFramebufferUpdateInRect copies the screen as it is now, and the   *)
(* encoder sends that copy.                                                *)
OutputEncodes(c, p) ==
  /\ outPC[c] = "send"
  /\ p \in sending[c]
  /\ sending' = [sending EXCEPT ![c] = @ \ {p}]
  /\ stale' = [stale EXCEPT ![c] = @ \ {p}]
  /\ UNCHANGED <<inputVars, outPC, mutex, modified, requested, flagVars, listed,
                 mainVars, pending, registered>>

(* The last rfbSendUpdateBuf went through.                                 *)
OutputFlushes(c) ==
  /\ outPC[c] = "send"
  /\ sending[c] = {}
  /\ open[c]
  /\ mutex' = [mutex EXCEPT ![c] = "none"]
  /\ outPC' = [outPC EXCEPT ![c] = "lock"]
  /\ UNCHANGED <<inputVars, regionVars, flagVars, stale, listed, mainVars,
                 pending, registered>>

(* A write fails, or times out after rfbMaxClientWait: rfbSendUpdateBuf    *)
(* closes the client, what was still to be encoded is given up, and        *)
(* clientOutput ignores the result.                                        *)
OutputFails(c) ==
  /\ outPC[c] = "send"
  /\ open' = [open EXCEPT ![c] = FALSE]
  /\ sending' = [sending EXCEPT ![c] = {}]
  /\ mutex' = [mutex EXCEPT ![c] = "none"]
  /\ outPC' = [outPC EXCEPT ![c] = "lock"]
  /\ UNCHANGED <<inPC, modified, requested, flagVars, stale, listed, mainVars,
                 pending, registered>>

(* pthread_cond_wait may return with nobody having signalled.              *)
SpuriousWakeup(c) ==
  /\ outPC[c] = "wait"
  /\ Signal(c)
  /\ UNCHANGED <<inputVars, mutex, regionVars, flagVars, stale, listed,
                 mainVars, pending, registered>>

-----------------------------------------------------------------------------
Refresh == \E r \in SUBSET pending : RefreshBegin(r)

Main == \/ Refresh
        \/ \E c \in Clients : RefreshVisit(c) \/ CursorVisit(c)
        \/ CursorBegin
        \/ IteratorEnd
        \/ NoClients
        \/ Hibernate

Input(c) == \/ \E r \in SUBSET Pixels, incremental \in BOOLEAN :
                 UpdateRequest(c, r, incremental)
            \/ EncodingsBegin(c)
            \/ \E useRich, now \in BOOLEAN : EncodingsEnd(c, useRich, now)
            \/ EncodingsBroken(c)
            \/ ReadFails(c)
            \/ InputContinues(c)
            \/ InputLeaves(c)
            \/ ConnectionGone(c)

Output(c) == \/ OutputEnds(c)
             \/ OutputFindsNothing(c)
             \/ OutputWaits(c)
             \/ OutputDefers(c)
             \/ \E lastRect \in BOOLEAN : OutputSelects(c, lastRect)
             \/ \E p \in Pixels : OutputEncodes(c, p)
             \/ OutputFlushes(c)
             \/ OutputFails(c)

Next == \/ \E p \in Pixels : Draw(p)
        \/ Main
        \/ CursorChange
        \/ MainWakes
        \/ \E c \in Clients : \/ Accept(c)
                              \/ Input(c)
                              \/ Output(c)
                              \/ SpuriousWakeup(c)
                              \/ \E d \in Clients : Evict(c, d)

Spec == Init /\ [][Next]_vars

(* Only what is said of these steps is assumed to go on happening: peers   *)
(* send what and when they like, nobody needs to draw, and connections     *)
(* need not break.  A thread that can run does (weak fairness); one that   *)
(* competes for a mutex gets it in the end (strong fairness: the mutexes   *)
(* of macOS are handed over in turn by default); the event loop in the end *)
(* reports any damage.  A read of a closed socket returns.                 *)
Reports(p) == \E r \in SUBSET pending : p \in r /\ RefreshBegin(r)

MainRuns == CursorBegin \/ IteratorEnd \/ Hibernate

ReadsEncodings(c) == EncodingsBroken(c) \/ \E useRich, now \in BOOLEAN : EncodingsEnd(c, useRich, now)

InputRuns(c) ==
  \/ ~open[c] /\ ReadFails(c)
  \/ ReadsEncodings(c)
  \/ InputContinues(c) \/ InputLeaves(c)

OutputRuns(c) ==
  \/ OutputWaits(c)
  \/ \E p \in Pixels : OutputEncodes(c, p)
  \/ OutputFlushes(c) \/ OutputFails(c)

OutputLocks(c) ==
  \/ OutputEnds(c) \/ OutputFindsNothing(c) \/ OutputDefers(c)
  \/ \E lastRect \in BOOLEAN : OutputSelects(c, lastRect)

Fairness ==
  /\ \A p \in Pixels : SF_vars(Reports(p))
  /\ WF_vars(MainRuns)
  /\ \A c \in Clients :
       /\ SF_vars(RefreshVisit(c)) /\ WF_vars(CursorVisit(c))
       /\ WF_vars(InputRuns(c)) /\ SF_vars(ConnectionGone(c))
       /\ WF_vars(OutputRuns(c)) /\ SF_vars(OutputLocks(c))

FairSpec == Spec /\ Fairness

-----------------------------------------------------------------------------
(* The abstract specification.  A client that is connected is behind with  *)
(* what changed since it was last shown it, and has asked for what it has  *)
(* requested and what is being encoded for it.                             *)
Mirror == INSTANCE ScreenMirror WITH
  connected <- {c \in Clients : open[c]},
  behind <- [c \in Clients |-> IF open[c] THEN stale[c] ELSE {}],
  asked <- [c \in Clients |-> IF open[c] THEN requested[c] \cup sending[c] ELSE {}]

(* The two threads of a client and the main thread together do what        *)
(* ScreenMirror says: a pixel comes up to date only as the answer to a     *)
(* request for it, one request for one answer, and drawing puts every      *)
(* connected client behind.                                                *)
ImplementsMirror == Mirror!MirrorSpec

-----------------------------------------------------------------------------
InputPC  == {"absent", "recv", "encodings", "check", "join"}
OutputPC == {"absent", "lock", "nothing", "wait", "defer", "send", "done"}
MainPC   == {"idle", "refresh", "cursorNotice", "cursor", "hibernate", "sleep"}

(* Every variable has its type, for every record of the list.              *)
TypeOK ==
  /\ inPC \in [Clients -> InputPC]
  /\ outPC \in [Clients -> OutputPC]
  /\ open \in [Clients -> BOOLEAN]
  /\ mutex \in [Clients -> {"none", "in", "out"}]
  /\ modified \in [Clients -> SUBSET Pixels]
  /\ requested \in [Clients -> SUBSET Pixels]
  /\ sending \in [Clients -> SUBSET Pixels]
  /\ immediate \in [Clients -> BOOLEAN]
  /\ rich \in [Clients -> BOOLEAN]
  /\ cursorDue \in [Clients -> BOOLEAN]
  /\ stale \in [Clients -> SUBSET Pixels]
  /\ listed \subseteq Clients
  /\ mainPC \in MainPC
  /\ toVisit \subseteq Clients
  /\ rect \subseteq Pixels
  /\ pending \subseteq Pixels
  /\ registered \in BOOLEAN

(* What the server still knows it has to send to c.                        *)
BeingReported(c) == IF mainPC = "refresh" /\ c \in toVisit THEN rect ELSE {}

Owed(c) == modified[c] \cup sending[c] \cup pending \cup BeingReported(c)

(* What differs between the screen and a connected client's copy and has   *)
(* been forgotten: only new damage or a full request will bring it.        *)
Missed(c) == IF open[c] THEN stale[c] \ Owed(c) ELSE {}

(* No damage is lost between the window server's report and the update:    *)
(* what comes to be missed was drawn in this step while the callback was   *)
(* not registered, or was still unreported when hibernation unregistered   *)
(* it, however drawing, requests, selection, encoding, hibernation and     *)
(* clients that slip in past its test interleave (main.c 387-390).         *)
DamageIsOwed ==
  [][\A c \in Clients :
       Missed(c)' \subseteq Missed(c)
                          \cup (IF registered THEN {} ELSE stale'[c] \ stale[c])
                          \cup (IF registered' THEN {} ELSE pending \ pending')]_vars

(* "Some people will connect but not request screen updates [...], this    *)
(* will delay registering the CG callback until then" (main.c 432): with   *)
(* the callback registered only when a request is outstanding, a client    *)
(* misses nothing.                                                         *)
NothingMissed == \A c \in Clients : Missed(c) = {}

(* No thread uses a record that was freed: what the iterator will return   *)
(* is still linked (it holds the list's mutex), and a record that has an   *)
(* output thread at work or is linked has not been freed.                  *)
NoUseAfterFree ==
  /\ toVisit \subseteq listed
  /\ \A c \in Clients : (c \in listed \/ outPC[c] \notin {"absent", "done"}) => Live(c)

(* updateMutex is held by whoever is inside the code that it protects: the *)
(* selected region exists only while clientOutput holds it, and no request *)
(* comes in between the selection and the end of the update.               *)
MutexProtects ==
  \A c \in Clients :
    /\ inPC[c] = "encodings" => mutex[c] = "in"
    /\ outPC[c] \in {"nothing", "send"} <=> mutex[c] = "out"
    /\ sending[c] # {} => outPC[c] = "send"
    /\ outPC[c] = "send" => requested[c] = {}

(* The pixels are interchangeable: what becomes of one becomes of any.     *)
OnePixel == CHOOSE p \in Pixels : TRUE


(* While the screen goes on changing, an input thread that waits for its   *)
(* output thread gets to free the record: refreshCallback's signals make   *)
(* up for the one that InputLeaves may lose.  Not so when the connection   *)
(* broke inside SetEncodings, whose handler keeps updateMutex.             *)
TrafficEndsOutput ==
  []<>(mainPC = "refresh") =>
    \A c \in Clients : (inPC[c] = "join" /\ mutex[c] # "in") ~> ~Live(c)

(* "Get rid of the output thread" (main.c 455): once the input thread has  *)
(* signalled and joins, the output thread ends and the record is freed.    *)
OutputThreadEnds == \A c \in Clients : inPC[c] = "join" ~> ~Live(c)
=============================================================================
