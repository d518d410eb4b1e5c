---------------------------- MODULE RichClipboard ----------------------------
(***************************************************************************)
(* The rich clipboard (OSXvnc-server/cutpaste.c): a client announces types *)
(* of data, a proxy declares them on the server's pasteboard, and the data *)
(* are asked of the client only when somebody wants them, on the main      *)
(* thread, which waits for them.                                           *)
(*                                                                         *)
(* There is one pasteboard, each announcement is of all Types, and a       *)
(* client with a record has asked for the rich clipboard.  Data are known  *)
(* by their type; which change count a client was told of last is left     *)
(* out, as is what Clipboard models.                                       *)
(***************************************************************************)
EXTENDS Naturals, Sequences

CONSTANTS
  Clients,       \* the client records; one is reused after it is freed
  Proxies,       \* the NSClipboardProxy objects, reused likewise
  Types,         \* what pasteboard data can be
  Text, Files,   \* the types the poll itself looks at: NSString, NSFilenames
  Nil,           \* no client, no proxy, no type
  MaxAsked       \* bound: the main thread begins nothing that may ask for data
                 \* while so many of its requests await a client's answer

ASSUME RichClipboardAssumption ==
  /\ Nil \notin Clients \cup Proxies \cup Types
  /\ "failed" \notin Types \cup {Nil}
  /\ MaxAsked \in Nat

VARIABLES
  inPC, outPC,   \* where clientInput and clientOutput of a record are
  open,          \* cl->sock # -1
  mutex,         \* who keeps updateMutex across steps: "nobody", "out"
  received,      \* richClipboardReceivedName (is it set), ...Type, ...NSData
  reply,         \* richClipboardNSData, known by its type
  pending,       \* the request that clientInput is about to answer
  owed,          \* the client's requests which it has no reply to yet
  heard,         \* the server's requests which the client has not answered
  ownText,       \* cl->generalPBLastChange is -1
  proxyOf,       \* cl->clipboardProxy
  points,        \* clientPointer of a proxy
  setups,        \* calls of setupTypes that wait for the main thread
  owner,         \* the pasteboard's owner, Nil for another application
  displaced,     \* proxies that will hear of the owner's change
  have,          \* the types the pasteboard has data for
  newText,       \* generalPBLastChangeCount # changeCount
  newInfo,       \* pbInfoArray[0] # changeCount
  cutText,       \* clientCutText is set
  varLock,       \* who keeps pasteboardVariablesLock: Nil, "main", a client
  main,          \* what the main thread is doing, and for whom
  unsettled      \* a request whose data the main thread has not waited for

boardVars == <<owner, displaced, have, newText, newInfo>>
threadVars == <<inPC, outPC, open, mutex, pending, ownText>>
dataVars == <<received, reply, owed, heard, unsettled>>
proxyVars == <<proxyOf, points, setups>>
vars == <<inPC, outPC, open, mutex, received, reply, pending, owed, heard, ownText,
          proxyOf, points, setups, owner, displaced, have, newText, newInfo, cutText,
          varLock, main, unsettled>>

-----------------------------------------------------------------------------
NothingReceived == [asking |-> FALSE, type |-> Nil, data |-> Nil]
Idle == [at |-> "events", during |-> "event", proxy |-> Nil, client |-> Nil, type |-> Nil]

MutexFree(c) == mutex[c] = "nobody"

(* The main thread keeps the client list from before it looks for a text   *)
(* until the clients are signalled.                                        *)
ListFree == main.during # "string" /\ ~(main.at = "string" /\ newText)

Bounded == \A c \in Clients : Len(heard[c]) < MaxAsked

Unused(p) ==
  /\ points[p] = Nil /\ p # owner /\ p \notin displaced /\ p # main.proxy
  /\ \A i \in DOMAIN setups : setups[i] # p
  /\ \A c \in Clients : proxyOf[c] # p

(* The contents change: the old owner will be told.                        *)
Declare(new, types) ==
  /\ owner' = new
  /\ displaced' = displaced \cup ({owner} \ {Nil, new})
  /\ have' = types
  /\ newText' = TRUE
  /\ newInfo' = TRUE

Init ==
  /\ inPC = [c \in Clients |-> "absent"]
  /\ outPC = [c \in Clients |-> "ended"]
  /\ open = [c \in Clients |-> FALSE]
  /\ mutex = [c \in Clients |-> "nobody"]
  /\ received = [c \in Clients |-> NothingReceived]
  /\ reply = [c \in Clients |-> Nil]
  /\ pending = [c \in Clients |-> Nil]
  /\ owed = [c \in Clients |-> <<>>]
  /\ heard = [c \in Clients |-> <<>>]
  /\ ownText = [c \in Clients |-> FALSE]
  /\ proxyOf = [c \in Clients |-> Nil]
  /\ points = [p \in Proxies |-> Nil]
  /\ setups = <<>>
  /\ owner = Nil
  /\ displaced = {}
  /\ have = Types
  /\ newText = TRUE
  /\ newInfo = TRUE
  /\ cutText = FALSE
  /\ varLock = Nil
  /\ main = Idle
  /\ unsettled = [c \in Clients |-> FALSE]

(* The process ends, all its threads with it.                              *)
Crash ==
  /\ main' = [Idle EXCEPT !.at = "crashed"]
  /\ inPC' = [c \in Clients |-> "absent"]
  /\ outPC' = [c \in Clients |-> "ended"]
  /\ open' = [c \in Clients |-> FALSE]
  /\ mutex' = [c \in Clients |-> "nobody"]
  /\ setups' = <<>>
  /\ varLock' = Nil
  /\ UNCHANGED <<pending, ownText, dataVars, proxyOf, points, boardVars, cutText>>
Running == main.at # "crashed"

(* An application copies something.                                        *)
LocalCopy ==
  /\ Running
  /\ Declare(Nil, Types)
  /\ UNCHANGED <<threadVars, dataVars, proxyVars, cutText, varLock, main>>

-----------------------------------------------------------------------------
(*                      The input thread of a client                       *)

(* rfbNewClient, and a SetEncodings message with rfbRichPasteboard.        *)
Connect(c) ==
  /\ Running /\ inPC[c] = "absent"
  /\ inPC' = [inPC EXCEPT ![c] = "read"]
  /\ outPC' = [outPC EXCEPT ![c] = "away"]
  /\ open' = [open EXCEPT ![c] = TRUE]
  /\ received' = [received EXCEPT ![c] = NothingReceived]
  /\ reply' = [reply EXCEPT ![c] = Nil]
  /\ owed' = [owed EXCEPT ![c] = <<>>]
  /\ heard' = [heard EXCEPT ![c] = <<>>]
  /\ ownText' = [ownText EXCEPT ![c] = FALSE]
  /\ proxyOf' = [proxyOf EXCEPT ![c] = Nil]
  /\ unsettled' = [unsettled EXCEPT ![c] = FALSE]
  /\ UNCHANGED <<mutex, pending, points, setups, boardVars, cutText, varLock, main>>

Reads(c) == inPC[c] = "read" /\ open[c]

(* rfbReceiveRichClipboardAvailable: a new proxy takes the place of the    *)
(* old one, and its types are declared by the main thread later.           *)
ReadAvailable(c, p) ==
  /\ Reads(c) /\ MutexFree(c) /\ Unused(p)
  /\ points' = [q \in Proxies |-> IF q = p THEN c ELSE IF q = proxyOf[c] THEN Nil ELSE points[q]]
  /\ proxyOf' = [proxyOf EXCEPT ![c] = p]
  /\ setups' = Append(setups, p)
  /\ UNCHANGED <<threadVars, dataVars, boardVars, cutText, varLock, main>>

(* rfbReceiveRichClipboardData: the client answers the first request it    *)
(* has heard, or says that it cannot.                                      *)
Receive(c) ==
  /\ Reads(c) /\ heard[c] # <<>>
  /\ \E data \in {Head(heard[c]), "failed"} :
       received' = [received EXCEPT ![c] =
                       [asking |-> @.asking, type |-> Head(heard[c]), data |-> data]]
  /\ heard' = [heard EXCEPT ![c] = Tail(@)]
  /\ UNCHANGED <<threadVars, reply, owed, unsettled, proxyVars, boardVars, cutText, varLock, main>>
ReadData(c) == MutexFree(c) /\ Receive(c)

(* rfbReceiveRichClipboardRequest: what it answers has to wait until the   *)
(* answer before is sent.                                                  *)
ReadRequest(c, t) ==
  /\ Reads(c)
  /\ pending' = [pending EXCEPT ![c] = t]
  /\ owed' = [owed EXCEPT ![c] = Append(@, t)]
  /\ inPC' = [inPC EXCEPT ![c] = "reply"]
  /\ UNCHANGED <<outPC, open, mutex, ownText, received, reply, heard, unsettled, proxyVars,
                 boardVars, cutText, varLock, main>>

StoreReply(c) ==
  /\ inPC[c] = "reply" /\ MutexFree(c)
  /\ reply' = [reply EXCEPT ![c] = pending[c]]
  /\ pending' = [pending EXCEPT ![c] = Nil]
  /\ inPC' = [inPC EXCEPT ![c] = "read"]
  /\ UNCHANGED <<outPC, open, mutex, ownText, received, owed, heard, unsettled, proxyVars,
                 boardVars, cutText, varLock, main>>
ReplyStores(c) == reply[c] = Nil /\ StoreReply(c)

(* rfbSetCutText.                                                          *)
ReadCutText(c) ==
  /\ Reads(c) /\ varLock = Nil
  /\ ownText' = [ownText EXCEPT ![c] = TRUE]
  /\ cutText' = TRUE
  /\ inPC' = [inPC EXCEPT ![c] = "stall"]
  /\ UNCHANGED <<outPC, open, mutex, pending, dataVars, proxyVars, boardVars, varLock, main>>

StallEnds(c) ==
  /\ inPC[c] = "stall" /\ ~cutText
  /\ inPC' = [inPC EXCEPT ![c] = "read"]
  /\ UNCHANGED <<outPC, open, mutex, pending, ownText, dataVars, proxyVars, boardVars, cutText,
                 varLock, main>>

(* The connection breaks, under whoever uses it.                           *)
Disconnect(c) ==
  /\ open[c]
  /\ open' = [open EXCEPT ![c] = FALSE]
  /\ UNCHANGED <<inPC, outPC, mutex, pending, ownText, dataVars, proxyVars, boardVars, cutText,
                 varLock, main>>

(* clientInput joins the output thread; freePasteboardForClient; then the  *)
(* record is unlinked and freed.                                           *)
InputLeaves(c) ==
  /\ inPC[c] = "read" /\ ~open[c] /\ outPC[c] = "ended"
  /\ points' = [q \in Proxies |-> IF q = proxyOf[c] THEN Nil ELSE points[q]]
  /\ inPC' = [inPC EXCEPT ![c] = "unlink"]
  /\ UNCHANGED <<outPC, open, mutex, pending, ownText, dataVars, proxyOf, setups, boardVars,
                 cutText, varLock, main>>

ConnectionGone(c) ==
  /\ inPC[c] = "unlink" /\ ListFree
  /\ inPC' = [inPC EXCEPT ![c] = "absent"]
  /\ proxyOf' = [proxyOf EXCEPT ![c] = Nil]
  /\ UNCHANGED <<outPC, open, mutex, pending, ownText, dataVars, points, setups, boardVars,
                 cutText, varLock, main>>

-----------------------------------------------------------------------------
(*            The output thread: rfbClientUpdatePasteboard                 *)

OutputEnds(c) ==
  /\ outPC[c] = "away" /\ ~open[c] /\ MutexFree(c)
  /\ outPC' = [outPC EXCEPT ![c] = "ended"]
  /\ UNCHANGED <<inPC, open, mutex, pending, ownText, dataVars, proxyVars, boardVars, cutText,
                 varLock, main>>

(* With updateMutex the reply that waits is sent, if there is one ...      *)
OutputReplies(c) ==
  /\ outPC[c] = "away" /\ open[c] /\ MutexFree(c)
  /\ mutex' = [mutex EXCEPT ![c] = "out"]
  /\ reply' = [reply EXCEPT ![c] = Nil]
  /\ owed' = IF reply[c] = Nil THEN owed ELSE [owed EXCEPT ![c] = Tail(@)]
  /\ outPC' = [outPC EXCEPT ![c] = IF received[c].asking THEN "ask" ELSE "news"]
  /\ UNCHANGED <<inPC, open, pending, ownText, received, heard, unsettled, proxyVars, boardVars,
                 cutText, varLock, main>>

(* ... then the request: rfbSendRichClipboardRequest.  The client may hear *)
(* it before the thread has forgotten it.  There may be no type: a wait    *)
(* that was given up clears the type and leaves the name.                  *)
OutputAsks(c) ==
  /\ outPC[c] = "ask" /\ received[c].type # Nil
  /\ heard' = [heard EXCEPT ![c] = Append(@, received[c].type)]
  /\ outPC' = [outPC EXCEPT ![c] = "forget"]
  /\ UNCHANGED <<inPC, open, mutex, pending, ownText, received, reply, owed, unsettled, proxyVars,
                 boardVars, cutText, varLock, main>>

OutputForgets(c) ==
  /\ outPC[c] = "forget"
  /\ received' = [received EXCEPT ![c] = [asking |-> FALSE, type |-> Nil, data |-> @.data]]
  /\ outPC' = [outPC EXCEPT ![c] = "news"]
  /\ UNCHANGED <<inPC, open, mutex, pending, ownText, reply, owed, heard, unsettled, proxyVars,
                 boardVars, cutText, varLock, main>>

(* What the client has not heard of yet is looked up, and announced, under *)
(* pasteboardVariablesLock; not so for one that keeps its own text.        *)
OutputKeepsOwn(c) ==
  /\ outPC[c] = "news" /\ ownText[c]
  /\ ownText' = [ownText EXCEPT ![c] = FALSE]
  /\ mutex' = [mutex EXCEPT ![c] = "nobody"]
  /\ outPC' = [outPC EXCEPT ![c] = "away"]
  /\ UNCHANGED <<inPC, open, pending, dataVars, proxyVars, boardVars, cutText, varLock, main>>

OutputLooks(c) ==
  /\ outPC[c] = "news" /\ ~ownText[c] /\ varLock = Nil
  /\ varLock' = c
  /\ outPC' = [outPC EXCEPT ![c] = "announce"]
  /\ UNCHANGED <<inPC, open, mutex, pending, ownText, dataVars, proxyVars, boardVars, cutText, main>>

OutputAnnounces(c) ==
  /\ outPC[c] = "announce"
  /\ varLock' = Nil
  /\ mutex' = [mutex EXCEPT ![c] = "nobody"]
  /\ outPC' = [outPC EXCEPT ![c] = "away"]
  /\ UNCHANGED <<inPC, open, pending, ownText, dataVars, proxyVars, boardVars, cutText, main>>

-----------------------------------------------------------------------------
(*                            The main thread                              *)

(* setupTypes: the types are declared, and the displaced owner may hear of *)
(* it before declareTypes returns; then they are recorded in the client as *)
(* none it has to be told of.                                              *)
Declaring(during) == [Idle EXCEPT !.at = "declare", !.during = during]

SetupTypes ==
  /\ main.at = "events" /\ setups # <<>>
  /\ Declare(Head(setups), {})
  /\ main' = Declaring("setup")
  /\ UNCHANGED <<threadVars, dataVars, proxyVars, cutText, varLock>>

SetupDeclared ==
  /\ main.at = "declare" /\ main.during = "setup"
  /\ main' = [Idle EXCEPT !.at = "setup", !.proxy = Head(setups), !.client = points[Head(setups)]]
  /\ setups' = Tail(setups)
  /\ UNCHANGED <<threadVars, dataVars, proxyOf, points, boardVars, cutText, varLock>>

(* The lock is that of the client the proxy had when it was asked for; the *)
(* proxy is asked again for the record itself.                             *)
Locked == main.client # Nil => MutexFree(main.client)
Dangles == points[main.proxy] = Nil

SetupRecords ==
  /\ main.at = "setup" /\ Locked /\ ~Dangles
  /\ main' = Idle
  /\ UNCHANGED <<threadVars, dataVars, proxyVars, boardVars, cutText, varLock>>

(* pasteboardChangedOwner, from the event loop or from within the server's *)
(* own declareTypes, where the poll has pasteboardVariablesLock.           *)
OwnerChanged(p) ==
  /\ main.at \in {"events", "declare"} /\ p \in displaced
  /\ displaced' = displaced \ {p}
  /\ main' = IF points[p] = Nil THEN main
             ELSE [main EXCEPT !.at = "owner", !.proxy = p, !.client = points[p]]
  /\ UNCHANGED <<threadVars, dataVars, proxyVars, owner, have, newText, newInfo, cutText, varLock>>

OwnerForgets ==
  /\ main.at = "owner" /\ Locked /\ ~Dangles
  /\ proxyOf' = [proxyOf EXCEPT ![main.client] = Nil]
  /\ points' = [points EXCEPT ![main.proxy] = Nil]
  /\ main' = IF main.during = "event" THEN Idle ELSE Declaring(main.during)
  /\ UNCHANGED <<threadVars, dataVars, setups, boardVars, cutText, varLock>>

(* provideDataForType: the request is left in the record ...               *)
Asking(t, during) ==
  main' = [at |-> "ask", during |-> during, proxy |-> owner, client |-> points[owner], type |-> t]
CanAsk(t) ==
  /\ owner \in Proxies /\ t \in Types \ have
  /\ points[owner] # Nil

DataWanted(t) ==
  /\ main.at = "events" /\ CanAsk(t) /\ Bounded
  /\ Asking(t, "event")
  /\ UNCHANGED <<threadVars, dataVars, proxyVars, boardVars, cutText, varLock>>

AskStores ==
  /\ main.at = "ask" /\ Locked /\ ~Dangles
  /\ received' = [received EXCEPT ![main.client] =
                    [asking |-> TRUE, type |-> main.type, data |-> @.data]]
  /\ main' = [main EXCEPT !.at = "wait"]
  /\ UNCHANGED <<threadVars, reply, owed, heard, unsettled, proxyVars, boardVars, cutText, varLock>>

(* ... the answer is awaited ...                                           *)
AnswerComes ==
  /\ main.at = "wait" /\ ~Dangles /\ received[main.client].data # Nil
  /\ main' = [main EXCEPT !.at = "use"]
  /\ UNCHANGED <<threadVars, dataVars, proxyVars, boardVars, cutText, varLock>>

(* ... for sixty seconds ...                                               *)
TimesOutNever == FALSE /\ UNCHANGED vars
TimesOut ==
  /\ main.at = "wait" /\ ~Dangles /\ received[main.client].data = Nil
  /\ unsettled' = [unsettled EXCEPT ![main.client] = TRUE]
  /\ main' = [main EXCEPT !.at = "use"]
  /\ UNCHANGED <<threadVars, received, reply, owed, heard, proxyVars, boardVars, cutText, varLock>>

(* The wait is over and the thread goes on with what it did: to its event  *)
(* loop, or to the poll, which then gives up the lock.                     *)
Resume ==
  /\ main' = [Idle EXCEPT !.at = IF main.during = "string" THEN "info" ELSE "events"]
  /\ varLock' = IF main.during = "event" THEN varLock ELSE Nil

(* ... or until the proxy has lost its client; that is looked at again     *)
(* when the data were used.                                                *)
ProxyRemoved ==
  /\ main.at \in {"wait", "used"} /\ Dangles
  /\ unsettled' = [unsettled EXCEPT ![main.client] = TRUE]
  /\ Resume
  /\ UNCHANGED <<threadVars, received, reply, owed, heard, proxyVars, boardVars, cutText>>

UseData ==
  /\ main.at = "use" /\ ~Dangles
  /\ have' = IF received[main.client].data \in Types
             THEN have \cup ({received[main.client].type} \cap Types) ELSE have
  /\ main' = [main EXCEPT !.at = "used"]
  /\ UNCHANGED <<threadVars, dataVars, proxyVars, owner, displaced, newText, newInfo, cutText,
                 varLock>>

LocksAgain ==
  /\ main.at = "used" /\ ~Dangles
  /\ main' = [main EXCEPT !.at = "clear"]
  /\ UNCHANGED <<threadVars, dataVars, proxyVars, boardVars, cutText, varLock>>

Cleared(r) == [asking |-> r.asking, type |-> Nil, data |-> Nil]
ClearsData ==
  /\ main.at = "clear" /\ Locked /\ ~Dangles
  /\ received' = [received EXCEPT ![main.client] = Cleared(@)]
  /\ Resume
  /\ UNCHANGED <<threadVars, reply, owed, heard, unsettled, proxyVars, boardVars, cutText>>

(* rfbCheckForPasteboardChange: a client's cut text goes to the pasteboard *)
(* ...                                                                     *)
PollBegins ==
  /\ main.at = "events" /\ varLock = Nil /\ Bounded
  /\ IF cutText
     THEN Declare(Nil, Types) /\ main' = Declaring("cut") /\ varLock' = "main"
     ELSE UNCHANGED <<boardVars, varLock>> /\ main' = [Idle EXCEPT !.at = "string"]
  /\ UNCHANGED <<threadVars, dataVars, proxyVars, cutText>>

CutPublished ==
  /\ main.at = "declare" /\ main.during = "cut"
  /\ cutText' = FALSE
  /\ varLock' = Nil
  /\ main' = [Idle EXCEPT !.at = "string"]
  /\ UNCHANGED <<threadVars, dataVars, proxyVars, boardVars>>

(* ... a new text is copied, and new types are looked at, both under       *)
(* pasteboardVariablesLock.  The text may have to be asked for, and so may *)
(* the names of files (pasteboardRepresentsExistingFile).                  *)
PollString ==
  /\ main.at = "string"
  /\ newText => varLock = Nil
  /\ newText' = FALSE
  /\ IF newText /\ CanAsk(Text) THEN Asking(Text, "string") /\ varLock' = "main"
     ELSE main' = [Idle EXCEPT !.at = "info"] /\ UNCHANGED varLock
  /\ UNCHANGED <<threadVars, dataVars, proxyVars, owner, displaced, have, newInfo, cutText>>

PollInfo ==
  /\ main.at = "info" /\ varLock = Nil
  /\ newInfo' = FALSE
  /\ IF newInfo /\ CanAsk(Files) THEN Asking(Files, "info") /\ varLock' = "main"
     ELSE main' = Idle /\ UNCHANGED varLock
  /\ UNCHANGED <<threadVars, dataVars, proxyVars, owner, displaced, have, newText, cutText>>

(* The thread uses the client of a proxy that has none any more.           *)
UsesNoClient ==
  /\ \/ main.at \in {"setup", "owner", "ask", "clear"} /\ Locked
     \/ main.at = "use"
  /\ Dangles
  /\ Crash

(* The type to be sent is Nil: UTF8String and then strlen.                 *)
AsksForNothing(c) ==
  /\ outPC[c] = "ask" /\ received[c].type = Nil
  /\ Crash

-----------------------------------------------------------------------------
Input(c) ==
  \/ StallEnds(c) \/ ReplyStores(c) \/ InputLeaves(c) \/ ConnectionGone(c)
Output(c) ==
  \/ OutputEnds(c) \/ OutputReplies(c) \/ OutputAsks(c) \/ OutputForgets(c)
  \/ OutputKeepsOwn(c) \/ OutputLooks(c) \/ OutputAnnounces(c) \/ AsksForNothing(c)
MainWorks ==
  \/ SetupDeclared \/ SetupRecords \/ CutPublished \/ OwnerForgets \/ AskStores \/ AnswerComes \/ TimesOut \/ ProxyRemoved
  \/ UseData \/ LocksAgain \/ ClearsData \/ PollString \/ PollInfo \/ UsesNoClient
Events ==
  \/ SetupTypes \/ PollBegins
  \/ \E p \in Proxies : OwnerChanged(p)
  \/ \E t \in Types : DataWanted(t)
Messages(c) ==
  \/ Connect(c) \/ Disconnect(c) \/ ReadData(c) \/ ReadCutText(c)
  \/ \E p \in Proxies : ReadAvailable(c, p)
  \/ \E t \in Types : ReadRequest(c, t)

Next ==
  \/ MainWorks \/ Events \/ LocalCopy
  \/ \E c \in Clients : Input(c) \/ Output(c) \/ Messages(c)

Spec == Init /\ [][Next]_vars

(* The main thread and the output threads go on, and get a lock that is    *)
(* free again and again in the end.  What the input threads and the        *)
(* clients do is not relied on.                                            *)
FairSpec == Spec /\ SF_vars(MainWorks) /\ \A c \in Clients : SF_vars(Output(c))

-----------------------------------------------------------------------------
(* Every variable has its type.                                            *)
TypeOK ==
  /\ inPC \in [Clients -> {"absent", "read", "reply", "stall", "unlink"}]
  /\ outPC \in [Clients -> {"away", "ask", "forget", "news", "announce", "ended"}]
  /\ open \in [Clients -> BOOLEAN]
  /\ mutex \in [Clients -> {"nobody", "out"}]
  /\ received \in [Clients -> [asking : BOOLEAN, type : Types \cup {Nil},
                               data : Types \cup {Nil, "failed"}]]
  /\ reply \in [Clients -> Types \cup {Nil}]
  /\ pending \in [Clients -> Types \cup {Nil}]
  /\ owed \in [Clients -> Seq(Types)]
  /\ heard \in [Clients -> Seq(Types)]
  /\ ownText \in [Clients -> BOOLEAN]
  /\ proxyOf \in [Clients -> Proxies \cup {Nil}]
  /\ points \in [Proxies -> Clients \cup {Nil}]
  /\ setups \in Seq(Proxies)
  /\ owner \in Proxies \cup {Nil}
  /\ displaced \subseteq Proxies
  /\ have \subseteq Types
  /\ newText \in BOOLEAN /\ newInfo \in BOOLEAN /\ cutText \in BOOLEAN
  /\ varLock \in Clients \cup {Nil, "main"}
  /\ main \in [at : {"events", "declare", "setup", "owner", "ask", "wait", "use", "used", "clear",
                    "string", "info", "crashed"},
               during : {"event", "setup", "cut", "string", "info"}, proxy : Proxies \cup {Nil},
               client : Clients \cup {Nil}, type : Types \cup {Nil}]
  /\ unsettled \in [Clients -> BOOLEAN]

(* What the main thread finds in the record when its wait is over is the   *)
(* client's answer to what it asked for, and under that type, as long as   *)
(* no wait for this client was given up: output and input thread, which    *)
(* both write the type, do not get in each other's way ("one at a time per *)
(* client", rfb.h 287).                                                    *)
AnswerAsAsked ==
  main.at = "use" /\ ~Dangles /\ ~unsettled[main.client] =>
    /\ received[main.client].type = main.type
    /\ received[main.client].data \in {main.type, "failed"}

(* Each request of a client gets one reply, in the order of the requests:  *)
(* none is overwritten by the next and none is sent twice ("Wait for the   *)
(* send thread to send pending data out", cutpaste.c 1028).                *)
RepliesKept ==
  \A c \in Clients :
    inPC[c] # "absent" =>
      owed[c] = (IF reply[c] = Nil THEN <<>> ELSE <<reply[c]>>)
                \o (IF inPC[c] = "reply" THEN <<pending[c]>> ELSE <<>>)

(* Somebody who wants data gets an answer or none, but the main thread     *)
(* goes on: "60 second timeout" (cutpaste.c 183), whatever the client's    *)
(* two threads and its peer do, if the process lives.                      *)
EventsGoOn ==
  main.at = "wait" /\ main.during = "event" ~> main.at \in {"events", "crashed"}

(* The same of the poll, which waits with pasteboardVariablesLock: there   *)
(* is to be no deadlock "where the main thread tries to pull the data from *)
(* client thread while the client thread waits for the main thread"        *)
(* (cutpaste.c 434).                                                      *)
PollGoesOn ==
  main.at = "wait" /\ main.during # "event" ~> main.at \in {"info", "events", "crashed"}
=============================================================================
