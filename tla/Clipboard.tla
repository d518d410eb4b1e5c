------------------------------ MODULE Clipboard ------------------------------
(***************************************************************************)
(* Sharing of text between the clients' clipboards and the pasteboard of   *)
(* the server's Mac (OSXvnc-server/cutpaste.c), for clients without the    *)
(* rich clipboard extension and with a pasteboard that is accessible.      *)
(*                                                                         *)
(* Only the main thread talks to the pasteboard.  A text that a client     *)
(* cuts is left in clientCutText, and its input thread stalls until the    *)
(* main thread has taken it; the main thread keeps a copy of what is on    *)
(* the pasteboard, with the change count it belongs to, and each client's  *)
(* output thread compares that count with what it sent last.               *)
(*                                                                         *)
(* A text on the pasteboard is known by the change count it came with.     *)
(***************************************************************************)
EXTENDS Integers, FiniteSets

CONSTANTS
  Clients,     \* the client records; one is reused after it is freed
  MaxCount     \* how far the change count goes in the run

ASSUME ClipboardAssumption ==
  /\ IsFiniteSet(Clients)
  /\ "none" \notin Clients
  /\ MaxCount \in Nat \ {0}

VARIABLES
  board,       \* the general pasteboard: its change count, is there a text on it
  cutText,     \* clientCutText: the client whose text it holds, or "none"
  taken,       \* whose text the main thread has offered it and not yet forgotten
  lastCount,   \* generalPBLastChangeCount
  copied,      \* pasteboardString: the count its text came with, 0 for nil
  mainPC,      \* where the main thread is in rfbCheckForPasteboardChange
  inPC,        \* where clientInput of the record is; "absent": no record
  outPC,       \* where clientOutput is
  open,        \* cl->sock # -1
  lastChange   \* cl->generalPBLastChange

serverVars == <<board, cutText, taken, lastCount, copied>>
clientVars == <<inPC, outPC, open, lastChange>>
vars == <<board, cutText, taken, lastCount, copied, mainPC, inPC, outPC, open,
          lastChange>>

-----------------------------------------------------------------------------
(* The two markers that are no change counts: for a client that is to keep *)
(* its own text, and for one that asks for the current text.               *)
KeepOwn == -1
SendCurrent == -2

(* pasteboardVariablesLock, rfbClientListMutex and a client's updateMutex  *)
(* are only kept across steps where these say so.                          *)
PasteboardFreeAlways == TRUE
PasteboardFree == mainPC \notin {"published", "copy"}
ListFree == mainPC \notin {"record", "copy", "notify"}
MutexFree(c) == outPC[c] \notin {"update", "nothing"}

(* Texts on their way to the pasteboard; with them the count stays within  *)
(* MaxCount.                                                               *)
Room == board.count + Cardinality({c \in Clients : inPC[c] \in {"cut", "stall"}}) < MaxCount

(* What declareTypes and setString leave: the text, nothing of any type,   *)
(* or the pasteboard as it was.                                            *)
WithText == [count |-> board.count + 1, string |-> TRUE]
Emptied == [count |-> board.count + 1, string |-> FALSE]

Init ==
  /\ board \in [count : {1}, string : BOOLEAN]
  /\ cutText = "none"
  /\ taken = "none"
  /\ lastCount = -1
  /\ copied = 0
  /\ mainPC = "events"
  /\ inPC = [c \in Clients |-> "absent"]
  /\ outPC = [c \in Clients |-> "absent"]
  /\ open = [c \in Clients |-> FALSE]
  /\ lastChange = [c \in Clients |-> KeepOwn]

(* Some application copies a text, or something else.                      *)
LocalCopy(string) ==
  /\ Room
  /\ board' = [count |-> board.count + 1, string |-> string]
  /\ UNCHANGED <<cutText, taken, lastCount, copied, mainPC, clientVars>>

-----------------------------------------------------------------------------
(* rfbCheckForPasteboardChange on the main thread.                         *)

PublishSetsAfterStall ==
  /\ mainPC = "events"
  /\ cutText # "none"
  /\ \A c \in Clients : inPC[c] # "stall"
  /\ board' \in {WithText, Emptied, board}
  /\ taken' = cutText
  /\ mainPC' = "published"
  /\ UNCHANGED <<cutText, lastCount, copied, clientVars>>

(* A text that a client cut is put on the pasteboard and then forgotten,   *)
(* both under pasteboardVariablesLock.  It is forgotten too when           *)
(* declareTypes answers 0 or setString fails ...                           *)
PublishSets ==
  /\ mainPC = "events"
  /\ cutText # "none"
  /\ board' \in {WithText, Emptied, board}
  /\ taken' = cutText
  /\ mainPC' = "published"
  /\ UNCHANGED <<cutText, lastCount, copied, clientVars>>

PublishClears ==
  /\ mainPC = "published"
  /\ cutText' = "none"
  /\ taken' = "none"
  /\ mainPC' = "compare"
  /\ UNCHANGED <<board, lastCount, copied, clientVars>>

(* ... but not when one of them raises an exception: then it is tried      *)
(* again, with the next poll.                                              *)
PublishRaises ==
  /\ mainPC = "events"
  /\ cutText # "none"
  /\ board' = board \/ (Room /\ board' = Emptied)
  /\ mainPC' = "compare"
  /\ UNCHANGED <<cutText, taken, lastCount, copied, clientVars>>

PublishNothing ==
  /\ mainPC = "events"
  /\ cutText = "none"
  /\ mainPC' = "compare"
  /\ UNCHANGED <<serverVars, clientVars>>

NothingNew ==
  /\ mainPC = "compare"
  /\ lastCount = board.count
  /\ mainPC' = "events"
  /\ UNCHANGED <<serverVars, clientVars>>

(* Something new: the client list is taken.  What is not a text is not     *)
(* recorded, so it is new again the next time.                             *)
SomethingNew ==
  /\ mainPC = "compare"
  /\ lastCount # board.count
  /\ mainPC' = IF board.string THEN "record" ELSE "notify"
  /\ UNCHANGED <<serverVars, clientVars>>

(* "Record first in case another event comes in": the count, then the      *)
(* string, which may by then be a later one, or gone.                      *)
RecordCount ==
  /\ mainPC = "record"
  /\ lastCount' = board.count
  /\ mainPC' = "copy"
  /\ UNCHANGED <<board, cutText, taken, copied, clientVars>>

CopyStringOrKeep ==
  /\ mainPC = "copy"
  /\ copied' = IF board.string THEN board.count ELSE copied
  /\ mainPC' = "notify"
  /\ UNCHANGED <<board, cutText, taken, lastCount, clientVars>>

CopyString ==
  /\ mainPC = "copy"
  /\ copied' = IF board.string THEN board.count ELSE 0
  /\ mainPC' = "notify"
  /\ UNCHANGED <<board, cutText, taken, lastCount, clientVars>>

(* The clients are signalled, without their updateMutex: one that is about *)
(* to wait is missed.                                                      *)
Notify ==
  /\ mainPC = "notify"
  /\ outPC' = [c \in Clients |-> IF outPC[c] = "wait" THEN "lock" ELSE outPC[c]]
  /\ mainPC' = "events"
  /\ UNCHANGED <<serverVars, inPC, open, lastChange>>

-----------------------------------------------------------------------------
(* The input thread.                                                       *)

(* rfbNewClient, initPasteboardForClient and the start of the threads.     *)
Connect(c) ==
  /\ inPC[c] = "absent"
  /\ ListFree
  /\ inPC' = [inPC EXCEPT ![c] = "init"]
  /\ outPC' = [outPC EXCEPT ![c] = "lock"]
  /\ open' = [open EXCEPT ![c] = TRUE]
  /\ lastChange' = [lastChange EXCEPT ![c] = KeepOwn]
  /\ UNCHANGED <<serverVars, mainPC>>

(* ClientInit was handled: cl->state is RFB_NORMAL.                        *)
Normal(c) ==
  /\ inPC[c] = "init"
  /\ open[c]
  /\ inPC' = [inPC EXCEPT ![c] = "recv"]
  /\ UNCHANGED <<serverVars, mainPC, outPC, open, lastChange>>

(* rfbSetCutText: the marker is set, without a lock ...                    *)
CutBegins(c) ==
  /\ inPC[c] = "recv"
  /\ open[c]
  /\ Room
  /\ lastChange' = [lastChange EXCEPT ![c] = KeepOwn]
  /\ inPC' = [inPC EXCEPT ![c] = "cut"]
  /\ UNCHANGED <<serverVars, mainPC, outPC, open>>

(* ... then the text, which replaces another client's ...                  *)
CutStores(c) ==
  /\ inPC[c] = "cut"
  /\ PasteboardFree
  /\ cutText' = c
  /\ inPC' = [inPC EXCEPT ![c] = "stall"]
  /\ UNCHANGED <<board, taken, lastCount, copied, mainPC, outPC, open, lastChange>>

(* ... and the thread stalls while there is any text to be taken.          *)
StallEnds(c) ==
  /\ inPC[c] = "stall"
  /\ cutText = "none"
  /\ inPC' = [inPC EXCEPT ![c] = "recv"]
  /\ UNCHANGED <<serverVars, mainPC, outPC, open, lastChange>>

(* SetEncodings with the pseudo-encoding rfbPasteboardRequest.             *)
PasteboardRequest(c) ==
  /\ inPC[c] = "recv"
  /\ open[c]
  /\ MutexFree(c)
  /\ lastChange' = [lastChange EXCEPT ![c] = SendCurrent]
  /\ UNCHANGED <<serverVars, mainPC, inPC, outPC, open>>

(* The peer goes away, or another client closes this one.                  *)
Disconnect(c) ==
  /\ open[c]
  /\ open' = [open EXCEPT ![c] = FALSE]
  /\ UNCHANGED <<serverVars, mainPC, inPC, outPC, lastChange>>

(* clientInput joined clientOutput (its own signal is one of Wake).        *)
ConnectionGone(c) ==
  /\ inPC[c] \in {"init", "recv"}
  /\ ~open[c]
  /\ outPC[c] = "done"
  /\ ListFree
  /\ inPC' = [inPC EXCEPT ![c] = "absent"]
  /\ outPC' = [outPC EXCEPT ![c] = "absent"]
  /\ lastChange' = [lastChange EXCEPT ![c] = KeepOwn]
  /\ UNCHANGED <<serverVars, mainPC, open>>

-----------------------------------------------------------------------------
(* The output thread.                                                      *)

(* It has updateMutex, and tests the socket.                               *)
OutputEnds(c) ==
  /\ outPC[c] = "lock"
  /\ ~open[c]
  /\ outPC' = [outPC EXCEPT ![c] = "done"]
  /\ UNCHANGED <<serverVars, mainPC, inPC, open, lastChange>>

(* rfbClientUpdatePasteboard does nothing before the state is NORMAL, and  *)
(* gives a client that keeps its own the count without the text, which it  *)
(* reads without pasteboardVariablesLock.                                  *)
OutputSkips(c) ==
  /\ outPC[c] = "lock"
  /\ open[c]
  /\ inPC[c] = "init" \/ lastChange[c] = KeepOwn
  /\ lastChange' = IF inPC[c] = "init" THEN lastChange
                   ELSE [lastChange EXCEPT ![c] = lastCount]
  /\ outPC' = [outPC EXCEPT ![c] = "nothing"]
  /\ UNCHANGED <<serverVars, mainPC, inPC, open>>

OutputLooks(c) ==
  /\ outPC[c] = "lock"
  /\ open[c]
  /\ inPC[c] # "init" /\ lastChange[c] # KeepOwn
  /\ outPC' = [outPC EXCEPT ![c] = "update"]
  /\ UNCHANGED <<serverVars, mainPC, inPC, open, lastChange>>

(* With both locks: a text of another count than the client's is sent.  A  *)
(* write that fails closes the socket, and nothing else.                   *)
HasNewsUnasked(c) == lastChange[c] \notin {lastCount, SendCurrent} /\ copied # 0
HasNews(c) == lastChange[c] # lastCount /\ copied # 0

OutputSendsAhead(c, stays) ==
  /\ outPC[c] = "update"
  /\ PasteboardFree
  /\ open' = IF HasNews(c) THEN [open EXCEPT ![c] = @ /\ stays] ELSE open
  /\ lastChange' = IF HasNews(c) THEN [lastChange EXCEPT ![c] = board.count] ELSE lastChange
  /\ outPC' = [outPC EXCEPT ![c] = "nothing"]
  /\ UNCHANGED <<serverVars, mainPC, inPC>>

OutputSends(c, stays) ==
  /\ outPC[c] = "update"
  /\ PasteboardFree
  /\ open' = IF HasNews(c) THEN [open EXCEPT ![c] = @ /\ stays] ELSE open
  /\ lastChange' = IF HasNews(c) THEN [lastChange EXCEPT ![c] = lastCount] ELSE lastChange
  /\ outPC' = [outPC EXCEPT ![c] = "nothing"]
  /\ UNCHANGED <<serverVars, mainPC, inPC>>

(* pthread_cond_wait, or the sending of an update and the loop's return.   *)
OutputWaits(c) ==
  /\ outPC[c] = "nothing"
  /\ outPC' = [outPC EXCEPT ![c] = "wait"]
  /\ UNCHANGED <<serverVars, mainPC, inPC, open, lastChange>>

(* A request, damage, the cursor or a disconnect signals updateCond.       *)
Wake(c) ==
  /\ outPC[c] \in {"nothing", "wait"}
  /\ outPC' = [outPC EXCEPT ![c] = "lock"]
  /\ UNCHANGED <<serverVars, mainPC, inPC, open, lastChange>>

-----------------------------------------------------------------------------
Poll == PublishRaises \/ PublishNothing \/ NothingNew \/ SomethingNew \/ RecordCount \/ CopyString \/ Notify

Main == PublishSets \/ PublishClears \/ Poll

Output(c) ==
  \/ OutputEnds(c) \/ OutputSkips(c) \/ OutputLooks(c)
  \/ \E stays \in BOOLEAN : OutputSends(c, stays)
  \/ OutputWaits(c)

Input(c) == CutStores(c) \/ StallEnds(c) \/ ConnectionGone(c)

Environment ==
  \/ \E string \in BOOLEAN : LocalCopy(string)
  \/ \E c \in Clients :
       \/ Connect(c) \/ Normal(c) \/ CutBegins(c) \/ PasteboardRequest(c)
       \/ Disconnect(c) \/ Wake(c)

Next == Main \/ (\E c \in Clients : Output(c) \/ Input(c)) \/ Environment

Spec == Init /\ [][Next]_vars

(* The threads go on, and the pasteboard does not raise exceptions at a    *)
(* text for ever.                                                          *)
(* A thread that waits for pasteboardVariablesLock gets it in the end: the *)
(* main thread takes it once or twice in a turn of its loop, and sleeps or *)
(* handles events in between.                                              *)
(* Nothing wakes an output thread but what the models of the others say.   *)
FairSpec ==
  /\ Spec
  /\ WF_vars(Main) /\ SF_vars(PublishSets)
  /\ \A c \in Clients : SF_vars(Output(c)) /\ WF_vars(CutStores(c)) /\ WF_vars(StallEnds(c))

-----------------------------------------------------------------------------
(* Every variable has its type; a client's record of the change count is a *)
(* count, the server's own -1, or one of the two markers.                  *)
TypeOK ==
  /\ board \in [count : Nat, string : BOOLEAN]
  /\ cutText \in Clients \cup {"none"}
  /\ taken \in Clients \cup {"none"}
  /\ lastCount \in Nat \cup {-1}
  /\ copied \in Nat
  /\ mainPC \in {"events", "published", "compare", "record", "copy", "notify"}
  /\ inPC \in [Clients -> {"absent", "init", "recv", "cut", "stall"}]
  /\ outPC \in [Clients -> {"absent", "lock", "update", "nothing", "wait", "done"}]
  /\ open \in [Clients -> BOOLEAN]
  /\ lastChange \in [Clients -> Nat \cup {-1, -2}]

(* The copy is never older than the count it is offered under, and when    *)
(* that is the pasteboard's own the copy is what is there: a change in the *)
(* middle of the poll is found by the next one ("Record first in case      *)
(* another event comes in", cutpaste.c 518).                               *)
CopyIsFresh ==
  mainPC # "copy" =>
    /\ copied = 0 \/ copied >= lastCount
    /\ lastCount = board.count /\ board.string => copied = board.count

(* clientCutText is only emptied of a text that was offered to the         *)
(* pasteboard, which took or refused it: none that a client stores while   *)
(* the main thread publishes another is released in its place, and none is *)
(* lost to an exception (cutpaste.c 403-406, 496-508).                     *)
CutIsOffered ==
  [][cutText # "none" /\ cutText' = "none" => taken = cutText]_vars

(* The text that is sent is that of the count the client is then recorded  *)
(* to have, or a newer one: no later text passes for sent (cutpaste.c 518, *)
(* rfbClientUpdatePasteboard).                                             *)
SentAsRecorded ==
  [][\A c \in Clients :
       outPC[c] = "update" /\ lastChange'[c] # lastChange[c] /\ lastChange'[c] # KeepOwn
       => copied # 0 /\ copied >= lastChange'[c]]_vars

(* "We'll stall until it gets picked up by the main thread" (cutpaste.c    *)
(* 409), and not for ever, if the other clients do not go on cutting: the  *)
(* thread waits for there being no text at all.                            *)
StallIsOver ==
  \A c \in Clients :
    (\A d \in Clients \ {c} : <>[](inPC[d] # "cut")) => (inPC[c] = "stall" ~> inPC[c] # "stall")

(* A text on the pasteboard does not stay unnoticed by a client whose      *)
(* output thread goes on being woken: "we'll send an update to each        *)
(* client" (cutpaste.c 512).                                               *)
TextArrives ==
  \A c \in Clients :
    []<>(outPC[c] # "wait")
    => []<>(~board.string \/ inPC[c] # "recv" \/ ~open[c] \/ lastChange[c] = board.count)
=============================================================================
