--------------------------- MODULE ClipboardProofs ---------------------------
(***************************************************************************)
(* What Clipboard says of any number of clients and of changes of the      *)
(* pasteboard.  The copy never runs ahead of the pasteboard, nor the count *)
(* it is offered under; and while the main thread is between putting a     *)
(* text on the pasteboard and forgetting it, nobody stores another.        *)
(***************************************************************************)
EXTENDS Clipboard, TLAPS

(* Neither count runs ahead of the pasteboard's.                           *)
BehindInv == lastCount <= board.count /\ copied <= board.count

(* What is about to be forgotten is what was offered to the pasteboard.    *)
TakenInv == mainPC = "published" => cutText # "none" /\ taken = cutText

IInv == TypeOK /\ BehindInv /\ CopyIsFresh /\ TakenInv

-----------------------------------------------------------------------------

LEMMA InitIInv == Init => IInv
<1> SUFFICES ASSUME Init PROVE IInv
  OBVIOUS
<1>1. TypeOK
  BY DEF Init, TypeOK, KeepOwn
<1>2. BehindInv /\ CopyIsFresh /\ TakenInv
  BY DEF Init, BehindInv, CopyIsFresh, TakenInv
<1> QED BY <1>1, <1>2 DEF IInv

LEMMA NextTypeOK == TypeOK /\ [Next]_vars => TypeOK'
<1> SUFFICES ASSUME TypeOK, [Next]_vars PROVE TypeOK'
  OBVIOUS
<1> USE DEF TypeOK, serverVars, clientVars
<1>1. CASE Main
  <2>0. {WithText, Emptied, board} \subseteq [count : Nat, string : BOOLEAN]
    BY DEF WithText, Emptied
  <2>1. CASE PublishSets
    BY <2>0, <2>1 DEF PublishSets
  <2>2. CASE Notify
    BY <2>2 DEF Notify
  <2>3. CASE RecordCount \/ CopyString
    BY <2>3 DEF RecordCount, CopyString
  <2>4. CASE PublishClears \/ PublishNothing \/ NothingNew \/ SomethingNew
    BY <2>4 DEF PublishClears, PublishNothing, NothingNew, SomethingNew
  <2>5. CASE PublishRaises
    BY <2>0, <2>5 DEF PublishRaises
  <2> QED BY <1>1, <2>1, <2>2, <2>3, <2>4, <2>5 DEF Main, Poll
<1>2. ASSUME NEW c \in Clients, Output(c) PROVE TypeOK'
  <2>1. CASE OutputSkips(c)
    BY <2>1 DEF OutputSkips
  <2>2. ASSUME NEW stays \in BOOLEAN, OutputSends(c, stays) PROVE TypeOK'
    BY <2>2 DEF OutputSends
  <2>3. CASE OutputEnds(c) \/ OutputLooks(c) \/ OutputWaits(c)
    BY <2>3 DEF OutputEnds, OutputLooks, OutputWaits
  <2> QED BY <1>2, <2>1, <2>2, <2>3 DEF Output
<1>3. ASSUME NEW c \in Clients, Input(c) PROVE TypeOK'
  BY <1>3 DEF Input, CutStores, StallEnds, ConnectionGone, KeepOwn
<1>4. ASSUME NEW string \in BOOLEAN, LocalCopy(string) PROVE TypeOK'
  BY <1>4 DEF LocalCopy
<1>5. ASSUME NEW c \in Clients, Connect(c) \/ CutBegins(c) \/ PasteboardRequest(c) PROVE TypeOK'
  BY <1>5 DEF Connect, CutBegins, PasteboardRequest, KeepOwn, SendCurrent
<1>6. ASSUME NEW c \in Clients, Normal(c) \/ Disconnect(c) \/ Wake(c) PROVE TypeOK'
  BY <1>6 DEF Normal, Disconnect, Wake
<1>7. CASE UNCHANGED vars
  BY <1>7 DEF vars
<1> QED BY <1>1, <1>2, <1>3, <1>4, <1>5, <1>6, <1>7 DEF Next, Environment

(* Only the main thread and local copies change what the counts are about. *)
LEMMA OthersLeaveCopies ==
  ASSUME [Next]_vars
  PROVE  \/ Main
         \/ \E string \in BOOLEAN : LocalCopy(string)
         \/ UNCHANGED <<board, taken, lastCount, copied, mainPC>> /\ (cutText' = cutText \/ PasteboardFree)
BY DEF Next, Environment, Output, Input, OutputEnds, OutputSkips, OutputLooks, OutputSends, OutputWaits,
   CutStores, StallEnds, ConnectionGone, Connect, Normal, CutBegins, PasteboardRequest, Disconnect,
   Wake, serverVars, vars

(* The pasteboard may change in the middle of the poll, but only forwards. *)
LEMMA NextFresh == TypeOK /\ BehindInv /\ CopyIsFresh /\ [Next]_vars => BehindInv' /\ CopyIsFresh'
<1> SUFFICES ASSUME TypeOK, BehindInv, CopyIsFresh, [Next]_vars PROVE BehindInv' /\ CopyIsFresh'
  OBVIOUS
<1> USE DEF TypeOK, BehindInv, CopyIsFresh, serverVars
<1>1. CASE PublishSets \/ PublishRaises
  BY <1>1 DEF PublishSets, PublishRaises, WithText, Emptied
<1>2. CASE PublishClears \/ PublishNothing \/ NothingNew \/ SomethingNew \/ Notify
  BY <1>2 DEF PublishClears, PublishNothing, NothingNew, SomethingNew, Notify
<1>3. CASE RecordCount
  BY <1>3 DEF RecordCount
<1>4. CASE CopyString
  BY <1>4 DEF CopyString
<1>5. ASSUME NEW string \in BOOLEAN, LocalCopy(string) PROVE BehindInv' /\ CopyIsFresh'
  BY <1>5 DEF LocalCopy
<1>6. CASE UNCHANGED <<board, taken, lastCount, copied, mainPC>>
  BY <1>6
<1> QED BY <1>1, <1>2, <1>3, <1>4, <1>5, <1>6, OthersLeaveCopies DEF Main, Poll

(* pasteboardVariablesLock keeps the others out between the two steps.     *)
LEMMA NextTaken == TakenInv /\ [Next]_vars => TakenInv'
<1> SUFFICES ASSUME TakenInv, [Next]_vars PROVE TakenInv'
  OBVIOUS
<1>1. CASE Main
  BY <1>1 DEF TakenInv, Main, Poll, PublishSets, PublishClears, PublishRaises, PublishNothing, NothingNew, SomethingNew,
     RecordCount, CopyString, Notify
<1>2. ASSUME NEW string \in BOOLEAN, LocalCopy(string) PROVE TakenInv'
  BY <1>2 DEF TakenInv, LocalCopy
<1>3. CASE UNCHANGED <<board, taken, lastCount, copied, mainPC>> /\ (cutText' = cutText \/ PasteboardFree)
  BY <1>3 DEF TakenInv, PasteboardFree
<1> QED BY <1>1, <1>2, <1>3, OthersLeaveCopies

LEMMA Invariance == Spec => []IInv
<1>1. IInv /\ [Next]_vars => IInv'
  BY NextTypeOK, NextFresh, NextTaken DEF IInv
<1> QED BY InitIInv, <1>1, PTL DEF Spec

(* The variables of Clipboard always have their types.                     *)
THEOREM TypeCorrect == Spec => []TypeOK
BY Invariance, PTL DEF IInv

(* What is offered to the clients is never older than the count it is      *)
(* offered under, and a change in the middle of a poll is found by the     *)
(* next.                                                                   *)
THEOREM CopyCorrect == Spec => []CopyIsFresh
BY Invariance, PTL DEF IInv

(* A cut text is only forgotten once it has itself been offered to the     *)
(* pasteboard; the text may be refused and lost, but never mistaken for    *)
(* another.                                                                *)
THEOREM PublicationCorrect == Spec => CutIsOffered
<1>1. IInv /\ [Next]_vars => [cutText # "none" /\ cutText' = "none" => taken = cutText]_vars
  <2> SUFFICES ASSUME IInv, Next, cutText # "none", cutText' = "none" PROVE taken = cutText
    OBVIOUS
  <2>1. PublishClears
    BY ClipboardAssumption DEF Next, Main, Poll, PublishSets, PublishClears, PublishRaises, PublishNothing, NothingNew,
       SomethingNew, RecordCount, CopyString, Notify, LocalCopy, Environment, Output, Input, OutputEnds,
       OutputSkips, OutputLooks, OutputSends, OutputWaits, CutStores, StallEnds, ConnectionGone,
       Connect, Normal, CutBegins, PasteboardRequest, Disconnect, Wake, serverVars
  <2> QED BY <2>1 DEF IInv, TakenInv, PublishClears
<1> QED BY <1>1, Invariance, PTL DEF Spec, CutIsOffered

(* No later text than the one that is sent passes for sent to a client.    *)
THEOREM SendingCorrect == Spec => SentAsRecorded
<1> DEFINE Sent(c) == outPC[c] = "update" /\ lastChange'[c] # lastChange[c] /\ lastChange'[c] # KeepOwn
                      => copied # 0 /\ copied >= lastChange'[c]
<1>1. IInv /\ [Next]_vars => [\A c \in Clients : Sent(c)]_vars
  <2> SUFFICES ASSUME IInv, Next, NEW c \in Clients, outPC[c] = "update",
                      lastChange'[c] # lastChange[c], lastChange'[c] # KeepOwn
               PROVE  copied # 0 /\ copied >= lastChange'[c]
    OBVIOUS
  <2> USE DEF IInv, TypeOK
  <2>1. PICK stays \in BOOLEAN : OutputSends(c, stays)
    <3>1. ASSUME NEW d \in Clients, Output(d) \/ Input(d) PROVE \E stays \in BOOLEAN : OutputSends(c, stays)
      BY <3>1 DEF Output, Input, OutputEnds, OutputSkips, OutputLooks, OutputSends, OutputWaits,
         CutStores, StallEnds, ConnectionGone
    <3>2. ~Main
      BY DEF Main, Poll, PublishSets, PublishClears, PublishRaises, PublishNothing, NothingNew, SomethingNew,
         RecordCount, CopyString, Notify, clientVars
    <3>3. ~Environment
      BY DEF Environment, LocalCopy, Connect, Normal, CutBegins, PasteboardRequest, MutexFree, Disconnect,
         Wake, clientVars
    <3> QED BY <3>1, <3>2, <3>3 DEF Next
  <2>2. HasNews(c) /\ mainPC # "copy" /\ lastChange'[c] = lastCount
    BY <2>1 DEF OutputSends, PasteboardFree
  <2> QED BY <2>2 DEF HasNews, CopyIsFresh
<1> QED BY <1>1, Invariance, PTL DEF Spec, SentAsRecorded
=============================================================================
