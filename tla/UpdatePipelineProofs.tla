----------------------- MODULE UpdatePipelineProofs -----------------------
(***************************************************************************)
(* What UpdatePipeline says of any number of clients and any screen.  The  *)
(* invariants are proved one on top of the other: types, then who may      *)
(* reach a record, then who holds updateMutex; that no damage is lost, and *)
(* the refinement of ScreenMirror, are proved of the steps from them.      *)
(***************************************************************************)
EXTENDS UpdatePipeline, TLAPS

(* What the main thread and the list need to keep for NoUseAfterFree to be *)
(* inductive, and for no step to lose damage.                              *)
ListInv ==
  /\ ListFree => toVisit = {}
  /\ \A c \in Clients : open[c] => c \in listed /\ inPC[c] # "join"
  /\ \A c \in Clients : ~Live(c) => requested[c] = {}

IInv ==
  /\ TypeOK
  /\ MutexProtects
  /\ NoUseAfterFree
  /\ ListInv

-----------------------------------------------------------------------------
LEMMA InitTypeOK == Init => TypeOK
<1> SUFFICES ASSUME Init PROVE TypeOK
  OBVIOUS
<1>1. /\ inPC \in [Clients -> InputPC] /\ outPC \in [Clients -> OutputPC]
      /\ open \in [Clients -> BOOLEAN] /\ mutex \in [Clients -> {"none", "in", "out"}]
  BY DEF Init, InputPC, OutputPC
<1>2. /\ modified \in [Clients -> SUBSET Pixels] /\ requested \in [Clients -> SUBSET Pixels]
      /\ sending \in [Clients -> SUBSET Pixels] /\ stale \in [Clients -> SUBSET Pixels]
  BY DEF Init
<1>3. /\ immediate \in [Clients -> BOOLEAN] /\ rich \in [Clients -> BOOLEAN]
      /\ cursorDue \in [Clients -> BOOLEAN]
  BY DEF Init
<1>4. /\ listed \subseteq Clients /\ mainPC \in MainPC /\ toVisit \subseteq Clients
      /\ rect \subseteq Pixels /\ pending \subseteq Pixels /\ registered \in BOOLEAN
  BY DEF Init, MainPC
<1> QED BY <1>1, <1>2, <1>3, <1>4 DEF TypeOK

(* Every variable keeps its type: no step of any thread leaves it.         *)
LEMMA NextTypeOK == TypeOK /\ [Next]_vars => TypeOK'
<1> SUFFICES ASSUME TypeOK, [Next]_vars PROVE TypeOK'
  OBVIOUS
<1> USE DEF TypeOK, InputPC, OutputPC, MainPC, inputVars, regionVars, flagVars,
            mainVars, Signal, Woken
<1>1. CASE \E p \in Pixels : Draw(p)
  BY <1>1 DEF Draw
<1>2. CASE Main
  <2>1. CASE Refresh
    BY <2>1 DEF Refresh, RefreshBegin
  <2>2. ASSUME NEW c \in Clients, RefreshVisit(c) PROVE TypeOK'
    BY <2>2 DEF RefreshVisit
  <2>3. ASSUME NEW c \in Clients, CursorVisit(c) PROVE TypeOK'
    BY <2>3 DEF CursorVisit
  <2>4. CASE CursorBegin
    BY <2>4 DEF CursorBegin
  <2>5. CASE IteratorEnd
    BY <2>5 DEF IteratorEnd
  <2>6. CASE NoClients \/ Hibernate
    BY <2>6 DEF NoClients, Hibernate
  <2> QED BY <1>2, <2>1, <2>2, <2>3, <2>4, <2>5, <2>6 DEF Main
<1>3. CASE CursorChange
  BY <1>3 DEF CursorChange
<1>4. ASSUME NEW c \in Clients, Accept(c) PROVE TypeOK'
  BY <1>4 DEF Accept
<1>5. ASSUME NEW c \in Clients, Input(c) PROVE TypeOK'
  <2>1. ASSUME NEW r \in SUBSET Pixels, NEW i \in BOOLEAN, UpdateRequest(c, r, i)
        PROVE TypeOK'
    BY <2>1 DEF UpdateRequest
  <2>2. CASE EncodingsBegin(c)
    BY <2>2 DEF EncodingsBegin
  <2>3. ASSUME NEW u \in BOOLEAN, NEW n \in BOOLEAN, EncodingsEnd(c, u, n)
        PROVE TypeOK'
    BY <2>3 DEF EncodingsEnd
  <2>4. CASE EncodingsBroken(c) \/ ReadFails(c)
    BY <2>4 DEF EncodingsBroken, ReadFails
  <2>5. CASE InputContinues(c) \/ InputLeaves(c)
    BY <2>5 DEF InputContinues, InputLeaves, Register
  <2>6. CASE ConnectionGone(c)
    BY <2>6 DEF ConnectionGone
  <2> QED BY <1>5, <2>1, <2>2, <2>3, <2>4, <2>5, <2>6 DEF Input
<1>6. ASSUME NEW c \in Clients, Output(c) PROVE TypeOK'
  <2>1. CASE OutputEnds(c) \/ OutputFindsNothing(c) \/ OutputWaits(c) \/ OutputDefers(c)
    BY <2>1 DEF OutputEnds, OutputFindsNothing, OutputWaits, OutputDefers
  <2>2. ASSUME NEW l \in BOOLEAN, OutputSelects(c, l) PROVE TypeOK'
    BY <2>2 DEF OutputSelects, Selected, Kept
  <2>3. ASSUME NEW p \in Pixels, OutputEncodes(c, p) PROVE TypeOK'
    BY <2>3 DEF OutputEncodes
  <2>4. CASE OutputFlushes(c) \/ OutputFails(c)
    BY <2>4 DEF OutputFlushes, OutputFails
  <2> QED BY <1>6, <2>1, <2>2, <2>3, <2>4 DEF Output
<1>7. ASSUME NEW c \in Clients, SpuriousWakeup(c) PROVE TypeOK'
  BY <1>7 DEF SpuriousWakeup
<1>8. ASSUME NEW c \in Clients, NEW d \in Clients, Evict(c, d) PROVE TypeOK'
  BY <1>8 DEF Evict
<1>9. CASE MainWakes
  BY <1>9 DEF MainWakes
<1>10. CASE UNCHANGED vars
  BY <1>10 DEF vars
<1> QED BY <1>1, <1>2, <1>3, <1>4, <1>5, <1>6, <1>7, <1>8, <1>9, <1>10 DEF Next

(* The variables of UpdatePipeline always have their types.                *)
THEOREM TypeCorrect == Spec => []TypeOK
BY InitTypeOK, NextTypeOK, PTL DEF Spec

-----------------------------------------------------------------------------
(* The iterator and the threads reach only records that are there.         *)
LEMMA NextList ==
  TypeOK /\ NoUseAfterFree /\ ListInv /\ [Next]_vars => (NoUseAfterFree /\ ListInv)'
<1> SUFFICES ASSUME TypeOK, NoUseAfterFree, ListInv, [Next]_vars
             PROVE (NoUseAfterFree /\ ListInv)'
  OBVIOUS
<1> USE DEF TypeOK, InputPC, OutputPC, MainPC, inputVars, regionVars, flagVars,
            mainVars, Signal, Woken, MutexFree,
            NoUseAfterFree, ListInv, ListFree, Live
<1>1. CASE \E p \in Pixels : Draw(p)
  BY <1>1 DEF Draw
<1>2. CASE Main
  <2>1. CASE Refresh
    BY <2>1 DEF Refresh, RefreshBegin
  <2>2. ASSUME NEW c \in Clients, RefreshVisit(c) PROVE (NoUseAfterFree /\ ListInv)'
    BY <2>2 DEF RefreshVisit
  <2>3. ASSUME NEW c \in Clients, CursorVisit(c) PROVE (NoUseAfterFree /\ ListInv)'
    BY <2>3 DEF CursorVisit
  <2>4. CASE CursorBegin
    BY <2>4 DEF CursorBegin
  <2>5. CASE IteratorEnd
    BY <2>5 DEF IteratorEnd
  <2>6. CASE NoClients \/ Hibernate
    BY <2>6 DEF NoClients, Hibernate
  <2> QED BY <1>2, <2>1, <2>2, <2>3, <2>4, <2>5, <2>6 DEF Main
<1>3. CASE CursorChange
  BY <1>3 DEF CursorChange
<1>4. ASSUME NEW c \in Clients, Accept(c) PROVE (NoUseAfterFree /\ ListInv)'
  BY <1>4 DEF Accept
<1>5. ASSUME NEW c \in Clients, Input(c) PROVE (NoUseAfterFree /\ ListInv)'
  <2>1. ASSUME NEW r \in SUBSET Pixels, NEW i \in BOOLEAN, UpdateRequest(c, r, i)
        PROVE (NoUseAfterFree /\ ListInv)'
    BY <2>1 DEF UpdateRequest
  <2>2. CASE EncodingsBegin(c)
    BY <2>2 DEF EncodingsBegin
  <2>3. ASSUME NEW u \in BOOLEAN, NEW n \in BOOLEAN, EncodingsEnd(c, u, n)
        PROVE (NoUseAfterFree /\ ListInv)'
    BY <2>3 DEF EncodingsEnd
  <2>4. CASE EncodingsBroken(c)
    BY <2>4 DEF EncodingsBroken
  <2>5. CASE ReadFails(c)
    BY <2>5 DEF ReadFails
  <2>6. CASE InputContinues(c)
    BY <2>6 DEF InputContinues, Register
  <2>7. CASE InputLeaves(c)
    BY <2>7 DEF InputLeaves, Register
  <2>8. CASE ConnectionGone(c)
    BY <2>8 DEF ConnectionGone
  <2> QED BY <1>5, <2>1, <2>2, <2>3, <2>4, <2>5, <2>6, <2>7, <2>8, ZenonT(60) DEF Input
<1>6. ASSUME NEW c \in Clients, Output(c) PROVE (NoUseAfterFree /\ ListInv)'
  <2>1. CASE OutputEnds(c)
    BY <2>1 DEF OutputEnds
  <2>2. CASE OutputFindsNothing(c)
    BY <2>2 DEF OutputFindsNothing
  <2>3. CASE OutputWaits(c)
    BY <2>3 DEF OutputWaits
  <2>4. CASE OutputDefers(c)
    BY <2>4 DEF OutputDefers
  <2>5. ASSUME NEW l \in BOOLEAN, OutputSelects(c, l) PROVE (NoUseAfterFree /\ ListInv)'
    BY <2>5 DEF OutputSelects, ReadyToSelect, Selected, Kept
  <2>6. ASSUME NEW p \in Pixels, OutputEncodes(c, p) PROVE (NoUseAfterFree /\ ListInv)'
    BY <2>6 DEF OutputEncodes
  <2>7. CASE OutputFlushes(c)
    BY <2>7 DEF OutputFlushes
  <2>8. CASE OutputFails(c)
    BY <2>8 DEF OutputFails
  <2> QED BY <1>6, <2>1, <2>2, <2>3, <2>4, <2>5, <2>6, <2>7, <2>8 DEF Output
<1>7. ASSUME NEW c \in Clients, SpuriousWakeup(c) PROVE (NoUseAfterFree /\ ListInv)'
  BY <1>7 DEF SpuriousWakeup
<1>8. ASSUME NEW c \in Clients, NEW d \in Clients, Evict(c, d) PROVE (NoUseAfterFree /\ ListInv)'
  BY <1>8 DEF Evict
<1>9. CASE MainWakes
  BY <1>9 DEF MainWakes
<1>10. CASE UNCHANGED vars
  BY <1>10 DEF vars
<1> QED BY <1>1, <1>2, <1>3, <1>4, <1>5, <1>6, <1>7, <1>8, <1>9, <1>10 DEF Next

(* No thread reaches a freed record, and a connected client is linked.     *)
THEOREM ListCorrect == Spec => [](NoUseAfterFree /\ ListInv)
<1>1. Init => NoUseAfterFree /\ ListInv
  BY DEF Init, NoUseAfterFree, ListInv, Live
<1> QED BY <1>1, TypeCorrect, NextList, PTL DEF Spec
-----------------------------------------------------------------------------
(* Who holds updateMutex is decided by where the two threads are.          *)
LEMMA NextMutex == TypeOK /\ NoUseAfterFree /\ MutexProtects /\ [Next]_vars => MutexProtects'
<1> SUFFICES ASSUME TypeOK, NoUseAfterFree, MutexProtects, [Next]_vars PROVE MutexProtects'
  OBVIOUS
<1> USE DEF TypeOK, InputPC, OutputPC, MainPC, inputVars, regionVars, flagVars,
            mainVars, Signal, Woken, MutexFree,
            MutexProtects, NoUseAfterFree, Live
<1>1. CASE \E p \in Pixels : Draw(p)
  BY <1>1 DEF Draw
<1>2. CASE Main
  <2>1. CASE Refresh
    BY <2>1 DEF Refresh, RefreshBegin
  <2>2. ASSUME NEW c \in Clients, RefreshVisit(c) PROVE MutexProtects'
    BY <2>2 DEF RefreshVisit
  <2>3. ASSUME NEW c \in Clients, CursorVisit(c) PROVE MutexProtects'
    BY <2>3 DEF CursorVisit
  <2>4. CASE CursorBegin
    BY <2>4 DEF CursorBegin
  <2>5. CASE IteratorEnd
    BY <2>5 DEF IteratorEnd
  <2>6. CASE NoClients \/ Hibernate
    BY <2>6 DEF NoClients, Hibernate
  <2> QED BY <1>2, <2>1, <2>2, <2>3, <2>4, <2>5, <2>6 DEF Main
<1>3. CASE CursorChange
  BY <1>3 DEF CursorChange
<1>4. ASSUME NEW c \in Clients, Accept(c) PROVE MutexProtects'
  BY <1>4 DEF Accept
<1>5. ASSUME NEW c \in Clients, Input(c) PROVE MutexProtects'
  <2>1. ASSUME NEW r \in SUBSET Pixels, NEW i \in BOOLEAN, UpdateRequest(c, r, i)
        PROVE MutexProtects'
    BY <2>1 DEF UpdateRequest
  <2>2. CASE EncodingsBegin(c)
    BY <2>2 DEF EncodingsBegin
  <2>3. ASSUME NEW u \in BOOLEAN, NEW n \in BOOLEAN, EncodingsEnd(c, u, n)
        PROVE MutexProtects'
    BY <2>3 DEF EncodingsEnd
  <2>4. CASE EncodingsBroken(c)
    BY <2>4 DEF EncodingsBroken
  <2>5. CASE ReadFails(c)
    BY <2>5 DEF ReadFails
  <2>6. CASE InputContinues(c)
    BY <2>6 DEF InputContinues, Register
  <2>7. CASE InputLeaves(c)
    BY <2>7 DEF InputLeaves, Register
  <2>8. CASE ConnectionGone(c)
    BY <2>8 DEF ConnectionGone
  <2> QED BY <1>5, <2>1, <2>2, <2>3, <2>4, <2>5, <2>6, <2>7, <2>8, ZenonT(60) DEF Input
<1>6. ASSUME NEW c \in Clients, Output(c) PROVE MutexProtects'
  <2>1. CASE OutputEnds(c)
    BY <2>1 DEF OutputEnds
  <2>2. CASE OutputFindsNothing(c)
    BY <2>2 DEF OutputFindsNothing
  <2>3. CASE OutputWaits(c)
    BY <2>3 DEF OutputWaits
  <2>4. CASE OutputDefers(c)
    BY <2>4 DEF OutputDefers
  <2>5. ASSUME NEW l \in BOOLEAN, OutputSelects(c, l) PROVE MutexProtects'
    BY <2>5 DEF OutputSelects, ReadyToSelect, Selected, Kept
  <2>6. ASSUME NEW p \in Pixels, OutputEncodes(c, p) PROVE MutexProtects'
    BY <2>6 DEF OutputEncodes
  <2>7. CASE OutputFlushes(c)
    BY <2>7 DEF OutputFlushes
  <2>8. CASE OutputFails(c)
    BY <2>8 DEF OutputFails
  <2> QED BY <1>6, <2>1, <2>2, <2>3, <2>4, <2>5, <2>6, <2>7, <2>8 DEF Output
<1>7. ASSUME NEW c \in Clients, SpuriousWakeup(c) PROVE MutexProtects'
  BY <1>7 DEF SpuriousWakeup
<1>8. ASSUME NEW c \in Clients, NEW d \in Clients, Evict(c, d) PROVE MutexProtects'
  BY <1>8 DEF Evict
<1>9. CASE MainWakes
  BY <1>9 DEF MainWakes
<1>10. CASE UNCHANGED vars
  BY <1>10 DEF vars
<1> QED BY <1>1, <1>2, <1>3, <1>4, <1>5, <1>6, <1>7, <1>8, <1>9, <1>10 DEF Next

(* updateMutex protects the selected region: for any clients.              *)
THEOREM MutexCorrect == Spec => []MutexProtects
<1>1. Init => MutexProtects
  BY DEF Init, MutexProtects
<1> QED BY <1>1, TypeCorrect, ListCorrect, NextMutex, PTL DEF Spec

-----------------------------------------------------------------------------
(* The three together: the inductive invariant of the pipeline.            *)
THEOREM InvCorrect == Spec => []IInv
BY TypeCorrect, ListCorrect, MutexCorrect, PTL DEF IInv

-----------------------------------------------------------------------------
(* What one step may make the client c miss.                               *)
MayMiss(c) ==
  Missed(c)' \subseteq Missed(c)
                     \cup (IF registered THEN {} ELSE stale'[c] \ stale[c])
                     \cup (IF registered' THEN {} ELSE pending \ pending')

NothingLost == \A c \in Clients : MayMiss(c)

(* No step of any thread loses what a connected client is owed.            *)
LEMMA NextDamage == IInv /\ [Next]_vars => NothingLost
<1> SUFFICES ASSUME IInv, [Next]_vars PROVE NothingLost
  OBVIOUS
<1> USE DEF TypeOK, InputPC, OutputPC, MainPC, inputVars, regionVars, flagVars,
            mainVars, Signal, Woken, MutexFree,
            IInv, MutexProtects, NoUseAfterFree, ListInv, ListFree, Live,
            NothingLost, MayMiss, Missed, Owed, BeingReported
<1>1. CASE \E p \in Pixels : Draw(p)
  BY <1>1 DEF Draw
<1>2. CASE Main
  <2>1. CASE Refresh
    BY <2>1 DEF Refresh, RefreshBegin
  <2>2. ASSUME NEW c \in Clients, RefreshVisit(c) PROVE NothingLost
    BY <2>2 DEF RefreshVisit
  <2>3. ASSUME NEW c \in Clients, CursorVisit(c) PROVE NothingLost
    BY <2>3 DEF CursorVisit
  <2>4. CASE CursorBegin
    BY <2>4 DEF CursorBegin
  <2>5. CASE IteratorEnd
    BY <2>5 DEF IteratorEnd
  <2>6. CASE NoClients
    BY <2>6 DEF NoClients
  <2>7. CASE Hibernate
    <3>1. /\ mainPC = "hibernate" /\ mainPC' = "sleep"
          /\ UNCHANGED <<open, modified, sending, stale, toVisit, rect>>
      BY <2>7 DEF Hibernate
    <3>2. CASE UnregisterWhenNoConnections
      <4>1. registered' = FALSE /\ pending' = {}
        BY <2>7, <3>2 DEF Hibernate
      <4> QED BY <3>1, <4>1
    <3>3. CASE ~UnregisterWhenNoConnections
      <4>1. pending' = pending
        BY <2>7, <3>3 DEF Hibernate
      <4> QED BY <3>1, <4>1
    <3> QED BY <3>2, <3>3
  <2> HIDE DEF TypeOK, IInv, NothingLost
  <2> QED BY <1>2, <2>1, <2>2, <2>3, <2>4, <2>5, <2>6, <2>7 DEF Main
<1>3. CASE CursorChange
  BY <1>3 DEF CursorChange
<1>4. ASSUME NEW c \in Clients, Accept(c) PROVE NothingLost
  BY <1>4 DEF Accept
<1>5. ASSUME NEW c \in Clients, Input(c) PROVE NothingLost
  <2>1. ASSUME NEW r \in SUBSET Pixels, NEW i \in BOOLEAN, UpdateRequest(c, r, i)
        PROVE NothingLost
    BY <2>1 DEF UpdateRequest
  <2>2. CASE EncodingsBegin(c)
    BY <2>2 DEF EncodingsBegin
  <2>3. ASSUME NEW u \in BOOLEAN, NEW n \in BOOLEAN, EncodingsEnd(c, u, n)
        PROVE NothingLost
    BY <2>3 DEF EncodingsEnd
  <2>4. CASE EncodingsBroken(c)
    BY <2>4 DEF EncodingsBroken
  <2>5. CASE ReadFails(c)
    BY <2>5 DEF ReadFails
  <2>6. CASE InputContinues(c)
    BY <2>6 DEF InputContinues, Register
  <2>7. CASE InputLeaves(c)
    BY <2>7 DEF InputLeaves, Register
  <2>8. CASE ConnectionGone(c)
    <3>1. ~open[c] /\ open' = open
      BY <2>8 DEF ConnectionGone
    <3>2. ASSUME NEW d \in Clients, d # c
          PROVE stale'[d] = stale[d] /\ modified'[d] = modified[d]
      BY <2>8, <3>2 DEF ConnectionGone
    <3>3. /\ sending' = sending /\ pending' = pending /\ registered' = registered
          /\ mainPC' = mainPC /\ toVisit' = toVisit /\ rect' = rect
      BY <2>8 DEF ConnectionGone
    <3>4. ASSUME NEW d \in Clients PROVE Missed(d)' \subseteq Missed(d)
      BY <3>1, <3>2, <3>3
    <3> QED BY <3>4
  <2> HIDE DEF TypeOK, IInv, NothingLost
  <2> QED BY <1>5, <2>1, <2>2, <2>3, <2>4, <2>5, <2>6, <2>7, <2>8, ZenonT(60) DEF Input
<1>6. ASSUME NEW c \in Clients, Output(c) PROVE NothingLost
  <2>1. CASE OutputEnds(c)
    BY <2>1 DEF OutputEnds
  <2>2. CASE OutputFindsNothing(c)
    BY <2>2 DEF OutputFindsNothing
  <2>3. CASE OutputWaits(c)
    BY <2>3 DEF OutputWaits
  <2>4. CASE OutputDefers(c)
    BY <2>4 DEF OutputDefers
  <2>5. ASSUME NEW l \in BOOLEAN, OutputSelects(c, l) PROVE NothingLost
    BY <2>5 DEF OutputSelects, ReadyToSelect, Selected, Kept
  <2>6. ASSUME NEW p \in Pixels, OutputEncodes(c, p) PROVE NothingLost
    BY <2>6 DEF OutputEncodes
  <2>7. CASE OutputFlushes(c)
    BY <2>7 DEF OutputFlushes
  <2>8. CASE OutputFails(c)
    BY <2>8 DEF OutputFails
  <2> HIDE DEF TypeOK, IInv, NothingLost
  <2> QED BY <1>6, <2>1, <2>2, <2>3, <2>4, <2>5, <2>6, <2>7, <2>8 DEF Output
<1>7. ASSUME NEW c \in Clients, SpuriousWakeup(c) PROVE NothingLost
  BY <1>7 DEF SpuriousWakeup
<1>8. ASSUME NEW c \in Clients, NEW d \in Clients, Evict(c, d) PROVE NothingLost
  BY <1>8 DEF Evict
<1>9. CASE MainWakes
  BY <1>9 DEF MainWakes
<1>10. CASE UNCHANGED vars
  BY <1>10 DEF vars
<1> HIDE DEF TypeOK, IInv, NothingLost
<1> QED BY <1>1, <1>2, <1>3, <1>4, <1>5, <1>6, <1>7, <1>8, <1>9, <1>10 DEF Next

(* No damage is lost between the window server's report and the update,    *)
(* for any clients, any screen and every interleaving: what a client comes *)
(* to miss was drawn while nobody was registered, or was dropped by a      *)
(* hibernation.                                                            *)
THEOREM DamageCorrect == Spec => DamageIsOwed
<1>1. IInv /\ [Next]_vars => [NothingLost]_vars
  BY NextDamage
<1> QED BY <1>1, InvCorrect, PTL DEF Spec, DamageIsOwed, NothingLost, MayMiss

-----------------------------------------------------------------------------
(* The variables of ScreenMirror in terms of those of UpdatePipeline.      *)
Connected == {c \in Clients : open[c]}
Behind == [c \in Clients |-> IF open[c] THEN stale[c] ELSE {}]
Asked == [c \in Clients |-> IF open[c] THEN requested[c] \cup sending[c] ELSE {}]

MirrorStep == [Mirror!MirrorNext]_<<Connected, Behind, Asked>>

(* A connection that closes is Disconnect, and nothing if it was closed.   *)
LEMMA CloseIsDisconnect ==
  ASSUME NEW c \in Clients, TypeOK,
         open' = [open EXCEPT ![c] = FALSE],
         stale' = stale, requested' = requested,
         \A d \in Clients : d # c => sending'[d] = sending[d]
  PROVE MirrorStep
<1>1. CASE open[c]
  <2>1. c \in Connected /\ Connected' = Connected \ {c}
    BY <1>1 DEF Connected, TypeOK
  <2>2. Behind' = [Behind EXCEPT ![c] = {}]
    BY DEF Behind, TypeOK
  <2>3. Asked' = [Asked EXCEPT ![c] = {}]
    BY DEF Asked, TypeOK
  <2>4. Mirror!Disconnect(c)
    BY <2>1, <2>2, <2>3 DEF Mirror!Disconnect, Connected, Behind, Asked
  <2> QED BY <2>4 DEF MirrorStep, Mirror!MirrorNext
<1>2. CASE ~open[c]
  <2>1. open' = open
    BY <1>2 DEF TypeOK
  <2>2. Connected' = Connected /\ Behind' = Behind
    BY <2>1 DEF Connected, Behind
  <2>3. Asked' = Asked
    BY <1>2, <2>1 DEF Asked
  <2> QED BY <2>2, <2>3 DEF MirrorStep
<1> QED BY <1>1, <1>2

(* A step that leaves sockets, requests and copies alone is a stutter.     *)
LEMMA QuietIsStutter ==
  ASSUME open' = open, stale' = stale, requested' = requested, sending' = sending
  PROVE MirrorStep
BY DEF MirrorStep, Connected, Behind, Asked

LEMMA StepImplements == IInv /\ [Next]_vars => MirrorStep
<1> SUFFICES ASSUME IInv, [Next]_vars PROVE MirrorStep
  OBVIOUS
<1> USE DEF inputVars, regionVars, flagVars, mainVars
<1>t. TypeOK
  BY DEF IInv
<1>1. ASSUME NEW p \in Pixels, Draw(p) PROVE MirrorStep
  <2>1. open' = open /\ requested' = requested /\ sending' = sending
    BY <1>1 DEF Draw
  <2>2. \A c \in Clients : open[c] => stale'[c] = stale[c] \cup {p}
    BY <1>1 DEF Draw, IInv, ListInv, NoUseAfterFree
  <2>3. Behind' = [c \in Clients |-> Behind[c] \cup (IF c \in Connected THEN {p} ELSE {})]
    BY <2>1, <2>2 DEF Behind, Connected
  <2>4. Connected' = Connected /\ Asked' = Asked
    BY <2>1 DEF Connected, Asked
  <2>5. Mirror!Change(p)
    BY <2>3, <2>4 DEF Mirror!Change, Connected, Behind, Asked
  <2> QED BY <2>5 DEF MirrorStep, Mirror!MirrorNext
<1>2. CASE Main
  BY <1>2, QuietIsStutter
     DEF Main, Refresh, RefreshBegin, RefreshVisit, CursorVisit, CursorBegin, IteratorEnd,
         NoClients, Hibernate
<1>3. CASE CursorChange
  BY <1>3, QuietIsStutter DEF CursorChange
<1>4. ASSUME NEW c \in Clients, Accept(c) PROVE MirrorStep
  <2>1. ~open[c] /\ requested[c] = {} /\ sending[c] = {}
    BY <1>4 DEF Accept, IInv, ListInv, NoUseAfterFree, MutexProtects, Live
  <2>2. c \notin Connected /\ Connected' = Connected \cup {c}
    BY <1>4, <1>t, <2>1 DEF Accept, Connected, TypeOK
  <2>3. Behind' = [Behind EXCEPT ![c] = Pixels]
    BY <1>4, <1>t DEF Accept, Behind, TypeOK
  <2>4. Asked' = [Asked EXCEPT ![c] = {}]
    BY <1>4, <1>t, <2>1 DEF Accept, Asked, TypeOK
  <2>5. Mirror!Connect(c)
    BY <2>2, <2>3, <2>4 DEF Mirror!Connect, Connected, Behind, Asked
  <2> QED BY <2>5 DEF MirrorStep, Mirror!MirrorNext
<1>5. ASSUME NEW c \in Clients, Input(c) PROVE MirrorStep
  <2>1. ASSUME NEW r \in SUBSET Pixels, NEW i \in BOOLEAN, UpdateRequest(c, r, i)
        PROVE MirrorStep
    <3>1. Connected' = Connected /\ Behind' = Behind
      BY <2>1 DEF UpdateRequest, Connected, Behind
    <3>2. CASE open[c]
      <4>1. Asked' = [Asked EXCEPT ![c] = @ \cup r]
        BY <2>1, <1>t, <3>2 DEF UpdateRequest, Asked, TypeOK
      <4>2. Mirror!Ask(c, r)
        BY <3>1, <3>2, <4>1 DEF Mirror!Ask, Connected, Behind, Asked
      <4> QED BY <4>2 DEF MirrorStep, Mirror!MirrorNext
    <3>3. CASE ~open[c]
      <4>1. Asked' = Asked
        BY <2>1, <1>t, <3>3 DEF UpdateRequest, Asked, TypeOK
      <4> QED BY <3>1, <4>1 DEF MirrorStep
    <3> QED BY <3>2, <3>3
  <2>2. CASE \/ EncodingsBegin(c)
             \/ \E u, n \in BOOLEAN : EncodingsEnd(c, u, n)
             \/ InputContinues(c)
             \/ InputLeaves(c)
    BY <2>2, QuietIsStutter DEF EncodingsBegin, EncodingsEnd, InputContinues, InputLeaves
  <2>3. CASE EncodingsBroken(c) \/ ReadFails(c)
    <3>1. /\ open' = [open EXCEPT ![c] = FALSE]
          /\ stale' = stale /\ requested' = requested /\ sending' = sending
      BY <2>3 DEF EncodingsBroken, ReadFails
    <3> QED BY <3>1, <1>t, CloseIsDisconnect
  <2>4. CASE ConnectionGone(c)
    <3>1. ~open[c]
      BY <2>4 DEF ConnectionGone, IInv, ListInv
    <3>2. open' = open /\ sending' = sending
      BY <2>4 DEF ConnectionGone
    <3>3. \A d \in Clients : d # c => stale'[d] = stale[d] /\ requested'[d] = requested[d]
      BY <2>4, <1>t DEF ConnectionGone, TypeOK
    <3>4. Connected' = Connected
      BY <3>2 DEF Connected
    <3>5. Behind' = Behind
      BY <3>1, <3>2, <3>3 DEF Behind
    <3>6. Asked' = Asked
      BY <3>1, <3>2, <3>3 DEF Asked
    <3> QED BY <3>4, <3>5, <3>6 DEF MirrorStep
  <2> QED BY <1>5, <2>1, <2>2, <2>3, <2>4 DEF Input
<1>6. ASSUME NEW c \in Clients, Output(c) PROVE MirrorStep
  <2>1. CASE OutputEnds(c) \/ OutputFindsNothing(c) \/ OutputWaits(c)
             \/ OutputDefers(c) \/ OutputFlushes(c)
    BY <2>1, QuietIsStutter
       DEF OutputEnds, OutputFindsNothing, OutputWaits, OutputDefers, OutputFlushes
  <2>2. ASSUME NEW l \in BOOLEAN, OutputSelects(c, l) PROVE MirrorStep
    <3>1. Connected' = Connected /\ Behind' = Behind
      BY <2>2 DEF OutputSelects, Connected, Behind
    <3>2. CASE open[c]
      <4> PICK r \in SUBSET Pixels : r = Selected(c)
        BY <1>t DEF Selected, TypeOK
      <4>1. Asked' = [Asked EXCEPT ![c] = r]
        BY <2>2, <1>t, <3>2 DEF OutputSelects, Asked, TypeOK
      <4>2. r \subseteq Asked[c] /\ r \in SUBSET Pixels /\ c \in Connected
        BY <3>2, <1>t DEF Selected, Asked, TypeOK, Connected
      <4>3. Mirror!Answer(c, r)
        BY <3>1, <4>1, <4>2 DEF Mirror!Answer, Connected, Behind, Asked
      <4> QED BY <4>3 DEF MirrorStep, Mirror!MirrorNext
    <3>3. CASE ~open[c]
      <4>1. Asked' = Asked
        BY <2>2, <1>t, <3>3 DEF OutputSelects, Asked, TypeOK
      <4> QED BY <3>1, <4>1 DEF MirrorStep
    <3> QED BY <3>2, <3>3
  <2>3. ASSUME NEW p \in Pixels, OutputEncodes(c, p) PROVE MirrorStep
    <3>1. Connected' = Connected
      BY <2>3 DEF OutputEncodes, Connected
    <3>2. CASE open[c]
      <4>1. requested[c] = {} /\ p \in Asked[c] /\ c \in Connected
        BY <2>3, <3>2 DEF OutputEncodes, IInv, MutexProtects, Asked, Connected
      <4>2. Asked' = [Asked EXCEPT ![c] = @ \ {p}]
        BY <2>3, <1>t, <3>2, <4>1 DEF OutputEncodes, Asked, TypeOK
      <4>3. Behind' = [Behind EXCEPT ![c] = @ \ {p}]
        BY <2>3, <1>t, <3>2 DEF OutputEncodes, Behind, TypeOK
      <4>4. Mirror!Show(c, p)
        BY <3>1, <4>1, <4>2, <4>3 DEF Mirror!Show, Connected, Behind, Asked
      <4> QED BY <4>4 DEF MirrorStep, Mirror!MirrorNext
    <3>3. CASE ~open[c]
      <4>1. Asked' = Asked
        BY <2>3, <1>t, <3>3 DEF OutputEncodes, Asked, TypeOK
      <4>2. Behind' = Behind
        BY <2>3, <1>t, <3>3 DEF OutputEncodes, Behind, TypeOK
      <4> QED BY <3>1, <4>1, <4>2 DEF MirrorStep
    <3> QED BY <3>2, <3>3
  <2>4. CASE OutputFails(c)
    <3>1. /\ open' = [open EXCEPT ![c] = FALSE]
          /\ stale' = stale /\ requested' = requested
          /\ \A d \in Clients : d # c => sending'[d] = sending[d]
      BY <2>4, <1>t DEF OutputFails, TypeOK
    <3> QED BY <3>1, <1>t, CloseIsDisconnect
  <2> QED BY <1>6, <2>1, <2>2, <2>3, <2>4 DEF Output
<1>7. ASSUME NEW c \in Clients, SpuriousWakeup(c) PROVE MirrorStep
  BY <1>7, QuietIsStutter DEF SpuriousWakeup
<1>8. ASSUME NEW c \in Clients, NEW d \in Clients, Evict(c, d) PROVE MirrorStep
  <2>1. /\ open' = [open EXCEPT ![c] = FALSE]
        /\ stale' = stale /\ requested' = requested /\ sending' = sending
    BY <1>8 DEF Evict
  <2> QED BY <2>1, <1>t, CloseIsDisconnect
<1>9. CASE MainWakes
  BY <1>9, QuietIsStutter DEF MainWakes
<1>10. CASE UNCHANGED vars
  BY <1>10, QuietIsStutter DEF vars
<1> QED BY <1>1, <1>2, <1>3, <1>4, <1>5, <1>6, <1>7, <1>8, <1>9, <1>10 DEF Next

(* The threads of the server, with their mutexes, regions and signals, do  *)
(* only what ScreenMirror allows.                                          *)
THEOREM Refinement == Spec => ImplementsMirror
<1>1. Init => Mirror!MirrorInit
  BY DEF Init, Mirror!MirrorInit
<1>2. IInv /\ [Next]_vars => [Mirror!MirrorNext]_Mirror!mirrorVars
  BY StepImplements DEF MirrorStep, Mirror!mirrorVars, Connected, Behind, Asked
<1> QED BY <1>1, <1>2, InvCorrect, PTL DEF Spec, ImplementsMirror, Mirror!MirrorSpec
=============================================================================
