------------------------ MODULE RichClipboardProofs ------------------------
(***************************************************************************)
(* What is proved of RichClipboard for any clients, proxies and types: the *)
(* answer the main thread finds is the one to its request, unless a wait   *)
(* for that client was given up, and each request of a client gets one     *)
(* reply.  A request passes through five states, each of which two of the  *)
(* three threads can see; RequestInv follows it.                           *)
(***************************************************************************)
EXTENDS RichClipboard, Integers, SequenceTheorems, TLAPS

(* clientInput outlives clientOutput, a thread that sends has updateMutex, *)
(* and a request that waits to be answered is known.                       *)
ThreadInv ==
  \A c \in Clients :
    /\ outPC[c] # "ended" => inPC[c] \in {"read", "reply", "stall"}
    /\ mutex[c] = "nobody" => outPC[c] \in {"away", "ended"}
    /\ inPC[c] = "reply" => pending[c] # Nil

(* A proxy and its client point at each other while the client's input     *)
(* thread is alive, and what the main thread is busy with is a proxy that  *)
(* points at the client it started with, or at none any more.              *)
Bound == {"setup", "owner", "ask", "wait", "use", "used", "clear"}
PointInv ==
  Running =>
    /\ \A c \in Clients, p \in Proxies :
         points[p] = c => proxyOf[c] = p /\ inPC[c] \in {"read", "reply", "stall"}
    /\ main.at \in Bound => main.proxy \in Proxies /\ points[main.proxy] \in {main.client, Nil}
    /\ main.at \in Bound \ {"setup", "owner"} => main.type \in Types

(* A client that nobody asks anything, and the states of a request: stored *)
(* for the output thread, sent but not forgotten, sent, and answered.      *)
NoRequest(c) ==
  received[c] = NothingReceived /\ heard[c] = <<>> /\ outPC[c] \notin {"ask", "forget"}
Stored(c) ==
  /\ received[c] = [asking |-> TRUE, type |-> main.type, data |-> Nil]
  /\ heard[c] = <<>> /\ outPC[c] # "forget"
Asked(c) ==
  /\ received[c] = [asking |-> TRUE, type |-> main.type, data |-> Nil]
  /\ heard[c] = <<main.type>> /\ outPC[c] = "forget"
Heard(c) ==
  /\ received[c] = NothingReceived
  /\ heard[c] = <<main.type>> /\ outPC[c] \notin {"ask", "forget"}
Answered(c) ==
  /\ \E d \in {main.type, "failed"} :
       received[c] = [asking |-> FALSE, type |-> main.type, data |-> d]
  /\ heard[c] = <<>> /\ outPC[c] \notin {"ask", "forget"}

Awaiting == {"wait", "use", "used", "clear"}
RequestOK(c) ==
  inPC[c] # "absent" /\ ~unsettled[c] =>
    IF main.client = c /\ main.at \in Awaiting
    THEN points[main.proxy] = c =>
           \/ main.at = "wait" /\ (Stored(c) \/ Asked(c) \/ Heard(c))
           \/ Answered(c)
    ELSE NoRequest(c)
RequestInv == Running => \A c \in Clients : RequestOK(c)

(* While setupTypes declares, its call is still the first of those that    *)
(* wait.                                                                   *)
DeclareInv == main.during = "setup" => setups # <<>>

IInv == TypeOK /\ ThreadInv /\ DeclareInv /\ PointInv /\ RepliesKept /\ RequestInv

-----------------------------------------------------------------------------
(* What the poll begins with.                                              *)
LEMMA PollBeginsMain ==
  ASSUME PollBegins
  PROVE  \/ main' = [at |-> "declare", during |-> "cut", proxy |-> Nil, client |-> Nil, type |-> Nil]
         \/ main' = [at |-> "string", during |-> "event", proxy |-> Nil, client |-> Nil, type |-> Nil]
<1>1. CASE cutText
  <2>1. main' = Declaring("cut")
    BY <1>1 DEF PollBegins
  <2> QED BY <2>1 DEF Declaring, Idle
<1>2. CASE ~cutText
  <2>1. main' = [Idle EXCEPT !.at = "string"]
    BY <1>2 DEF PollBegins
  <2> QED BY <2>1 DEF Idle
<1> QED BY <1>1, <1>2

LEMMA TypeStep == TypeOK /\ ThreadInv /\ DeclareInv /\ RepliesKept /\ Next => TypeOK'
<1> SUFFICES ASSUME TypeOK, ThreadInv, DeclareInv, RepliesKept, Next PROVE TypeOK'
  OBVIOUS
<1> USE RichClipboardAssumption DEF TypeOK, boardVars, threadVars, dataVars, proxyVars
<1>1. CASE SetupTypes
  <2>1. Head(setups) \in Proxies
    BY <1>1 DEF SetupTypes
  <2>2. owner' \in Proxies \cup {Nil} /\ displaced' \subseteq Proxies
    BY <1>1, <2>1 DEF SetupTypes, Declare
  <2> QED BY <1>1, <2>2 DEF SetupTypes, Declare, Declaring, Idle
<1>2. CASE SetupRecords
  BY <1>2 DEF SetupRecords, Idle
<1>3. CASE OwnerForgets
  <2>1. main' \in [at : {"events", "declare", "setup", "owner", "ask", "wait", "use", "used", "clear",
                     "string", "info", "crashed"},
               during : {"event", "setup", "cut", "string", "info"}, proxy : Proxies \cup {Nil},
               client : Clients \cup {Nil}, type : Types \cup {Nil}]
    BY <1>3 DEF OwnerForgets, Declaring, Idle
  <2>2. proxyOf' \in [Clients -> Proxies \cup {Nil}] /\ points' \in [Proxies -> Clients \cup {Nil}]
    BY <1>3 DEF OwnerForgets
  <2> QED BY <1>3, <2>1, <2>2 DEF OwnerForgets
<1>4. CASE AskStores
  <2>1. main' \in [at : {"events", "declare", "setup", "owner", "ask", "wait", "use", "used", "clear",
                     "string", "info", "crashed"},
               during : {"event", "setup", "cut", "string", "info"}, proxy : Proxies \cup {Nil},
               client : Clients \cup {Nil}, type : Types \cup {Nil}]
    BY <1>4 DEF AskStores
  <2>2. received' \in [Clients -> [asking : BOOLEAN, type : Types \cup {Nil},
                                  data : Types \cup {Nil, "failed"}]]
    BY <1>4 DEF AskStores
  <2>3. UNCHANGED <<inPC, outPC, open, mutex, reply, pending, owed,
                   heard, ownText, proxyOf, points, setups, owner,
                   displaced, have, newText, newInfo, cutText,
                   varLock, unsettled>>
    BY <1>4 DEF AskStores
  <2> QED BY <2>1, <2>2, <2>3
<1>5. CASE AnswerComes
  BY <1>5 DEF AnswerComes
<1>6. CASE TimesOut
  BY <1>6 DEF TimesOut
<1>7. CASE ProxyRemoved
  <2>1. main' \in [at : {"events", "declare", "setup", "owner", "ask", "wait", "use", "used", "clear",
                     "string", "info", "crashed"},
               during : {"event", "setup", "cut", "string", "info"}, proxy : Proxies \cup {Nil},
               client : Clients \cup {Nil}, type : Types \cup {Nil}]
    BY <1>7 DEF ProxyRemoved, Resume, Idle
  <2>2. varLock' \in Clients \cup {Nil, "main"} /\ unsettled' \in [Clients -> BOOLEAN]
    BY <1>7 DEF ProxyRemoved, Resume
  <2> QED BY <1>7, <2>1, <2>2 DEF ProxyRemoved
<1>8. CASE UseData
  BY <1>8 DEF UseData
<1>9. CASE LocksAgain
  BY <1>9 DEF LocksAgain
<1>10. CASE ClearsData
  <2>1. main' \in [at : {"events", "declare", "setup", "owner", "ask", "wait", "use", "used", "clear",
                     "string", "info", "crashed"},
               during : {"event", "setup", "cut", "string", "info"}, proxy : Proxies \cup {Nil},
               client : Clients \cup {Nil}, type : Types \cup {Nil}]
    BY <1>10 DEF ClearsData, Resume, Cleared, Idle
  <2>2. varLock' \in Clients \cup {Nil, "main"}
    BY <1>10 DEF ClearsData, Resume, Cleared, Idle
  <2>3. received' \in [Clients -> [asking : BOOLEAN, type : Types \cup {Nil},
                                  data : Types \cup {Nil, "failed"}]]
    BY <1>10 DEF ClearsData, Resume, Cleared, Idle
  <2>4. UNCHANGED <<inPC, outPC, open, mutex, reply, pending, owed,
                   heard, ownText, proxyOf, points, setups, owner,
                   displaced, have, newText, newInfo, cutText,
                   unsettled>>
    BY <1>10 DEF ClearsData, Resume, Cleared, Idle
  <2> QED BY <2>1, <2>2, <2>3, <2>4
<1>11. CASE PollBegins
  <2>1. main' \in [at : {"events", "declare", "setup", "owner", "ask", "wait", "use", "used", "clear",
                     "string", "info", "crashed"},
               during : {"event", "setup", "cut", "string", "info"}, proxy : Proxies \cup {Nil},
               client : Clients \cup {Nil}, type : Types \cup {Nil}]
    BY <1>11, PollBeginsMain
  <2>2. varLock' \in Clients \cup {Nil, "main"}
    BY <1>11 DEF PollBegins, Declare, Declaring, Idle
  <2>3. owner' \in Proxies \cup {Nil}
    BY <1>11 DEF PollBegins, Declare, Declaring, Idle
  <2>4. displaced' \in SUBSET Proxies
    BY <1>11 DEF PollBegins, Declare, Declaring, Idle
  <2>5. have' \in SUBSET Types
    BY <1>11 DEF PollBegins, Declare, Declaring, Idle
  <2>6. newText' \in BOOLEAN
    BY <1>11 DEF PollBegins, Declare, Declaring, Idle
  <2>7. newInfo' \in BOOLEAN
    BY <1>11 DEF PollBegins, Declare, Declaring, Idle
  <2>8. UNCHANGED <<inPC, outPC, open, mutex, received, reply,
                   pending, owed, heard, ownText, proxyOf, points,
                   setups, cutText, unsettled>>
    BY <1>11 DEF PollBegins, Declare, Declaring, Idle
  <2> QED BY <2>1, <2>2, <2>3, <2>4, <2>5, <2>6, <2>7, <2>8
<1>12. CASE PollString
  <2>1. main' \in [at : {"events", "declare", "setup", "owner", "ask", "wait", "use", "used", "clear",
                     "string", "info", "crashed"},
               during : {"event", "setup", "cut", "string", "info"}, proxy : Proxies \cup {Nil},
               client : Clients \cup {Nil}, type : Types \cup {Nil}]
    BY <1>12 DEF PollString, Asking, CanAsk, Idle
  <2>2. varLock' \in Clients \cup {Nil, "main"}
    BY <1>12 DEF PollString, Asking, CanAsk, Idle
  <2>3. newText' \in BOOLEAN
    BY <1>12 DEF PollString, Asking, CanAsk, Idle
  <2>4. UNCHANGED <<inPC, outPC, open, mutex, received, reply,
                   pending, owed, heard, ownText, proxyOf, points,
                   setups, owner, displaced, have, newInfo, cutText,
                   unsettled>>
    BY <1>12 DEF PollString, Asking, CanAsk, Idle
  <2> QED BY <2>1, <2>2, <2>3, <2>4
<1>13. CASE PollInfo
  <2>1. main' \in [at : {"events", "declare", "setup", "owner", "ask", "wait", "use", "used", "clear",
                     "string", "info", "crashed"},
               during : {"event", "setup", "cut", "string", "info"}, proxy : Proxies \cup {Nil},
               client : Clients \cup {Nil}, type : Types \cup {Nil}]
    BY <1>13 DEF PollInfo, Asking, CanAsk, Idle
  <2>2. varLock' \in Clients \cup {Nil, "main"}
    BY <1>13 DEF PollInfo, Asking, CanAsk, Idle
  <2>3. newInfo' \in BOOLEAN
    BY <1>13 DEF PollInfo, Asking, CanAsk, Idle
  <2>4. UNCHANGED <<inPC, outPC, open, mutex, received, reply,
                   pending, owed, heard, ownText, proxyOf, points,
                   setups, owner, displaced, have, newText, cutText,
                   unsettled>>
    BY <1>13 DEF PollInfo, Asking, CanAsk, Idle
  <2> QED BY <2>1, <2>2, <2>3, <2>4
<1>14. CASE UsesNoClient
  BY <1>14 DEF UsesNoClient, Crash, Idle
<1>15. CASE LocalCopy
  BY <1>15 DEF LocalCopy, Declare
<1>16. ASSUME NEW c \in Clients, Connect(c) PROVE TypeOK'
  BY <1>16 DEF Connect, NothingReceived, Running
<1>17. ASSUME NEW c \in Clients, ReadData(c) PROVE TypeOK'
  <2>1. Head(heard[c]) \in Types /\ Tail(heard[c]) \in Seq(Types)
    BY <1>17 DEF ReadData, Receive
  <2>2. received' \in [Clients -> [asking : BOOLEAN, type : Types \cup {Nil},
                                  data : Types \cup {Nil, "failed"}]]
    BY <1>17, <2>1 DEF ReadData, Receive
  <2>3. heard' \in [Clients -> Seq(Types)]
    BY <1>17, <2>1 DEF ReadData, Receive
  <2>4. UNCHANGED <<inPC, outPC, open, mutex, reply, pending, owed,
                   ownText, proxyOf, points, setups, owner,
                   displaced, have, newText, newInfo, cutText,
                   varLock, main, unsettled>>
    BY <1>17, <2>1 DEF ReadData, Receive
  <2> QED BY <2>2, <2>3, <2>4
<1>18. ASSUME NEW c \in Clients, ReadCutText(c) PROVE TypeOK'
  BY <1>18 DEF ReadCutText, Reads
<1>19. ASSUME NEW c \in Clients, StallEnds(c) PROVE TypeOK'
  BY <1>19 DEF StallEnds
<1>20. ASSUME NEW c \in Clients, Disconnect(c) PROVE TypeOK'
  BY <1>20 DEF Disconnect
<1>21. ASSUME NEW c \in Clients, InputLeaves(c) PROVE TypeOK'
  BY <1>21 DEF InputLeaves
<1>22. ASSUME NEW c \in Clients, ConnectionGone(c) PROVE TypeOK'
  BY <1>22 DEF ConnectionGone
<1>23. ASSUME NEW c \in Clients, OutputEnds(c) PROVE TypeOK'
  BY <1>23 DEF OutputEnds
<1>24. ASSUME NEW c \in Clients, OutputReplies(c) PROVE TypeOK'
  <2>1. owed[c] \in Seq(Types) /\ (reply[c] # Nil => owed[c] # <<>>)
    <3>1. owed[c] = (IF reply[c] = Nil THEN <<>> ELSE <<reply[c]>>)
                    \o (IF inPC[c] = "reply" THEN <<pending[c]>> ELSE <<>>)
      BY <1>24 DEF OutputReplies, ThreadInv, RepliesKept
    <3>2. CASE reply[c] # Nil
      <4>1. reply[c] \in Types
        BY <3>2
      <4>2. CASE inPC[c] = "reply"
        BY <3>1, <3>2, <4>1, <4>2
      <4>3. CASE inPC[c] # "reply"
        BY <3>1, <3>2, <4>1, <4>3
      <4> QED BY <4>2, <4>3
    <3> QED BY <3>2
  <2>2. owed' \in [Clients -> Seq(Types)]
    BY <1>24, <2>1 DEF OutputReplies
  <2>3. reply' \in [Clients -> Types \cup {Nil}]
    BY <1>24, <2>1 DEF OutputReplies
  <2>4. outPC' \in [Clients -> {"away", "ask", "forget", "news", "announce", "ended"}]
    BY <1>24, <2>1 DEF OutputReplies
  <2>5. mutex' \in [Clients -> {"nobody", "out"}]
    BY <1>24, <2>1 DEF OutputReplies
  <2>6. UNCHANGED <<inPC, open, received, pending, heard, ownText,
                   proxyOf, points, setups, owner, displaced, have,
                   newText, newInfo, cutText, varLock, main,
                   unsettled>>
    BY <1>24, <2>1 DEF OutputReplies
  <2> QED BY <2>2, <2>3, <2>4, <2>5, <2>6
<1>25. ASSUME NEW c \in Clients, OutputAsks(c) PROVE TypeOK'
  BY <1>25 DEF OutputAsks
<1>26. ASSUME NEW c \in Clients, OutputForgets(c) PROVE TypeOK'
  <2>1. received' \in [Clients -> [asking : BOOLEAN, type : Types \cup {Nil},
                                  data : Types \cup {Nil, "failed"}]]
    BY <1>26 DEF OutputForgets
  <2>2. outPC' \in [Clients -> {"away", "ask", "forget", "news", "announce", "ended"}]
    BY <1>26 DEF OutputForgets
  <2>3. UNCHANGED <<inPC, open, mutex, reply, pending, owed, heard,
                   ownText, proxyOf, points, setups, owner,
                   displaced, have, newText, newInfo, cutText,
                   varLock, main, unsettled>>
    BY <1>26 DEF OutputForgets
  <2> QED BY <2>1, <2>2, <2>3
<1>27. ASSUME NEW c \in Clients, OutputKeepsOwn(c) PROVE TypeOK'
  BY <1>27 DEF OutputKeepsOwn
<1>28. ASSUME NEW c \in Clients, OutputLooks(c) PROVE TypeOK'
  BY <1>28 DEF OutputLooks
<1>29. ASSUME NEW c \in Clients, OutputAnnounces(c) PROVE TypeOK'
  BY <1>29 DEF OutputAnnounces
<1>30. ASSUME NEW c \in Clients, AsksForNothing(c) PROVE TypeOK'
  BY <1>30 DEF AsksForNothing, Crash, Idle
<1>31. ASSUME NEW c \in Clients, ReplyStores(c) PROVE TypeOK'
  BY <1>31 DEF ReplyStores, StoreReply
<1>32. ASSUME NEW c \in Clients, NEW p \in Proxies, ReadAvailable(c, p) PROVE TypeOK'
  BY <1>32 DEF ReadAvailable, Reads
<1>33. ASSUME NEW c \in Clients, NEW t \in Types, ReadRequest(c, t) PROVE TypeOK'
  BY <1>33 DEF ReadRequest, Reads
<1>34. ASSUME NEW p \in Proxies, OwnerChanged(p) PROVE TypeOK'
  BY <1>34 DEF OwnerChanged, Idle
<1>35. ASSUME NEW t \in Types, DataWanted(t) PROVE TypeOK'
  BY <1>35 DEF DataWanted, Asking, CanAsk
<1>36. CASE SetupDeclared
  <2>1. Head(setups) \in Proxies /\ Tail(setups) \in Seq(Proxies)
    BY <1>36 DEF SetupDeclared, DeclareInv
  <2>2. points[Head(setups)] \in Clients \cup {Nil}
    BY <2>1
  <2> QED BY <1>36, <2>1, <2>2 DEF SetupDeclared, Idle
<1>37. CASE CutPublished
  BY <1>37 DEF CutPublished, Idle
<1> QED
  BY <1>1, <1>2, <1>3, <1>4, <1>5, <1>6, <1>7, <1>8, <1>9, <1>10, <1>11, <1>12,
     <1>13, <1>14, <1>15, <1>16, <1>17, <1>18, <1>19, <1>20, <1>21, <1>22, <1>23,
     <1>24, <1>25, <1>26, <1>27, <1>28, <1>29, <1>30, <1>31, <1>32, <1>33, <1>34,
     <1>35, <1>36, <1>37
  DEF Next, MainWorks, Events, Input, Output, Messages

LEMMA ThreadStep == TypeOK /\ ThreadInv /\ Next => ThreadInv'
<1> SUFFICES ASSUME TypeOK, ThreadInv, Next PROVE ThreadInv'
  OBVIOUS
<1> USE RichClipboardAssumption
    DEF TypeOK, ThreadInv, MutexFree, boardVars, threadVars, dataVars, proxyVars
<1>1. CASE SetupTypes
  BY <1>1 DEF SetupTypes, Declare, Declaring, Idle
<1>2. CASE SetupRecords
  BY <1>2 DEF SetupRecords, Idle
<1>3. CASE OwnerForgets
  BY <1>3 DEF OwnerForgets, Declaring, Idle
<1>4. CASE AskStores
  BY <1>4 DEF AskStores
<1>5. CASE AnswerComes
  BY <1>5 DEF AnswerComes
<1>6. CASE TimesOut
  BY <1>6 DEF TimesOut
<1>7. CASE ProxyRemoved
  BY <1>7 DEF ProxyRemoved, Resume, Idle
<1>8. CASE UseData
  BY <1>8 DEF UseData
<1>9. CASE LocksAgain
  BY <1>9 DEF LocksAgain
<1>10. CASE ClearsData
  BY <1>10 DEF ClearsData, Resume, Idle, Cleared
<1>11. CASE PollBegins
  BY <1>11 DEF PollBegins, Declare, Declaring, Idle
<1>12. CASE PollString
  BY <1>12 DEF PollString, Asking, CanAsk, Idle
<1>13. CASE PollInfo
  BY <1>13 DEF PollInfo, Asking, CanAsk, Idle
<1>14. CASE UsesNoClient
  BY <1>14 DEF UsesNoClient, Crash, Idle
<1>15. CASE LocalCopy
  BY <1>15 DEF LocalCopy, Declare, Running
<1>16. ASSUME NEW c \in Clients, Connect(c) PROVE ThreadInv'
  BY <1>16 DEF Connect, NothingReceived, Running
<1>17. ASSUME NEW c \in Clients, ReadData(c) PROVE ThreadInv'
  BY <1>17 DEF ReadData, Receive, Reads
<1>18. ASSUME NEW c \in Clients, ReadCutText(c) PROVE ThreadInv'
  BY <1>18 DEF ReadCutText, Reads
<1>19. ASSUME NEW c \in Clients, StallEnds(c) PROVE ThreadInv'
  BY <1>19 DEF StallEnds
<1>20. ASSUME NEW c \in Clients, Disconnect(c) PROVE ThreadInv'
  BY <1>20 DEF Disconnect
<1>21. ASSUME NEW c \in Clients, InputLeaves(c) PROVE ThreadInv'
  BY <1>21 DEF InputLeaves
<1>22. ASSUME NEW c \in Clients, ConnectionGone(c) PROVE ThreadInv'
  BY <1>22 DEF ConnectionGone
<1>23. ASSUME NEW c \in Clients, OutputEnds(c) PROVE ThreadInv'
  BY <1>23 DEF OutputEnds
<1>24. ASSUME NEW c \in Clients, OutputReplies(c) PROVE ThreadInv'
  BY <1>24 DEF OutputReplies
<1>25. ASSUME NEW c \in Clients, OutputAsks(c) PROVE ThreadInv'
  BY <1>25 DEF OutputAsks
<1>26. ASSUME NEW c \in Clients, OutputForgets(c) PROVE ThreadInv'
  BY <1>26 DEF OutputForgets
<1>27. ASSUME NEW c \in Clients, OutputKeepsOwn(c) PROVE ThreadInv'
  BY <1>27 DEF OutputKeepsOwn
<1>28. ASSUME NEW c \in Clients, OutputLooks(c) PROVE ThreadInv'
  BY <1>28 DEF OutputLooks
<1>29. ASSUME NEW c \in Clients, OutputAnnounces(c) PROVE ThreadInv'
  BY <1>29 DEF OutputAnnounces
<1>30. ASSUME NEW c \in Clients, AsksForNothing(c) PROVE ThreadInv'
  BY <1>30 DEF AsksForNothing, Crash, Idle
<1>31. ASSUME NEW c \in Clients, ReplyStores(c) PROVE ThreadInv'
  BY <1>31 DEF ReplyStores, StoreReply
<1>32. ASSUME NEW c \in Clients, NEW p \in Proxies, ReadAvailable(c, p) PROVE ThreadInv'
  BY <1>32 DEF ReadAvailable, Reads, Unused
<1>33. ASSUME NEW c \in Clients, NEW t \in Types, ReadRequest(c, t) PROVE ThreadInv'
  BY <1>33 DEF ReadRequest, Reads
<1>34. ASSUME NEW p \in Proxies, OwnerChanged(p) PROVE ThreadInv'
  BY <1>34 DEF OwnerChanged, Idle
<1>35. ASSUME NEW t \in Types, DataWanted(t) PROVE ThreadInv'
  BY <1>35 DEF DataWanted, Asking, CanAsk
<1>36. CASE SetupDeclared
  BY <1>36 DEF SetupDeclared, Idle
<1>37. CASE CutPublished
  BY <1>37 DEF CutPublished, Idle
<1> QED
  BY <1>1, <1>2, <1>3, <1>4, <1>5, <1>6, <1>7, <1>8, <1>9, <1>10, <1>11, <1>12,
     <1>13, <1>14, <1>15, <1>16, <1>17, <1>18, <1>19, <1>20, <1>21, <1>22, <1>23,
     <1>24, <1>25, <1>26, <1>27, <1>28, <1>29, <1>30, <1>31, <1>32, <1>33, <1>34,
     <1>35, <1>36, <1>37
  DEF Next, MainWorks, Events, Input, Output, Messages

(* Only setupTypes takes a call off those that wait, when it is done.      *)
LEMMA DeclareStep == TypeOK /\ DeclareInv /\ Next => DeclareInv'
<1> SUFFICES ASSUME TypeOK, DeclareInv, Next PROVE DeclareInv'
  OBVIOUS
<1> USE DEF DeclareInv, TypeOK
<1>1. CASE MainWorks
  <2>1. CASE SetupDeclared
    BY <2>1 DEF SetupDeclared, Idle
  <2>2. CASE OwnerForgets
    BY <2>2 DEF OwnerForgets, Declaring, Idle
  <2>3. CASE AskStores \/ AnswerComes \/ TimesOut \/ UseData \/ LocksAgain
    BY <2>3 DEF AskStores, AnswerComes, TimesOut, UseData, LocksAgain, proxyVars
  <2>4. CASE SetupRecords \/ CutPublished \/ ProxyRemoved \/ ClearsData \/ UsesNoClient
    BY <2>4 DEF SetupRecords, CutPublished, ProxyRemoved, ClearsData, UsesNoClient, Crash, Resume, Idle
  <2>5. CASE PollString \/ PollInfo
    BY <2>5 DEF PollString, PollInfo, Asking, Idle
  <2> QED BY <1>1, <2>1, <2>2, <2>3, <2>4, <2>5 DEF MainWorks
<1>2. CASE SetupTypes
  BY <1>2 DEF SetupTypes, proxyVars
<1>3. CASE PollBegins
  BY <1>3 DEF PollBegins, Declaring, Idle
<1>4. ASSUME NEW p \in Proxies, OwnerChanged(p) PROVE DeclareInv'
  BY <1>4 DEF OwnerChanged, proxyVars
<1>5. ASSUME NEW t \in Types, DataWanted(t) PROVE DeclareInv'
  BY <1>5 DEF DataWanted, Asking
<1>6. ASSUME NEW c \in Clients, NEW p \in Proxies, ReadAvailable(c, p) PROVE DeclareInv'
  <2>1. setups' = Append(setups, p) /\ main' = main
    BY <1>6 DEF ReadAvailable
  <2>2. Len(Append(setups, p)) = Len(setups) + 1 /\ Len(setups) \in Nat
    BY AppendProperties, LenProperties
  <2>3. Len(setups') # 0
    BY <2>1, <2>2
  <2>4. setups' # <<>>
    BY <2>3
  <2> QED BY <2>4
<1>7. ASSUME NEW c \in Clients, AsksForNothing(c) PROVE DeclareInv'
  BY <1>7 DEF AsksForNothing, Crash, Idle
<1>8. CASE UNCHANGED <<main, setups>>
  BY <1>8
<1>9. ASSUME NEW c \in Clients, Input(c) PROVE UNCHANGED <<main, setups>>
  BY <1>9 DEF Input, StallEnds, ReplyStores, StoreReply, InputLeaves, ConnectionGone, proxyVars
<1>10. ASSUME NEW c \in Clients, Output(c), ~AsksForNothing(c) PROVE UNCHANGED <<main, setups>>
  BY <1>10 DEF Output, OutputEnds, OutputReplies, OutputAsks, OutputForgets, OutputKeepsOwn, OutputLooks,
     OutputAnnounces, proxyVars
<1>11. ASSUME NEW c \in Clients, Connect(c) \/ Disconnect(c) \/ ReadData(c) \/ ReadCutText(c)
       PROVE UNCHANGED <<main, setups>>
  BY <1>11 DEF Connect, Disconnect, ReadData, Receive, ReadCutText, proxyVars
<1>12. ASSUME NEW c \in Clients, NEW t \in Types, ReadRequest(c, t) PROVE UNCHANGED <<main, setups>>
  BY <1>12 DEF ReadRequest, proxyVars
<1>13. ASSUME LocalCopy PROVE UNCHANGED <<main, setups>>
  BY <1>13 DEF LocalCopy, proxyVars
<1> QED
  BY <1>1, <1>2, <1>3, <1>4, <1>5, <1>6, <1>7, <1>8, <1>9, <1>10, <1>11, <1>12, <1>13
  DEF Next, Events, Messages

LEMMA PointStep == TypeOK /\ DeclareInv /\ PointInv /\ Next => PointInv'
<1> SUFFICES ASSUME TypeOK, DeclareInv, PointInv, Next PROVE PointInv'
  OBVIOUS
<1> USE RichClipboardAssumption
    DEF TypeOK, PointInv, Running, Bound, Dangles, boardVars, threadVars, dataVars,
        proxyVars
<1>1. CASE SetupTypes
  BY <1>1 DEF SetupTypes, Declare, Declaring, Idle
<1>2. CASE SetupRecords
  BY <1>2 DEF SetupRecords, Idle
<1>3. CASE OwnerForgets
  BY <1>3 DEF OwnerForgets, Declaring, Idle
<1>4. CASE AskStores
  BY <1>4 DEF AskStores
<1>5. CASE AnswerComes
  BY <1>5 DEF AnswerComes
<1>6. CASE TimesOut
  BY <1>6 DEF TimesOut
<1>7. CASE ProxyRemoved
  BY <1>7 DEF ProxyRemoved, Resume, Idle
<1>8. CASE UseData
  BY <1>8 DEF UseData
<1>9. CASE LocksAgain
  BY <1>9 DEF LocksAgain
<1>10. CASE ClearsData
  BY <1>10 DEF ClearsData, Resume, Idle, Cleared
<1>11. CASE PollBegins
  <2>1. main'.at \in {"declare", "string"} /\ main'.client = Nil
    BY <1>11, PollBeginsMain
  <2> QED BY <1>11, <2>1 DEF PollBegins
<1>12. CASE PollString
  BY <1>12 DEF PollString, Asking, CanAsk, Idle
<1>13. CASE PollInfo
  BY <1>13 DEF PollInfo, Asking, CanAsk, Idle
<1>14. CASE UsesNoClient
  BY <1>14 DEF UsesNoClient, Crash, Idle
<1>15. CASE LocalCopy
  BY <1>15 DEF LocalCopy, Declare, Running
<1>16. ASSUME NEW c \in Clients, Connect(c) PROVE PointInv'
  BY <1>16 DEF Connect, NothingReceived, Running
<1>17. ASSUME NEW c \in Clients, ReadData(c) PROVE PointInv'
  BY <1>17 DEF ReadData, Receive, Reads
<1>18. ASSUME NEW c \in Clients, ReadCutText(c) PROVE PointInv'
  BY <1>18 DEF ReadCutText, Reads
<1>19. ASSUME NEW c \in Clients, StallEnds(c) PROVE PointInv'
  BY <1>19 DEF StallEnds
<1>20. ASSUME NEW c \in Clients, Disconnect(c) PROVE PointInv'
  BY <1>20 DEF Disconnect
<1>21. ASSUME NEW c \in Clients, InputLeaves(c) PROVE PointInv'
  BY <1>21 DEF InputLeaves
<1>22. ASSUME NEW c \in Clients, ConnectionGone(c) PROVE PointInv'
  BY <1>22 DEF ConnectionGone
<1>23. ASSUME NEW c \in Clients, OutputEnds(c) PROVE PointInv'
  BY <1>23 DEF OutputEnds
<1>24. ASSUME NEW c \in Clients, OutputReplies(c) PROVE PointInv'
  BY <1>24 DEF OutputReplies
<1>25. ASSUME NEW c \in Clients, OutputAsks(c) PROVE PointInv'
  BY <1>25 DEF OutputAsks
<1>26. ASSUME NEW c \in Clients, OutputForgets(c) PROVE PointInv'
  BY <1>26 DEF OutputForgets
<1>27. ASSUME NEW c \in Clients, OutputKeepsOwn(c) PROVE PointInv'
  BY <1>27 DEF OutputKeepsOwn
<1>28. ASSUME NEW c \in Clients, OutputLooks(c) PROVE PointInv'
  BY <1>28 DEF OutputLooks
<1>29. ASSUME NEW c \in Clients, OutputAnnounces(c) PROVE PointInv'
  BY <1>29 DEF OutputAnnounces
<1>30. ASSUME NEW c \in Clients, AsksForNothing(c) PROVE PointInv'
  BY <1>30 DEF AsksForNothing, Crash, Idle
<1>31. ASSUME NEW c \in Clients, ReplyStores(c) PROVE PointInv'
  BY <1>31 DEF ReplyStores, StoreReply
<1>32. ASSUME NEW c \in Clients, NEW p \in Proxies, ReadAvailable(c, p) PROVE PointInv'
  BY <1>32 DEF ReadAvailable, Reads, Unused
<1>33. ASSUME NEW c \in Clients, NEW t \in Types, ReadRequest(c, t) PROVE PointInv'
  BY <1>33 DEF ReadRequest, Reads
<1>34. ASSUME NEW p \in Proxies, OwnerChanged(p) PROVE PointInv'
  BY <1>34 DEF OwnerChanged, Idle
<1>35. ASSUME NEW t \in Types, DataWanted(t) PROVE PointInv'
  BY <1>35 DEF DataWanted, Asking, CanAsk
<1>36. CASE SetupDeclared
  <2>1. Head(setups) \in Proxies
    BY <1>36 DEF SetupDeclared, DeclareInv
  <2> QED BY <1>36, <2>1 DEF SetupDeclared, Idle
<1>37. CASE CutPublished
  BY <1>37 DEF CutPublished, Idle
<1> QED
  BY <1>1, <1>2, <1>3, <1>4, <1>5, <1>6, <1>7, <1>8, <1>9, <1>10, <1>11, <1>12,
     <1>13, <1>14, <1>15, <1>16, <1>17, <1>18, <1>19, <1>20, <1>21, <1>22, <1>23,
     <1>24, <1>25, <1>26, <1>27, <1>28, <1>29, <1>30, <1>31, <1>32, <1>33, <1>34,
     <1>35, <1>36, <1>37
  DEF Next, MainWorks, Events, Input, Output, Messages

-----------------------------------------------------------------------------
(* The client's requests and their replies.                                *)
Replies(r, i, p) == (IF r = Nil THEN <<>> ELSE <<r>>) \o (IF i = "reply" THEN <<p>> ELSE <<>>)

LEMMA Pair == ASSUME NEW r, NEW p
  PROVE <<r>> \o <<p>> = <<r, p>> /\ Append(<<r>>, p) = <<r, p>> /\ Tail(<<r, p>>) = <<p>>
<1> DEFINE S == {r, p}
<1>0. r \in S /\ p \in S
  OBVIOUS
<1> HIDE DEF S
<1>1. <<r>> \in Seq(S) /\ <<p>> \in Seq(S) /\ <<r, p>> \in Seq(S)
  BY <1>0
<1>2. Len(<<r>>) = 1 /\ Len(<<p>>) = 1 /\ Len(<<r, p>>) = 2
      /\ <<r>>[1] = r /\ <<p>>[1] = p /\ <<r, p>>[1] = r /\ <<r, p>>[2] = p
  OBVIOUS
<1>3. <<r>> \o <<p>> = <<r, p>>
  <2>1. <<r>> \o <<p>> \in Seq(S) /\ Len(<<r>> \o <<p>>) = 2
        /\ (<<r>> \o <<p>>)[1] = r /\ (<<r>> \o <<p>>)[2] = p
    BY <1>1, <1>2, ConcatProperties
  <2>2. \A i \in 1 .. 2 : (<<r>> \o <<p>>)[i] = <<r, p>>[i]
    <3>1. \A i \in 1 .. 2 : i = 1 \/ i = 2
      OBVIOUS
    <3> QED BY <1>2, <2>1, <3>1
  <2>3. \A s, t \in Seq(S) : Len(s) = Len(t) /\ (\A i \in 1 .. Len(s) : s[i] = t[i]) => s = t
    BY SeqEqual
  <2> QED BY <1>1, <1>2, <2>1, <2>2, <2>3
<1>4. Append(<<r>>, p) = <<r, p>>
  <2>1. Append(<<r>>, p) \in Seq(S) /\ Len(Append(<<r>>, p)) = 2
        /\ Append(<<r>>, p)[1] = r /\ Append(<<r>>, p)[2] = p
    BY <1>0, <1>1, <1>2, AppendProperties
  <2>2. \A i \in 1 .. 2 : (Append(<<r>>, p))[i] = <<r, p>>[i]
    <3>1. \A i \in 1 .. 2 : i = 1 \/ i = 2
      OBVIOUS
    <3> QED BY <1>2, <2>1, <3>1
  <2>3. \A s, t \in Seq(S) : Len(s) = Len(t) /\ (\A i \in 1 .. Len(s) : s[i] = t[i]) => s = t
    BY SeqEqual
  <2> QED BY <1>1, <1>2, <2>1, <2>2, <2>3
<1>5. Tail(<<r, p>>) = <<p>>
  BY <1>0, <1>1
<1> QED BY <1>3, <1>4, <1>5
LEMMA RepliesAre ==
  ASSUME NEW r, NEW i, NEW p
  PROVE  /\ r = Nil /\ i # "reply" => Replies(r, i, p) = <<>>
         /\ r = Nil /\ i = "reply" => Replies(r, i, p) = <<p>>
         /\ r # Nil /\ i # "reply" => Replies(r, i, p) = <<r>>
         /\ r # Nil /\ i = "reply" => Replies(r, i, p) = <<r, p>>
<1>1. /\ <<>> \o <<>> = <<>> /\ <<>> \o <<p>> = <<p>>
      /\ <<r>> \o <<>> = <<r>> /\ <<r>> \o <<p>> = <<r, p>>
  <2>1. <<r>> \o <<p>> = <<r, p>>
    BY Pair
  <2> QED BY <2>1
<1> QED BY <1>1 DEF Replies

LEMMA OutputRepliesStep ==
  ASSUME TypeOK, ThreadInv, RepliesKept, NEW c \in Clients, OutputReplies(c) PROVE RepliesKept'
<1> USE RichClipboardAssumption
<1>1. /\ inPC' = inPC /\ pending' = pending
      /\ \A d \in Clients \ {c} : reply'[d] = reply[d] /\ owed'[d] = owed[d]
      /\ reply'[c] = Nil
      /\ owed'[c] = IF reply[c] = Nil THEN owed[c] ELSE Tail(owed[c])
      /\ inPC[c] # "absent"
      /\ inPC[c] = "reply" => pending[c] # Nil
      /\ reply[c] \in Types \cup {Nil} /\ pending[c] \in Types \cup {Nil}
  <2>1. inPC[c] # "absent" /\ (inPC[c] = "reply" => pending[c] # Nil)
        /\ reply[c] \in Types \cup {Nil} /\ pending[c] \in Types \cup {Nil}
    BY DEF OutputReplies, TypeOK, ThreadInv
  <2>2. CASE reply[c] = Nil
    BY <2>1, <2>2 DEF OutputReplies, TypeOK
  <2>3. CASE reply[c] # Nil
    BY <2>1, <2>3 DEF OutputReplies, TypeOK
  <2> QED BY <2>2, <2>3
<1>2. \A d \in Clients : inPC[d] # "absent" => owed[d] = Replies(reply[d], inPC[d], pending[d])
  BY DEF RepliesKept, Replies
<1>3. owed'[c] = Replies(reply'[c], inPC'[c], pending'[c])
  <2>1. Tail(<<reply[c]>>) = <<>> /\ Tail(<<reply[c], pending[c]>>) = <<pending[c]>>
    BY Pair DEF TypeOK
  <2>2. CASE reply[c] = Nil
    BY <1>1, <1>2, <2>2
  <2>3. CASE reply[c] # Nil /\ inPC[c] = "reply"
    <3>1. owed[c] = <<reply[c], pending[c]>>
      BY <1>1, <1>2, <2>3, RepliesAre
    <3>2. Replies(Nil, "reply", pending[c]) = <<pending[c]>>
      BY RepliesAre
    <3> QED BY <1>1, <2>1, <2>3, <3>1, <3>2
  <2>4. CASE reply[c] # Nil /\ inPC[c] # "reply"
    <3>1. owed[c] = <<reply[c]>>
      BY <1>1, <1>2, <2>4, RepliesAre
    <3>2. Replies(Nil, inPC[c], pending[c]) = <<>>
      BY <2>4, RepliesAre
    <3> QED BY <1>1, <2>1, <2>4, <3>1, <3>2
  <2> QED BY <2>2, <2>3, <2>4
<1> QED BY <1>1, <1>2, <1>3 DEF RepliesKept, Replies

LEMMA ReplyStoresStep ==
  ASSUME TypeOK, ThreadInv, RepliesKept, NEW c \in Clients, ReplyStores(c) PROVE RepliesKept'
<1> USE RichClipboardAssumption
<1>1. /\ owed' = owed /\ reply[c] = Nil /\ inPC[c] = "reply" /\ inPC'[c] = "read"
      /\ reply'[c] = pending[c] /\ pending[c] # Nil /\ pending[c] \in Types
      /\ \A d \in Clients \ {c} :
           reply'[d] = reply[d] /\ inPC'[d] = inPC[d] /\ pending'[d] = pending[d]
  BY DEF ReplyStores, StoreReply, TypeOK, ThreadInv
<1>2. \A d \in Clients : inPC[d] # "absent" => owed[d] = Replies(reply[d], inPC[d], pending[d])
  BY DEF RepliesKept, Replies
<1>3. owed'[c] = Replies(reply'[c], inPC'[c], pending'[c])
  BY <1>1, <1>2, RepliesAre
<1> QED BY <1>1, <1>2, <1>3 DEF RepliesKept, Replies

LEMMA ReadRequestStep ==
  ASSUME TypeOK, RepliesKept, NEW c \in Clients, NEW t \in Types, ReadRequest(c, t)
  PROVE  RepliesKept'
<1> USE RichClipboardAssumption
<1>1. /\ reply' = reply /\ inPC[c] = "read" /\ inPC'[c] = "reply" /\ pending'[c] = t
      /\ owed'[c] = Append(owed[c], t)
      /\ reply[c] \in Types \cup {Nil} /\ pending[c] \in Types \cup {Nil}
      /\ \A d \in Clients \ {c} :
           owed'[d] = owed[d] /\ inPC'[d] = inPC[d] /\ pending'[d] = pending[d]
  BY DEF ReadRequest, Reads, TypeOK
<1>2. \A d \in Clients : inPC[d] # "absent" => owed[d] = Replies(reply[d], inPC[d], pending[d])
  BY DEF RepliesKept, Replies
<1>3. owed'[c] = Replies(reply'[c], inPC'[c], pending'[c])
  <2>1. Append(<<>>, t) = <<t>>
    OBVIOUS
  <2>2. Append(<<reply[c]>>, t) = <<reply[c], t>>
    BY Pair
  <2>3. CASE reply[c] = Nil
    <3>1. owed[c] = <<>> /\ Replies(Nil, "reply", t) = <<t>>
      BY <1>1, <1>2, <2>3, RepliesAre
    <3> QED BY <1>1, <2>1, <2>3, <3>1
  <2>4. CASE reply[c] # Nil
    <3>1. owed[c] = <<reply[c]>> /\ Replies(reply[c], "reply", t) = <<reply[c], t>>
      BY <1>1, <1>2, <2>4, RepliesAre
    <3> QED BY <1>1, <2>2, <2>4, <3>1
  <2> QED BY <2>3, <2>4
<1> QED BY <1>1, <1>2, <1>3 DEF RepliesKept, Replies

LEMMA ReplyStep == TypeOK /\ ThreadInv /\ RepliesKept /\ Next => RepliesKept'
<1> SUFFICES ASSUME TypeOK, ThreadInv, RepliesKept, Next PROVE RepliesKept'
  OBVIOUS
<1> USE RichClipboardAssumption
    DEF TypeOK, RepliesKept, ThreadInv, boardVars, threadVars, dataVars, proxyVars
<1>1. CASE SetupTypes
  BY <1>1 DEF SetupTypes, Declare, Declaring, Idle
<1>2. CASE SetupRecords
  BY <1>2 DEF SetupRecords, Idle
<1>3. CASE OwnerForgets
  BY <1>3 DEF OwnerForgets, Declaring, Idle
<1>4. CASE AskStores
  BY <1>4 DEF AskStores
<1>5. CASE AnswerComes
  BY <1>5 DEF AnswerComes
<1>6. CASE TimesOut
  BY <1>6 DEF TimesOut
<1>7. CASE ProxyRemoved
  BY <1>7 DEF ProxyRemoved, Resume, Idle
<1>8. CASE UseData
  BY <1>8 DEF UseData
<1>9. CASE LocksAgain
  BY <1>9 DEF LocksAgain
<1>10. CASE ClearsData
  BY <1>10 DEF ClearsData, Resume, Idle, Cleared
<1>11. CASE PollBegins
  <2>1. main'.at \in {"declare", "string"} /\ main'.client = Nil
    BY <1>11, PollBeginsMain
  <2> QED BY <1>11, <2>1 DEF PollBegins
<1>12. CASE PollString
  BY <1>12 DEF PollString, Asking, CanAsk, Idle
<1>13. CASE PollInfo
  BY <1>13 DEF PollInfo, Asking, CanAsk, Idle
<1>14. CASE UsesNoClient
  BY <1>14 DEF UsesNoClient, Crash, Idle
<1>15. CASE LocalCopy
  BY <1>15 DEF LocalCopy, Declare, Running
<1>16. ASSUME NEW c \in Clients, Connect(c) PROVE RepliesKept'
  BY <1>16 DEF Connect, NothingReceived, Running
<1>17. ASSUME NEW c \in Clients, ReadData(c) PROVE RepliesKept'
  BY <1>17 DEF ReadData, Receive, Reads
<1>18. ASSUME NEW c \in Clients, ReadCutText(c) PROVE RepliesKept'
  BY <1>18, ZenonT(60) DEF ReadCutText, Reads
<1>19. ASSUME NEW c \in Clients, StallEnds(c) PROVE RepliesKept'
  BY <1>19, ZenonT(60) DEF StallEnds
<1>20. ASSUME NEW c \in Clients, Disconnect(c) PROVE RepliesKept'
  BY <1>20 DEF Disconnect
<1>21. ASSUME NEW c \in Clients, InputLeaves(c) PROVE RepliesKept'
  BY <1>21, ZenonT(60) DEF InputLeaves
<1>22. ASSUME NEW c \in Clients, ConnectionGone(c) PROVE RepliesKept'
  BY <1>22 DEF ConnectionGone
<1>23. ASSUME NEW c \in Clients, OutputEnds(c) PROVE RepliesKept'
  BY <1>23 DEF OutputEnds
<1>24. ASSUME NEW c \in Clients, OutputReplies(c) PROVE RepliesKept'
  BY <1>24, OutputRepliesStep
<1>25. ASSUME NEW c \in Clients, OutputAsks(c) PROVE RepliesKept'
  BY <1>25 DEF OutputAsks
<1>26. ASSUME NEW c \in Clients, OutputForgets(c) PROVE RepliesKept'
  BY <1>26 DEF OutputForgets
<1>27. ASSUME NEW c \in Clients, OutputKeepsOwn(c) PROVE RepliesKept'
  BY <1>27 DEF OutputKeepsOwn
<1>28. ASSUME NEW c \in Clients, OutputLooks(c) PROVE RepliesKept'
  BY <1>28 DEF OutputLooks
<1>29. ASSUME NEW c \in Clients, OutputAnnounces(c) PROVE RepliesKept'
  BY <1>29 DEF OutputAnnounces
<1>30. ASSUME NEW c \in Clients, AsksForNothing(c) PROVE RepliesKept'
  BY <1>30 DEF AsksForNothing, Crash, Idle
<1>31. ASSUME NEW c \in Clients, ReplyStores(c) PROVE RepliesKept'
  BY <1>31, ReplyStoresStep
<1>32. ASSUME NEW c \in Clients, NEW p \in Proxies, ReadAvailable(c, p) PROVE RepliesKept'
  BY <1>32 DEF ReadAvailable, Reads, Unused
<1>33. ASSUME NEW c \in Clients, NEW t \in Types, ReadRequest(c, t) PROVE RepliesKept'
  BY <1>33, ReadRequestStep
<1>34. ASSUME NEW p \in Proxies, OwnerChanged(p) PROVE RepliesKept'
  BY <1>34 DEF OwnerChanged, Idle
<1>35. ASSUME NEW t \in Types, DataWanted(t) PROVE RepliesKept'
  BY <1>35 DEF DataWanted, Asking, CanAsk
<1>36. CASE SetupDeclared
  BY <1>36 DEF SetupDeclared, Idle
<1>37. CASE CutPublished
  BY <1>37 DEF CutPublished, Idle
<1> QED
  BY <1>1, <1>2, <1>3, <1>4, <1>5, <1>6, <1>7, <1>8, <1>9, <1>10, <1>11, <1>12,
     <1>13, <1>14, <1>15, <1>16, <1>17, <1>18, <1>19, <1>20, <1>21, <1>22, <1>23,
     <1>24, <1>25, <1>26, <1>27, <1>28, <1>29, <1>30, <1>31, <1>32, <1>33, <1>34,
     <1>35, <1>36, <1>37
  DEF Next, MainWorks, Events, Input, Output, Messages

-----------------------------------------------------------------------------
(* The server's request and the client's answer.                           *)
LEMMA OthersKeep ==
  ASSUME NEW d \in Clients, RequestOK(d), points' = points,
         main' = main \/ (main.client # d /\ main'.client # d),
         inPC'[d] = inPC[d], outPC'[d] = outPC[d], received'[d] = received[d],
         heard'[d] = heard[d], unsettled'[d] = unsettled[d]
  PROVE  RequestOK(d)'
<1>1. CASE main' = main
  BY <1>1 DEF RequestOK, Awaiting, NoRequest, Stored, Asked, Heard, Answered, NothingReceived
<1>2. CASE main.client # d /\ main'.client # d
  BY <1>2 DEF RequestOK, Awaiting, NoRequest, NothingReceived
<1> QED BY <1>1, <1>2

LEMMA AskStoresStep ==
  ASSUME TypeOK, PointInv, RequestInv, AskStores PROVE RequestInv'
<1> USE RichClipboardAssumption
<1>1. /\ main.client \in Clients /\ points[main.proxy] = main.client /\ main.at = "ask"
  BY DEF AskStores, TypeOK, PointInv, Dangles, Running, Bound
<1>0. PICK c \in Clients : c = main.client
  BY <1>1
<1>2. /\ \A d \in Clients : RequestOK(d)
      /\ inPC' = inPC /\ outPC' = outPC /\ heard' = heard
      /\ unsettled' = unsettled /\ points' = points
      /\ \A d \in Clients : d # c => received'[d] = received[d]
      /\ main' = [main EXCEPT !.at = "wait"]
      /\ received'[c] = [asking |-> TRUE, type |-> main.type, data |-> received[c].data]
  BY <1>1, <1>0 DEF AskStores, RequestInv, Running, TypeOK, threadVars, proxyVars
<1>3. /\ main'.at = "wait" /\ main'.client = main.client
      /\ main'.type = main.type /\ main'.proxy = main.proxy
  BY <1>0, <1>2 DEF TypeOK
<1>4. ASSUME NEW d \in Clients, d # c PROVE RequestOK(d)'
  BY <1>0, <1>2, <1>3, <1>4, OthersKeep
<1>5. ASSUME inPC[c] # "absent", ~unsettled[c] PROVE Stored(c)'
  <2>1. NoRequest(c)
    BY <1>0, <1>1, <1>2, <1>5 DEF RequestOK, Awaiting
  <2>2. received[c].data = Nil /\ heard[c] = <<>> /\ outPC[c] # "forget"
    BY <2>1 DEF NoRequest, NothingReceived
  <2> QED BY <1>0, <1>2, <1>3, <2>2 DEF Stored
<1>6. RequestOK(c)'
  BY <1>0, <1>2, <1>3, <1>5 DEF RequestOK, Awaiting
<1> QED BY <1>4, <1>6 DEF RequestInv, RequestOK, Awaiting

LEMMA ClearsDataStep ==
  ASSUME TypeOK, PointInv, RequestInv, ClearsData PROVE RequestInv'
<1> USE RichClipboardAssumption
<1>1. main.client \in Clients /\ points[main.proxy] = main.client /\ main.at = "clear"
  BY DEF ClearsData, TypeOK, PointInv, Dangles, Running, Bound
<1>0. PICK c \in Clients : c = main.client
  BY <1>1
<1>2. /\ \A d \in Clients : RequestOK(d)
      /\ inPC' = inPC /\ outPC' = outPC /\ heard' = heard
      /\ unsettled' = unsettled /\ points' = points
      /\ \A d \in Clients : d # c => received'[d] = received[d]
      /\ main'.client = Nil
      /\ received'[c] = [asking |-> received[c].asking, type |-> Nil, data |-> Nil]
  BY <1>1, <1>0 DEF ClearsData, RequestInv, Running, TypeOK, threadVars, proxyVars,
     Resume, Idle, Cleared
<1>4. ASSUME NEW d \in Clients, d # c PROVE RequestOK(d)'
  BY <1>0, <1>2, <1>4, OthersKeep
<1>5. ASSUME inPC[c] # "absent", ~unsettled[c] PROVE NoRequest(c)'
  <2>1. Answered(c)
    BY <1>0, <1>1, <1>2, <1>5 DEF RequestOK, Awaiting
  <2>2. ~received[c].asking /\ heard[c] = <<>> /\ outPC[c] \notin {"ask", "forget"}
    BY <2>1 DEF Answered
  <2>3. received[c].asking = FALSE
    BY <1>1, <2>1 DEF Answered
  <2> QED BY <1>0, <1>2, <2>2, <2>3 DEF NoRequest, NothingReceived
<1>6. RequestOK(c)'
  BY <1>0, <1>1, <1>2, <1>5 DEF RequestOK, Awaiting
<1> QED BY <1>4, <1>6 DEF RequestInv, RequestOK, Awaiting

LEMMA ConnectStep ==
  ASSUME TypeOK, PointInv, RequestInv, ThreadInv, NEW c \in Clients, Connect(c) PROVE RequestInv'
<1> USE RichClipboardAssumption
<1>1. /\ \A d \in Clients : RequestOK(d)
      /\ points' = points /\ main' = main
      /\ \A d \in Clients \ {c} :
           /\ inPC'[d] = inPC[d] /\ outPC'[d] = outPC[d] /\ received'[d] = received[d]
           /\ heard'[d] = heard[d] /\ unsettled'[d] = unsettled[d]
      /\ inPC[c] = "absent" /\ outPC'[c] = "away"
      /\ received'[c] = NothingReceived /\ heard'[c] = <<>>
  BY DEF Connect, RequestInv, Running, TypeOK
<1>2. main.at \in Awaiting => points[main.proxy] # c
  BY <1>1 DEF Connect, PointInv, Running, Bound, Awaiting
<1>3. ASSUME NEW d \in Clients, d # c PROVE RequestOK(d)'
  BY <1>1, <1>3, OthersKeep
<1>4. RequestOK(c)'
  BY <1>1, <1>2 DEF RequestOK, NoRequest, Awaiting, NothingReceived
<1> QED BY <1>3, <1>4 DEF RequestInv, RequestOK, Awaiting

LEMMA ReadDataStep ==
  ASSUME TypeOK, PointInv, RequestInv, ThreadInv, NEW c \in Clients, ReadData(c) PROVE RequestInv'
<1> USE RichClipboardAssumption
<1>1. /\ points' = points /\ main' = main /\ inPC' = inPC
      /\ outPC' = outPC /\ unsettled' = unsettled
      /\ \A d \in Clients \ {c} : received'[d] = received[d] /\ heard'[d] = heard[d]
      /\ heard'[c] = Tail(heard[c]) /\ heard[c] # <<>> /\ outPC[c] \notin {"ask", "forget"}
      /\ inPC[c] # "absent"
      /\ \E data \in {Head(heard[c]), "failed"} :
           received'[c] = [asking |-> received[c].asking, type |-> Head(heard[c]), data |-> data]
  <2>1. received'[c] \in {[asking |-> received[c].asking, type |-> Head(heard[c]), data |-> data] :
                            data \in {Head(heard[c]), "failed"}}
    BY DEF ReadData, Receive, TypeOK
  <2>2. \A d \in Clients \ {c} : received'[d] = received[d]
    BY DEF ReadData, Receive, TypeOK
  <2> QED BY <2>1, <2>2, ZenonT(60) DEF ReadData, Receive, Reads, MutexFree, ThreadInv, TypeOK,
       threadVars, proxyVars
<1>2. Running => \A d \in Clients : RequestOK(d)
  BY DEF RequestInv
<1>3. ASSUME Running, NEW d \in Clients, d # c PROVE RequestOK(d)'
  BY <1>1, <1>2, <1>3, OthersKeep
<1>4. ASSUME Running PROVE RequestOK(c)'
  <2>1. CASE ~unsettled[c] /\ main.client = c /\ main.at \in Awaiting /\ points[main.proxy] = c
    <3>1. main.at = "wait" /\ Heard(c)
      BY <1>1, <1>2, <1>4, <2>1 DEF RequestOK, Stored, Asked, Answered, Awaiting
    <3>2. received[c].asking = FALSE /\ heard[c] = <<main.type>>
      BY <3>1 DEF Heard, NothingReceived
    <3>3. Head(heard[c]) = main.type /\ Tail(heard[c]) = <<>>
      BY <3>2
    <3>4. Answered(c)'
      BY <1>1, <3>2, <3>3 DEF Answered
    <3> QED BY <1>1, <2>1, <3>1, <3>4 DEF RequestOK, Awaiting
  <2>2. CASE ~unsettled[c] /\ ~(main.client = c /\ main.at \in Awaiting)
    BY <1>1, <1>2, <1>4, <2>2 DEF RequestOK, NoRequest, Awaiting
  <2>3. CASE unsettled[c] \/ (main.client = c /\ main.at \in Awaiting /\ points[main.proxy] # c)
    BY <1>1, <2>3 DEF RequestOK, Awaiting
  <2> QED BY <2>1, <2>2, <2>3
<1> QED BY <1>1, <1>3, <1>4 DEF RequestInv, RequestOK, Awaiting, Running

LEMMA OutputAsksStep ==
  ASSUME TypeOK, PointInv, RequestInv, ThreadInv, NEW c \in Clients, OutputAsks(c) PROVE RequestInv'
<1> USE RichClipboardAssumption
<1>1. /\ points' = points /\ main' = main /\ inPC' = inPC
      /\ received' = received /\ unsettled' = unsettled
      /\ \A d \in Clients \ {c} : outPC'[d] = outPC[d] /\ heard'[d] = heard[d]
      /\ heard'[c] = Append(heard[c], received[c].type) /\ outPC[c] = "ask" /\ outPC'[c] = "forget"
      /\ inPC[c] # "absent"
  BY ZenonT(60) DEF OutputAsks, ThreadInv, TypeOK, proxyVars
<1>2. Running => \A d \in Clients : RequestOK(d)
  BY DEF RequestInv
<1>3. ASSUME Running, NEW d \in Clients, d # c PROVE RequestOK(d)'
  BY <1>1, <1>2, <1>3, OthersKeep
<1>4. ASSUME Running PROVE RequestOK(c)'
  <2>1. CASE ~unsettled[c] /\ main.client = c /\ main.at \in Awaiting /\ points[main.proxy] = c
    <3>1. main.at = "wait" /\ Stored(c)
      BY <1>1, <1>2, <1>4, <2>1 DEF RequestOK, Heard, Asked, Answered, Awaiting
    <3>2. received[c].type = main.type /\ heard[c] = <<>>
      BY <3>1 DEF Stored
    <3>3. heard'[c] = <<main.type>>
      BY <1>1, <3>2
    <3>4. Asked(c)'
      BY <1>1, <3>1, <3>3 DEF Asked, Stored
    <3> QED BY <1>1, <2>1, <3>1, <3>4 DEF RequestOK, Awaiting
  <2>2. CASE ~unsettled[c] /\ ~(main.client = c /\ main.at \in Awaiting)
    BY <1>1, <1>2, <1>4, <2>2 DEF RequestOK, NoRequest, Awaiting
  <2>3. CASE unsettled[c] \/ (main.client = c /\ main.at \in Awaiting /\ points[main.proxy] # c)
    BY <1>1, <2>3 DEF RequestOK, Awaiting
  <2> QED BY <2>1, <2>2, <2>3
<1> QED BY <1>1, <1>3, <1>4 DEF RequestInv, RequestOK, Awaiting, Running

LEMMA OutputForgetsStep ==
  ASSUME TypeOK, PointInv, RequestInv, ThreadInv, NEW c \in Clients, OutputForgets(c)
  PROVE  RequestInv'
<1> USE RichClipboardAssumption
<1>1. /\ points' = points /\ main' = main /\ inPC' = inPC
      /\ heard' = heard /\ unsettled' = unsettled
      /\ \A d \in Clients \ {c} : outPC'[d] = outPC[d] /\ received'[d] = received[d]
      /\ received'[c] = [asking |-> FALSE, type |-> Nil, data |-> received[c].data]
      /\ outPC[c] = "forget" /\ outPC'[c] = "news"
      /\ inPC[c] # "absent"
  BY ZenonT(60) DEF OutputForgets, ThreadInv, TypeOK, proxyVars
<1>2. Running => \A d \in Clients : RequestOK(d)
  BY DEF RequestInv
<1>3. ASSUME Running, NEW d \in Clients, d # c PROVE RequestOK(d)'
  BY <1>1, <1>2, <1>3, OthersKeep
<1>4. ASSUME Running PROVE RequestOK(c)'
  <2>1. CASE ~unsettled[c] /\ main.client = c /\ main.at \in Awaiting /\ points[main.proxy] = c
    <3>1. main.at = "wait" /\ Asked(c)
      BY <1>1, <1>2, <1>4, <2>1 DEF RequestOK, Heard, Stored, Answered, Awaiting
    <3>2. received[c].data = Nil /\ heard[c] = <<main.type>>
      BY <3>1 DEF Asked
    <3>4. Heard(c)'
      BY <1>1, <3>2 DEF Heard, NothingReceived
    <3> QED BY <1>1, <2>1, <3>1, <3>4 DEF RequestOK, Awaiting
  <2>2. CASE ~unsettled[c] /\ ~(main.client = c /\ main.at \in Awaiting)
    BY <1>1, <1>2, <1>4, <2>2 DEF RequestOK, NoRequest, Awaiting
  <2>3. CASE unsettled[c] \/ (main.client = c /\ main.at \in Awaiting /\ points[main.proxy] # c)
    BY <1>1, <2>3 DEF RequestOK, Awaiting
  <2> QED BY <2>1, <2>2, <2>3
<1> QED BY <1>1, <1>3, <1>4 DEF RequestInv, RequestOK, Awaiting, Running

LEMMA RequestStep == TypeOK /\ ThreadInv /\ PointInv /\ RequestInv /\ Next => RequestInv'
<1> SUFFICES ASSUME TypeOK, ThreadInv, PointInv, RequestInv, Next PROVE RequestInv'
  OBVIOUS
<1> USE RichClipboardAssumption
    DEF TypeOK, RequestInv, RequestOK, Awaiting, ThreadInv, PointInv, Running, Bound, Dangles,
        MutexFree, NothingReceived, NoRequest, Stored, Asked, Heard, Answered,
        boardVars, threadVars, dataVars, proxyVars
<1>1. CASE SetupTypes
  BY <1>1 DEF SetupTypes, Declare, Declaring, Idle
<1>2. CASE SetupRecords
  BY <1>2 DEF SetupRecords, Idle
<1>3. CASE OwnerForgets
  BY <1>3 DEF OwnerForgets, Declaring, Idle
<1>4. CASE AskStores
  BY <1>4, AskStoresStep
<1>5. CASE AnswerComes
  BY <1>5 DEF AnswerComes
<1>6. CASE TimesOut
  BY <1>6 DEF TimesOut
<1>7. CASE ProxyRemoved
  BY <1>7 DEF ProxyRemoved, Resume, Idle
<1>8. CASE UseData
  BY <1>8 DEF UseData
<1>9. CASE LocksAgain
  BY <1>9 DEF LocksAgain
<1>10. CASE ClearsData
  BY <1>10, ClearsDataStep
<1>11. CASE PollBegins
  <2>1. main'.at \in {"declare", "string"} /\ main'.client = Nil
    BY <1>11, PollBeginsMain
  <2> QED BY <1>11, <2>1 DEF PollBegins
<1>12. CASE PollString
  BY <1>12 DEF PollString, Asking, CanAsk, Idle
<1>13. CASE PollInfo
  BY <1>13 DEF PollInfo, Asking, CanAsk, Idle
<1>14. CASE UsesNoClient
  BY <1>14 DEF UsesNoClient, Crash, Idle
<1>15. CASE LocalCopy
  BY <1>15 DEF LocalCopy, Declare, Running
<1>16. ASSUME NEW c \in Clients, Connect(c) PROVE RequestInv'
  BY <1>16, ConnectStep
<1>17. ASSUME NEW c \in Clients, ReadData(c) PROVE RequestInv'
  BY <1>17, ReadDataStep
<1>18. ASSUME NEW c \in Clients, ReadCutText(c) PROVE RequestInv'
  BY <1>18 DEF ReadCutText, Reads
<1>19. ASSUME NEW c \in Clients, StallEnds(c) PROVE RequestInv'
  BY <1>19 DEF StallEnds
<1>20. ASSUME NEW c \in Clients, Disconnect(c) PROVE RequestInv'
  BY <1>20 DEF Disconnect
<1>21. ASSUME NEW c \in Clients, InputLeaves(c) PROVE RequestInv'
  BY <1>21 DEF InputLeaves
<1>22. ASSUME NEW c \in Clients, ConnectionGone(c) PROVE RequestInv'
  BY <1>22 DEF ConnectionGone
<1>23. ASSUME NEW c \in Clients, OutputEnds(c) PROVE RequestInv'
  BY <1>23 DEF OutputEnds
<1>24. ASSUME NEW c \in Clients, OutputReplies(c) PROVE RequestInv'
  BY <1>24 DEF OutputReplies
<1>25. ASSUME NEW c \in Clients, OutputAsks(c) PROVE RequestInv'
  BY <1>25, OutputAsksStep
<1>26. ASSUME NEW c \in Clients, OutputForgets(c) PROVE RequestInv'
  BY <1>26, OutputForgetsStep
<1>27. ASSUME NEW c \in Clients, OutputKeepsOwn(c) PROVE RequestInv'
  BY <1>27 DEF OutputKeepsOwn
<1>28. ASSUME NEW c \in Clients, OutputLooks(c) PROVE RequestInv'
  BY <1>28 DEF OutputLooks
<1>29. ASSUME NEW c \in Clients, OutputAnnounces(c) PROVE RequestInv'
  BY <1>29 DEF OutputAnnounces
<1>30. ASSUME NEW c \in Clients, AsksForNothing(c) PROVE RequestInv'
  BY <1>30 DEF AsksForNothing, Crash, Idle
<1>31. ASSUME NEW c \in Clients, ReplyStores(c) PROVE RequestInv'
  BY <1>31 DEF ReplyStores, StoreReply
<1>32. ASSUME NEW c \in Clients, NEW p \in Proxies, ReadAvailable(c, p) PROVE RequestInv'
  BY <1>32 DEF ReadAvailable, Reads, Unused
<1>33. ASSUME NEW c \in Clients, NEW t \in Types, ReadRequest(c, t) PROVE RequestInv'
  BY <1>33 DEF ReadRequest, Reads
<1>34. ASSUME NEW p \in Proxies, OwnerChanged(p) PROVE RequestInv'
  BY <1>34 DEF OwnerChanged, Idle
<1>35. ASSUME NEW t \in Types, DataWanted(t) PROVE RequestInv'
  BY <1>35 DEF DataWanted, Asking, CanAsk
<1>36. CASE SetupDeclared
  BY <1>36 DEF SetupDeclared, Idle
<1>37. CASE CutPublished
  BY <1>37 DEF CutPublished, Idle
<1> QED
  BY <1>1, <1>2, <1>3, <1>4, <1>5, <1>6, <1>7, <1>8, <1>9, <1>10, <1>11, <1>12,
     <1>13, <1>14, <1>15, <1>16, <1>17, <1>18, <1>19, <1>20, <1>21, <1>22, <1>23,
     <1>24, <1>25, <1>26, <1>27, <1>28, <1>29, <1>30, <1>31, <1>32, <1>33, <1>34,
     <1>35, <1>36, <1>37
  DEF Next, MainWorks, Events, Input, Output, Messages

-----------------------------------------------------------------------------
LEMMA Initially == Init => IInv
<1> SUFFICES ASSUME Init PROVE IInv
  OBVIOUS
<1> USE RichClipboardAssumption DEF Init
<1>1. TypeOK
  <2>1. received \in [Clients -> [asking : BOOLEAN, type : Types \cup {Nil},
                                 data : Types \cup {Nil, "failed"}]]
    BY DEF NothingReceived
  <2>2. main \in [at : {"events", "declare", "setup", "owner", "ask", "wait", "use", "used", "clear",
                       "string", "info", "crashed"},
                  during : {"event", "setup", "cut", "string", "info"}, proxy : Proxies \cup {Nil},
                  client : Clients \cup {Nil}, type : Types \cup {Nil}]
    BY DEF Idle
  <2>3. /\ reply \in [Clients -> Types \cup {Nil}] /\ pending \in [Clients -> Types \cup {Nil}]
        /\ owed \in [Clients -> Seq(Types)] /\ heard \in [Clients -> Seq(Types)]
        /\ setups \in Seq(Proxies)
    OBVIOUS
  <2>4. /\ inPC \in [Clients -> {"absent", "read", "reply", "stall", "unlink"}]
        /\ outPC \in [Clients -> {"away", "ask", "forget", "news", "announce", "ended"}]
        /\ mutex \in [Clients -> {"nobody", "out"}]
    OBVIOUS
  <2>5. /\ open \in [Clients -> BOOLEAN] /\ ownText \in [Clients -> BOOLEAN]
        /\ unsettled \in [Clients -> BOOLEAN]
    OBVIOUS
  <2>6. /\ proxyOf \in [Clients -> Proxies \cup {Nil}] /\ points \in [Proxies -> Clients \cup {Nil}]
        /\ owner \in Proxies \cup {Nil} /\ displaced \subseteq Proxies /\ have \subseteq Types
        /\ varLock \in Clients \cup {Nil, "main"}
    OBVIOUS
  <2>7. newText \in BOOLEAN /\ newInfo \in BOOLEAN /\ cutText \in BOOLEAN
    OBVIOUS
  <2> QED BY <2>1, <2>2, <2>3, <2>4, <2>5, <2>6, <2>7 DEF TypeOK
<1>2. ThreadInv
  BY DEF ThreadInv
<1>3. PointInv
  BY DEF PointInv, Bound, Idle
<1>4. RepliesKept
  BY DEF RepliesKept
<1>5. RequestInv
  BY DEF RequestInv, RequestOK, Awaiting
<1>6. DeclareInv
  BY DEF DeclareInv, Idle
<1> QED BY <1>1, <1>2, <1>3, <1>4, <1>5, <1>6 DEF IInv

LEMMA Stutters == IInv /\ UNCHANGED vars => IInv'
<1> SUFFICES ASSUME IInv, UNCHANGED vars PROVE IInv'
  OBVIOUS
<1> USE DEF IInv, vars
<1>1. TypeOK'
  BY DEF TypeOK
<1>2. ThreadInv'
  BY DEF ThreadInv
<1>3. PointInv'
  BY DEF PointInv, Running
<1>4. RepliesKept'
  BY DEF RepliesKept
<1>5. RequestInv'
  BY DEF RequestInv, RequestOK, Awaiting, Running, NoRequest, Stored, Asked, Heard, Answered
<1>6. DeclareInv'
  BY DEF DeclareInv
<1> QED BY <1>1, <1>2, <1>3, <1>4, <1>5, <1>6

LEMMA Invariance == Spec => []IInv
<1>1. IInv /\ [Next]_vars => IInv'
  BY Stutters, TypeStep, ThreadStep, DeclareStep, PointStep, ReplyStep, RequestStep DEF IInv
<1> QED BY Initially, <1>1, PTL DEF Spec

(* Every variable keeps its type, whichever of a client's threads, of the  *)
(* clients and of the proxies takes the next step.                         *)
THEOREM TypeCorrect == Spec => []TypeOK
<1>1. IInv => TypeOK
  BY DEF IInv
<1> QED BY Invariance, <1>1, PTL

(* A wait that ends with data ends with the client's answer to the request *)
(* the main thread made, and under the type of that request, unless one    *)
(* was given up before.                                                    *)
THEOREM AnswerTheorem == Spec => []AnswerAsAsked
<1>1. IInv => AnswerAsAsked
  <2> SUFFICES ASSUME IInv, main.at = "use", ~Dangles, ~unsettled[main.client]
               PROVE  /\ received[main.client].type = main.type
                      /\ received[main.client].data \in {main.type, "failed"}
    BY DEF AnswerAsAsked
  <2>1. /\ main.client \in Clients /\ points[main.proxy] = main.client
        /\ inPC[main.client] # "absent"
    BY DEF IInv, TypeOK, PointInv, Running, Bound, Dangles
  <2>2. Answered(main.client)
    BY <2>1 DEF IInv, RequestInv, RequestOK, Awaiting, Running
  <2> QED BY <2>1, <2>2 DEF Answered
<1> QED BY Invariance, <1>1, PTL

(* A request of a client that clientInput has read is answered once, and   *)
(* the answers come in the order of the requests: what the client is owed  *)
(* is the reply that waits to be sent and the one that waits for its turn. *)
THEOREM RepliesTheorem == Spec => []RepliesKept
<1>1. IInv => RepliesKept
  BY DEF IInv
<1> QED BY Invariance, <1>1, PTL
=============================================================================
