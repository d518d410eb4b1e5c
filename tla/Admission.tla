------------------------------ MODULE Admission ------------------------------
(***************************************************************************)
(* How a connection becomes a client of the display (OSXvnc-server/        *)
(* rfbserver.c, auth.c, vncauth.c): version, security type, password,      *)
(* ClientInit, and the rule about shared use of the display.               *)
(*                                                                         *)
(* Each connection has an input thread of its own that handles one message *)
(* after another.  The threads meet in the table of failed attempts (under *)
(* authClientLock), in the DES key schedule of d3des.c and the password of *)
(* -rfbpass (under no lock), and in the client list, of which every thread *)
(* reads the state of the others' records.                                 *)
(*                                                                         *)
(* A DES key is a name; a challenge is told apart by the key it was        *)
(* encrypted with, and a right answer is one made with the password.       *)
(***************************************************************************)
EXTENDS Integers, FiniteSets

CONSTANTS
  Conns,           \* the client records; a record is reused after it is freed
  Hosts,           \* the peers' addresses
  HostOf,          \* cl->host of each record
  Reverse,         \* the records of connections that the server made itself
  PasswdFile,      \* -rfbauth was given
  Supplied,        \* -rfbpass was given
  AllowNoAuth,     \* -rfbnoauth was given
  MaxAttempts,     \* rfbMaxLoginAttempts (zero, which disables the test, is left out)
  NeverShared, AlwaysShared, DontDisconnect

ASSUME AdmissionAssumption ==
  /\ IsFiniteSet(Conns)
  /\ HostOf \in [Conns -> Hosts]
  /\ Reverse \subseteq Conns
  /\ PasswdFile \in BOOLEAN /\ Supplied \in BOOLEAN /\ AllowNoAuth \in BOOLEAN
  /\ MaxAttempts \in Nat \ {0}
  /\ NeverShared \in BOOLEAN /\ AlwaysShared \in BOOLEAN /\ DontDisconnect \in BOOLEAN

VARIABLES
  pc,         \* what the connection's input thread does; "none": no record
  state,      \* cl->state
  open,       \* cl->sock # -1
  answer,     \* the key with which the client encrypted its challenge
  cipher,     \* the key with which the server did
  passwd,     \* the password as vncDecryptPasswdFromFile returned it
  exclusive,  \* the client asked for, or was given, the display for itself
  failures,   \* authClientFailures
  schedule,   \* KnL, the key schedule of d3des.c
  stored,     \* what storedPass holds
  toVisit     \* what the iterator has still to return

authVars == <<answer, cipher, passwd, failures, schedule, stored>>
vars == <<pc, state, open, answer, cipher, passwd, exclusive, failures,
          schedule, stored, toVisit>>

-----------------------------------------------------------------------------
Init ==
  /\ pc = [c \in Conns |-> "none"]
  /\ state = [c \in Conns |-> "PROTOCOL_VERSION"]
  /\ open = [c \in Conns |-> FALSE]
  /\ answer = [c \in Conns |-> "none"]
  /\ cipher = [c \in Conns |-> "garbled"]
  /\ passwd = [c \in Conns |-> "garbled"]
  /\ exclusive = [c \in Conns |-> FALSE]
  /\ failures = [h \in Hosts |-> 0]
  /\ schedule = "garbled"
  /\ stored = "password"
  /\ toVisit = {}

(* Nobody holds an iterator, hence rfbClientListMutex.                     *)
ListFreeAlways == TRUE
ListFree == \A c \in Conns : pc[c] # "iterate"

Linked == {c \in Conns : pc[c] # "none"}

(* The input thread is in ReadExact at the head of the handler for s.      *)
Awaits(c, s) == pc[c] = "read" /\ state[c] = s /\ open[c]

(* rfbNewClient: a fresh record, linked and greeted.                       *)
Connect(c) ==
  /\ pc[c] = "none"
  /\ ListFree
  /\ pc' = [pc EXCEPT ![c] = "read"]
  /\ state' = [state EXCEPT ![c] = "PROTOCOL_VERSION"]
  /\ open' = [open EXCEPT ![c] = TRUE]
  /\ answer' = [answer EXCEPT ![c] = "none"]
  /\ cipher' = [cipher EXCEPT ![c] = "garbled"]
  /\ exclusive' = [exclusive EXCEPT ![c] = FALSE]
  /\ UNCHANGED <<passwd, failures, schedule, stored, toVisit>>

(* The handler calls rfbCloseClient and returns: the peer closed or broke  *)
(* the connection, its version is not one of RFB 3, the reply could not be *)
(* written, or the password file cannot be read.  (A reply that fails      *)
(* after the state was set differs by a state that nobody reads.)          *)
Breaks(c) ==
  /\ pc[c] = "read"
  /\ open[c]
  /\ open' = [open EXCEPT ![c] = FALSE]
  /\ UNCHANGED <<pc, state, exclusive, authVars, toVisit>>

-----------------------------------------------------------------------------
(* rfbAuthNewClient, called for a good version 3.minor.                    *)

TooManyModernOnly(c, minor) == minor >= 7 /\ failures[HostOf[c]] > MaxAttempts
TooMany(c, minor) == failures[HostOf[c]] > MaxAttempts

AsksPassword(c) == (c \notin Reverse /\ PasswdFile) \/ Supplied

AdmitsFreely(c) == ~AsksPassword(c) /\ (c \in Reverse \/ AllowNoAuth)

(* From 3.7 on the client is sent the types to choose from; before, the    *)
(* server chooses.  With no type at all a 3.7 client is sent an error, and *)
(* the record stays as it is.                                              *)
Offer(c, minor) ==
  /\ Awaits(c, "PROTOCOL_VERSION")
  /\ ~TooMany(c, minor)
  /\ \/ AsksPassword(c) \/ AdmitsFreely(c)
     \/ minor >= 7
  /\ state' = [state EXCEPT ![c] =
       IF ~AsksPassword(c) /\ ~AdmitsFreely(c) THEN @
       ELSE IF minor >= 7 THEN "AUTH_VERSION"
       ELSE IF AsksPassword(c) THEN "AUTHENTICATION" ELSE "INITIALISATION"]
  /\ UNCHANGED <<pc, open, exclusive, authVars, toVisit>>

(* Too many failed attempts from the host, or nothing to offer to a 3.3    *)
(* client: an error, and the connection is closed.                         *)
Refuse(c, minor) ==
  /\ Awaits(c, "PROTOCOL_VERSION")
  /\ \/ TooMany(c, minor)
     \/ minor < 7 /\ ~AsksPassword(c) /\ ~AdmitsFreely(c)
  /\ open' = [open EXCEPT ![c] = FALSE]
  /\ UNCHANGED <<pc, state, exclusive, authVars, toVisit>>

(* rfbProcessAuthVersion.  VncAuth: a challenge is sent.                   *)
ChooseVncAuth(c) ==
  /\ Awaits(c, "AUTH_VERSION")
  /\ state' = [state EXCEPT ![c] = "AUTHENTICATION"]
  /\ UNCHANGED <<pc, open, exclusive, authVars, toVisit>>

(* NoAuth, where no password file is in force for the connection.          *)
NoFileInForceAlways(c) == TRUE
NoFileInForce(c) == c \in Reverse \/ ~PasswdFile

ChooseNoAuth(c) ==
  /\ Awaits(c, "AUTH_VERSION")
  /\ NoFileInForce(c)
  /\ state' = [state EXCEPT ![c] = "INITIALISATION"]
  /\ UNCHANGED <<pc, open, exclusive, authVars, toVisit>>

(* NoAuth where one is, or a type that does not exist: a failed result.    *)
ChooseInvalid(c) ==
  /\ Awaits(c, "AUTH_VERSION")
  /\ open' = [open EXCEPT ![c] = FALSE]
  /\ UNCHANGED <<pc, state, exclusive, authVars, toVisit>>

-----------------------------------------------------------------------------
(* rfbAuthProcessClientMessage, once the response was read.  The DES code  *)
(* keeps one key schedule for the process: deskey fills it, des uses it,   *)
(* and another connection's thread may come in between.  (A schedule that  *)
(* is torn by two threads encrypts to something that equals no answer,     *)
(* as the wrong key does.)                                                 *)

Respond(c, a) ==
  /\ Awaits(c, "AUTHENTICATION")
  /\ Supplied \/ PasswdFile
  /\ answer' = [answer EXCEPT ![c] = a]
  /\ pc' = [pc EXCEPT ![c] = IF Supplied THEN "passwordKey" ELSE "fileKey"]
  /\ UNCHANGED <<state, open, exclusive, cipher, passwd, failures, schedule,
                 stored, toVisit>>

(* vncDecryptPasswdFromFile: deskey(fixedkey, DE1) ...                     *)
LoadFixedKey(c) ==
  /\ pc[c] = "fileKey"
  /\ schedule' = "fixed"
  /\ pc' = [pc EXCEPT ![c] = "decrypt"]
  /\ UNCHANGED <<state, open, exclusive, answer, cipher, passwd, failures,
                 stored, toVisit>>

(* ... and des, which gives the password back only under that key.         *)
DecryptPassword(c) ==
  /\ pc[c] = "decrypt"
  /\ passwd' = [passwd EXCEPT ![c] = IF schedule = "fixed" THEN "password" ELSE "garbled"]
  /\ pc' = [pc EXCEPT ![c] = "passwordKey"]
  /\ UNCHANGED <<state, open, exclusive, answer, cipher, failures, schedule,
                 stored, toVisit>>

(* What a thread finds in the password it is to use: storedPass may just   *)
(* be wiped by another one, byte by byte.                                  *)
Wiping(c) == \E d \in Conns \ {c} : pc[d] = "lose"

Readable(c) ==
  IF Supplied THEN {stored} \cup (IF Wiping(c) THEN {"empty", "garbled"} ELSE {})
  ELSE {passwd[c]}

(* vncEncryptBytes: deskey(key, EN0) ...                                   *)
LoadPasswordKey(c) ==
  /\ pc[c] = "passwordKey"
  /\ schedule' \in Readable(c)
  /\ pc' = [pc EXCEPT ![c] = "encrypt"]
  /\ UNCHANGED <<state, open, exclusive, answer, cipher, passwd, failures,
                 stored, toVisit>>

(* ... and des on the two halves of the challenge.                         *)
EncryptChallenge(c) ==
  /\ pc[c] = "encrypt"
  /\ cipher' = [cipher EXCEPT ![c] = schedule]
  /\ pc' = [pc EXCEPT ![c] = "lose"]
  /\ UNCHANGED <<state, open, exclusive, answer, passwd, failures, schedule,
                 stored, toVisit>>

(* "Lose the password from memory": the caller's copy, or storedPass.      *)
LosePassword(c) ==
  /\ pc[c] = "lose"
  /\ passwd' = [passwd EXCEPT ![c] = "garbled"]
  /\ stored' = IF Supplied THEN "empty" ELSE stored
  /\ pc' = [pc EXCEPT ![c] = "judge"]
  /\ UNCHANGED <<state, open, exclusive, answer, cipher, failures, schedule,
                 toVisit>>

(* The response matches: the host's failures are forgotten.                *)
Accept(c) ==
  /\ pc[c] = "judge"
  /\ answer[c] = cipher[c]
  /\ failures' = [failures EXCEPT ![HostOf[c]] = 0]
  /\ state' = [state EXCEPT ![c] = "INITIALISATION"]
  /\ pc' = [pc EXCEPT ![c] = "read"]
  /\ UNCHANGED <<open, exclusive, answer, cipher, passwd, schedule, stored,
                 toVisit>>

(* It does not: one more failure, and the connection is closed.            *)
RejectKeepsOpen(c) ==
  /\ pc[c] = "judge"
  /\ answer[c] # cipher[c]
  /\ failures' = [failures EXCEPT ![HostOf[c]] = @ + 1]
  /\ pc' = [pc EXCEPT ![c] = "read"]
  /\ UNCHANGED <<state, open, exclusive, answer, cipher, passwd, schedule,
                 stored, toVisit>>

Reject(c) ==
  /\ pc[c] = "judge"
  /\ answer[c] # cipher[c]
  /\ failures' = [failures EXCEPT ![HostOf[c]] = @ + 1]
  /\ open' = [open EXCEPT ![c] = FALSE]
  /\ pc' = [pc EXCEPT ![c] = "read"]
  /\ UNCHANGED <<state, exclusive, answer, cipher, passwd, schedule, stored,
                 toVisit>>

-----------------------------------------------------------------------------
(* rfbProcessClientInitMessage.                                            *)

Claims(c, shared) == c \notin Reverse /\ (NeverShared \/ (~AlwaysShared /\ ~shared))

(* ServerInit was written: the record is NORMAL from here on, before the   *)
(* list is looked at.                                                      *)
ClientInit(c, shared) ==
  /\ Awaits(c, "INITIALISATION")
  /\ state' = [state EXCEPT ![c] = "NORMAL"]
  /\ exclusive' = [exclusive EXCEPT ![c] = Claims(c, shared)]
  /\ pc' = [pc EXCEPT ![c] = IF Claims(c, shared) THEN "sharing" ELSE "read"]
  /\ UNCHANGED <<open, authVars, toVisit>>

(* rfbGetClientIterator.                                                   *)
TakeList(c) ==
  /\ pc[c] = "sharing"
  /\ ListFree
  /\ pc' = [pc EXCEPT ![c] = "iterate"]
  /\ toVisit' = Linked
  /\ UNCHANGED <<state, open, exclusive, authVars>>

InTheWay(c, d) == d # c /\ state[d] = "NORMAL"


PassBy(c, d) ==
  /\ pc[c] = "iterate"
  /\ d \in toVisit
  /\ ~InTheWay(c, d)
  /\ toVisit' = toVisit \ {d}
  /\ UNCHANGED <<pc, state, open, exclusive, authVars>>

(* Without -dontdisconnect: every other NORMAL record is closed.           *)
CloseOther(c, d) ==
  /\ ~DontDisconnect
  /\ pc[c] = "iterate"
  /\ d \in toVisit
  /\ InTheWay(c, d)
  /\ open' = [open EXCEPT ![d] = FALSE]
  /\ toVisit' = toVisit \ {d}
  /\ UNCHANGED <<pc, state, exclusive, authVars>>

(* With it: the newcomer closes itself at the first one and returns.       *)
CloseSelf(c, d) ==
  /\ DontDisconnect
  /\ pc[c] = "iterate"
  /\ d \in toVisit
  /\ InTheWay(c, d)
  /\ open' = [open EXCEPT ![c] = FALSE]
  /\ pc' = [pc EXCEPT ![c] = "read"]
  /\ toVisit' = {}
  /\ UNCHANGED <<state, exclusive, authVars>>

ReleaseList(c) ==
  /\ pc[c] = "iterate"
  /\ toVisit = {}
  /\ pc' = [pc EXCEPT ![c] = "read"]
  /\ UNCHANGED <<state, open, exclusive, authVars, toVisit>>

(* clientInput finds the socket closed, signals clientOutput and waits for *)
(* it to end.                                                              *)
Leaves(c) ==
  /\ pc[c] = "read"
  /\ ~open[c]
  /\ pc' = [pc EXCEPT ![c] = "join"]
  /\ UNCHANGED <<state, open, exclusive, authVars, toVisit>>

(* pthread_join returns, if clientOutput ends.                             *)
JoinReturns(c) ==
  /\ pc[c] = "join"
  /\ pc' = [pc EXCEPT ![c] = "joined"]
  /\ UNCHANGED <<state, open, exclusive, authVars, toVisit>>

(* rfbClientConnectionGone takes the record out of the list.               *)
Gone(c) ==
  /\ pc[c] = "joined"
  /\ ListFree
  /\ pc' = [pc EXCEPT ![c] = "none"]
  /\ UNCHANGED <<state, open, exclusive, authVars, toVisit>>

-----------------------------------------------------------------------------
Minors == {3, 7}                    \* before and from 3.7 on
Answers == {"password", "empty"}    \* the peer knows the password, or none

Password(c) ==
  \/ LoadFixedKey(c) \/ DecryptPassword(c) \/ LoadPasswordKey(c)
  \/ EncryptChallenge(c) \/ LosePassword(c) \/ Accept(c) \/ Reject(c)

Sharing(c) ==
  \/ \E d \in Conns : PassBy(c, d) \/ CloseOther(c, d) \/ CloseSelf(c, d)
  \/ ReleaseList(c)

(* One step of the thread of c, or of the peer.                            *)
Step(c) ==
  \/ Connect(c)
  \/ Breaks(c)
  \/ \E minor \in Minors : Offer(c, minor) \/ Refuse(c, minor)
  \/ ChooseVncAuth(c) \/ ChooseNoAuth(c) \/ ChooseInvalid(c)
  \/ \E a \in Answers : Respond(c, a)
  \/ Password(c)
  \/ \E shared \in BOOLEAN : ClientInit(c, shared)
  \/ TakeList(c) \/ Sharing(c)
  \/ Leaves(c) \/ JoinReturns(c) \/ Gone(c)

Next == \E c \in Conns : Step(c)

Spec == Init /\ [][Next]_vars

(* A thread that can run does; the list's mutex is handed over in turn.    *)
(* Nothing is said of JoinReturns: clientOutput's signal can be lost and   *)
(* its mutex be kept (UpdatePipeline).                                     *)
Fairness == \A c \in Conns :
  /\ WF_vars(Password(c))
  /\ SF_vars(TakeList(c))
  /\ WF_vars(Sharing(c))
  /\ WF_vars(Leaves(c))
  /\ SF_vars(Gone(c))

FairSpec == Spec /\ Fairness

-----------------------------------------------------------------------------
PCs == {"none", "read", "fileKey", "decrypt", "passwordKey", "encrypt", "lose",
        "judge", "sharing", "iterate", "join", "joined"}
States == {"PROTOCOL_VERSION", "AUTH_VERSION", "AUTHENTICATION",
           "INITIALISATION", "NORMAL"}
Keys == {"fixed", "password", "empty", "garbled"}

(* Every variable has its type.                                            *)
TypeOK ==
  /\ pc \in [Conns -> PCs]
  /\ state \in [Conns -> States]
  /\ open \in [Conns -> BOOLEAN]
  /\ answer \in [Conns -> Answers \cup {"none"}]
  /\ cipher \in [Conns -> Keys]
  /\ passwd \in [Conns -> Keys]
  /\ exclusive \in [Conns -> BOOLEAN]
  /\ failures \in [Hosts -> Nat]
  /\ schedule \in Keys
  /\ stored \in Keys
  /\ toVisit \subseteq Conns

(* Where a password file is in force, a connection gets past security only *)
(* with a response that matched (auth.c 277-285, 339-350), whatever        *)
(* version and type it chose and whatever others do to the key schedule.   *)
Matched(c) == answer[c] = cipher[c]

PasswordNeeded ==
  \A c \in Conns \ Reverse :
    PasswdFile /\ pc[c] # "none" /\ state[c] \in {"INITIALISATION", "NORMAL"} => Matched(c)

(* A display claimed by a client for itself is used by no other such       *)
(* client: of two that have both settled and are both connected, neither   *)
(* saw the other (rfbserver.c 583-609, where the state is set before the   *)
(* list is searched).                                                      *)
Settled(c) == pc[c] = "read" /\ state[c] = "NORMAL" /\ open[c] /\ exclusive[c]

ExclusiveUse == \A c, d \in Conns : Settled(c) /\ Settled(d) => c = d

(* The count of a host's failures is tested before an attempt and raised   *)
(* after it: attempts that pass the test together overrun the limit, by no *)
(* more than the connections there can be (auth.c 129, 340).               *)
ConnsOf(h) == {c \in Conns : HostOf[c] = h}

FailuresBounded == \A h \in Hosts : failures[h] <= MaxAttempts + Cardinality(ConnsOf(h))

(* A host that has used up its attempts and has none under way is locked   *)
(* out for good: no later connection of it, of any version, gets to try.   *)
Trying(c) == pc[c] # "none" /\ state[c] \in {"AUTH_VERSION", "AUTHENTICATION"} /\ open[c]

LockedOut(h) == failures[h] > MaxAttempts /\ \A c \in ConnsOf(h) : ~Trying(c)

LockoutHolds == [][\A h \in Hosts : LockedOut(h) => LockedOut(h)']_vars


(* "Encrypt CHALLENGESIZE bytes in memory using a password" (vncauth.c     *)
(* 160): a client that answers with the password is not refused.           *)
RightAnswerAdmitted == \A c \in Conns : pc[c] = "judge" /\ answer[c] = "password" => Matched(c)
=============================================================================
