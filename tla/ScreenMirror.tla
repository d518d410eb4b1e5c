---------------------------- MODULE ScreenMirror ----------------------------
(***************************************************************************)
(* What the server promises of a client's copy of the screen, with no      *)
(* threads, no mutex and no regions of its own: the protocol is driven by  *)
(* the client, so a pixel is sent only as an answer to a request for it,   *)
(* and every other change of the copy is that the screen moved on.         *)
(***************************************************************************)
CONSTANTS Clients, Pixels

VARIABLES
  connected,  \* the clients with an open connection
  behind,     \* the pixels in which a client's copy differs from the screen
  asked       \* the pixels of which a client awaits an answer

mirrorVars == <<connected, behind, asked>>

MirrorInit ==
  /\ connected = {}
  /\ behind = [c \in Clients |-> {}]
  /\ asked = [c \in Clients |-> {}]

(* The screen changes at p, for all clients at once.                       *)
Change(p) ==
  /\ behind' = [c \in Clients |-> behind[c] \cup (IF c \in connected THEN {p} ELSE {})]
  /\ UNCHANGED <<connected, asked>>

(* A new client has seen nothing and asked for nothing.                    *)
Connect(c) ==
  /\ c \notin connected
  /\ connected' = connected \cup {c}
  /\ behind' = [behind EXCEPT ![c] = Pixels]
  /\ asked' = [asked EXCEPT ![c] = {}]

Ask(c, r) ==
  /\ c \in connected
  /\ asked' = [asked EXCEPT ![c] = @ \cup r]
  /\ UNCHANGED <<connected, behind>>

(* The answer begins: it will carry r, and the rest of the request is met. *)
Answer(c, r) ==
  /\ c \in connected
  /\ r \subseteq asked[c]
  /\ asked' = [asked EXCEPT ![c] = r]
  /\ UNCHANGED <<connected, behind>>

(* One pixel of the answer: a request is used up by it.                    *)
Show(c, p) ==
  /\ c \in connected
  /\ p \in asked[c]
  /\ behind' = [behind EXCEPT ![c] = @ \ {p}]
  /\ asked' = [asked EXCEPT ![c] = @ \ {p}]
  /\ UNCHANGED connected

Disconnect(c) ==
  /\ c \in connected
  /\ connected' = connected \ {c}
  /\ behind' = [behind EXCEPT ![c] = {}]
  /\ asked' = [asked EXCEPT ![c] = {}]

MirrorNext ==
  \/ \E p \in Pixels : Change(p)
  \/ \E c \in Clients :
       \/ Connect(c)
       \/ \E r \in SUBSET Pixels : Ask(c, r) \/ Answer(c, r)
       \/ \E p \in Pixels : Show(c, p)
       \/ Disconnect(c)

MirrorSpec == MirrorInit /\ [][MirrorNext]_mirrorVars
=============================================================================
