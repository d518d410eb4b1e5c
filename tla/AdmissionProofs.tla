--------------------------- MODULE AdmissionProofs ---------------------------
(***************************************************************************)
(* What Admission says of any number of connections from any hosts, under  *)
(* every combination of options.  The handlers' invariant (what is known   *)
(* of a record while its thread is inside a handler) carries the others:   *)
(* who holds the display, what a password is worth, and how far the count  *)
(* of failures can overrun its limit.                                      *)
(***************************************************************************)
EXTENDS Admission, FiniteSetTheorems, TLAPS

PasswordPCs == {"fileKey", "decrypt", "passwordKey", "encrypt", "lose", "judge"}

(* Inside a handler nobody but its own thread closes a record that is not  *)
(* NORMAL, and only one thread at a time walks the list.                   *)
HandlerInv ==
  /\ \A c \in Conns :
       /\ open[c] => pc[c] # "none"
       /\ pc[c] \in PasswordPCs => state[c] = "AUTHENTICATION" /\ open[c]
       /\ pc[c] \in {"join", "joined"} => ~open[c]
       /\ pc[c] \in {"sharing", "iterate"} => state[c] = "NORMAL" /\ exclusive[c]
  /\ \A c, d \in Conns : pc[c] = "iterate" /\ pc[d] = "iterate" => c = d

(* A connection that claims the display has its record marked NORMAL       *)
(* before it looks at the list.  So of two, the one that marks later finds *)
(* the other: it is still waiting for the list, or has the other to visit. *)
Claiming(c) == state[c] = "NORMAL" /\ open[c] /\ exclusive[c]

ClaimInv == \A c, d \in Conns : c # d /\ Claiming(d) =>
  /\ Settled(c) => pc[d] = "sharing" \/ (pc[d] = "iterate" /\ c \in toVisit)
  /\ pc[c] = "iterate" /\ open[c] /\ d \notin toVisit => pc[d] = "sharing"

(* Failures already counted and attempts that may still fail, together.    *)
TryingOf(h) == {c \in ConnsOf(h) : Trying(c)}

FailuresInv == \A h \in Hosts :
  failures[h] + Cardinality(TryingOf(h)) <= MaxAttempts + Cardinality(ConnsOf(h))

-----------------------------------------------------------------------------
LEMMA InitTypeOK == Init => TypeOK
BY AdmissionAssumption DEF Init, TypeOK, PCs, States, Keys

(* No step of any handler leaves the types.                               *)
LEMMA NextTypeOK == TypeOK /\ [Next]_vars => TypeOK'
<1> SUFFICES ASSUME TypeOK, [Next]_vars PROVE TypeOK'
  OBVIOUS
<1> USE DEF TypeOK, PCs, States, Keys, Answers, Minors, authVars
<1>1. ASSUME NEW c \in Conns, Step(c) PROVE TypeOK'
  <2>1. CASE Connect(c)
    BY <2>1 DEF Connect
  <2>2. CASE Breaks(c)
    BY <2>2 DEF Breaks
  <2>3. ASSUME NEW minor \in Minors, Offer(c, minor) PROVE TypeOK'
    BY <2>3 DEF Offer
  <2>4. ASSUME NEW minor \in Minors, Refuse(c, minor) PROVE TypeOK'
    BY <2>4 DEF Refuse
  <2>5. CASE ChooseVncAuth(c)
    BY <2>5 DEF ChooseVncAuth
  <2>6. CASE ChooseNoAuth(c)
    BY <2>6 DEF ChooseNoAuth
  <2>7. CASE ChooseInvalid(c)
    BY <2>7 DEF ChooseInvalid
  <2>8. ASSUME NEW a \in Answers, Respond(c, a) PROVE TypeOK'
    BY <2>8 DEF Respond
  <2>9. CASE LoadFixedKey(c)
    BY <2>9 DEF LoadFixedKey
  <2>10. CASE DecryptPassword(c)
    BY <2>10 DEF DecryptPassword
  <2>11. CASE LoadPasswordKey(c)
    <3>1. Readable(c) \subseteq Keys
      BY DEF Readable
    <3> HIDE DEF Keys
    <3>2. schedule' \in Keys
      BY <2>11, <3>1 DEF LoadPasswordKey
    <3> QED BY <2>11, <3>2 DEF LoadPasswordKey
  <2>12. CASE EncryptChallenge(c)
    BY <2>12 DEF EncryptChallenge
  <2>13. CASE LosePassword(c)
    BY <2>13 DEF LosePassword
  <2>14. CASE Accept(c)
    <3>1. HostOf[c] \in Hosts /\ failures' \in [Hosts -> Nat]
      BY <2>14, AdmissionAssumption DEF Accept
    <3> QED BY <2>14, <3>1 DEF Accept
  <2>15. CASE Reject(c)
    <3>1. HostOf[c] \in Hosts /\ failures[HostOf[c]] + 1 \in Nat
      BY AdmissionAssumption
    <3>2. failures' \in [Hosts -> Nat]
      BY <2>15, <3>1 DEF Reject
    <3> QED BY <2>15, <3>2 DEF Reject
  <2>16. ASSUME NEW s \in BOOLEAN, ClientInit(c, s) PROVE TypeOK'
    BY <2>16, ZenonT(60) DEF ClientInit, Claims
  <2>17. CASE TakeList(c)
    BY <2>17 DEF TakeList, Linked
  <2>18. ASSUME NEW d \in Conns, PassBy(c, d) PROVE TypeOK'
    BY <2>18 DEF PassBy
  <2>19. ASSUME NEW d \in Conns, CloseOther(c, d) PROVE TypeOK'
    BY <2>19 DEF CloseOther
  <2>20. ASSUME NEW d \in Conns, CloseSelf(c, d) PROVE TypeOK'
    BY <2>20 DEF CloseSelf
  <2>21. CASE ReleaseList(c)
    BY <2>21 DEF ReleaseList
  <2>22. CASE Leaves(c) \/ JoinReturns(c) \/ Gone(c)
    BY <2>22 DEF Leaves, JoinReturns, Gone
  <2> QED BY <1>1, <2>1, <2>2, <2>3, <2>4, <2>5, <2>6, <2>7, <2>8, <2>9, <2>10, <2>11,
           <2>12, <2>13, <2>14, <2>15, <2>16, <2>17, <2>18, <2>19, <2>20, <2>21, <2>22 DEF Step, Password, Sharing
<1>2. CASE UNCHANGED vars
  BY <1>2 DEF vars
<1> QED BY <1>1, <1>2 DEF Next

(* The variables of Admission always have their types.                    *)
THEOREM TypeCorrect == Spec => []TypeOK
BY InitTypeOK, NextTypeOK, PTL DEF Spec

-----------------------------------------------------------------------------
(* Each handler leaves the record as the next one expects it.             *)
LEMMA NextHandlerInv == TypeOK /\ HandlerInv /\ [Next]_vars => HandlerInv'
<1> SUFFICES ASSUME TypeOK, HandlerInv, [Next]_vars PROVE HandlerInv'
  OBVIOUS
<1> USE DEF TypeOK, HandlerInv, PasswordPCs, PCs, States, Awaits, authVars
<1>1. ASSUME NEW c \in Conns, Step(c) PROVE HandlerInv'
  <2>1. CASE Connect(c)
    BY <2>1 DEF Connect
  <2>2. CASE Breaks(c)
    BY <2>2 DEF Breaks
  <2>3. ASSUME NEW minor \in Minors, Offer(c, minor) PROVE HandlerInv'
    BY <2>3 DEF Offer
  <2>4. ASSUME NEW minor \in Minors, Refuse(c, minor) PROVE HandlerInv'
    BY <2>4 DEF Refuse
  <2>5. CASE ChooseVncAuth(c)
    BY <2>5 DEF ChooseVncAuth
  <2>6. CASE ChooseNoAuth(c)
    BY <2>6 DEF ChooseNoAuth
  <2>7. CASE ChooseInvalid(c)
    BY <2>7 DEF ChooseInvalid
  <2>8. ASSUME NEW a \in Answers, Respond(c, a) PROVE HandlerInv'
    BY <2>8 DEF Respond
  <2>9. CASE LoadFixedKey(c)
    BY <2>9 DEF LoadFixedKey
  <2>10. CASE DecryptPassword(c)
    BY <2>10 DEF DecryptPassword
  <2>11. CASE LoadPasswordKey(c)
    BY <2>11 DEF LoadPasswordKey
  <2>12. CASE EncryptChallenge(c)
    BY <2>12 DEF EncryptChallenge
  <2>13. CASE LosePassword(c)
    BY <2>13 DEF LosePassword
  <2>14. CASE Accept(c)
    BY <2>14 DEF Accept
  <2>15. CASE Reject(c)
    BY <2>15 DEF Reject
  <2>16. ASSUME NEW s \in BOOLEAN, ClientInit(c, s) PROVE HandlerInv'
    BY <2>16, ZenonT(60) DEF ClientInit, Claims
  <2>17. CASE TakeList(c)
    BY <2>17 DEF TakeList, ListFree
  <2>18. ASSUME NEW d \in Conns, PassBy(c, d) PROVE HandlerInv'
    BY <2>18 DEF PassBy
  <2>19. ASSUME NEW d \in Conns, CloseOther(c, d) PROVE HandlerInv'
    BY <2>19 DEF CloseOther, InTheWay
  <2>20. ASSUME NEW d \in Conns, CloseSelf(c, d) PROVE HandlerInv'
    BY <2>20 DEF CloseSelf
  <2>21. CASE ReleaseList(c)
    BY <2>21 DEF ReleaseList
  <2>22. CASE Leaves(c) \/ JoinReturns(c) \/ Gone(c)
    BY <2>22 DEF Leaves, JoinReturns, Gone
  <2> QED BY <1>1, <2>1, <2>2, <2>3, <2>4, <2>5, <2>6, <2>7, <2>8, <2>9, <2>10, <2>11,
           <2>12, <2>13, <2>14, <2>15, <2>16, <2>17, <2>18, <2>19, <2>20, <2>21, <2>22 DEF Step, Password, Sharing
<1>2. CASE UNCHANGED vars
  BY <1>2 DEF vars
<1> QED BY <1>1, <1>2 DEF Next

-----------------------------------------------------------------------------
(* The marking before the search is what keeps two claimants apart.       *)
LEMMA NextClaimInv == TypeOK /\ HandlerInv /\ ClaimInv /\ [Next]_vars => ClaimInv'
<1> SUFFICES ASSUME TypeOK, HandlerInv, ClaimInv, [Next]_vars PROVE ClaimInv'
  OBVIOUS
<1> USE DEF TypeOK, HandlerInv, ClaimInv, Claiming, Settled, PasswordPCs, PCs, States, Awaits, authVars
<1>1. ASSUME NEW c \in Conns, Step(c) PROVE ClaimInv'
  <2>1. CASE Connect(c)
    BY <2>1 DEF Connect
  <2>2. CASE Breaks(c)
    BY <2>2 DEF Breaks
  <2>3. ASSUME NEW minor \in Minors, Offer(c, minor) PROVE ClaimInv'
    BY <2>3 DEF Offer
  <2>4. ASSUME NEW minor \in Minors, Refuse(c, minor) PROVE ClaimInv'
    BY <2>4 DEF Refuse
  <2>5. CASE ChooseVncAuth(c)
    BY <2>5 DEF ChooseVncAuth
  <2>6. CASE ChooseNoAuth(c)
    BY <2>6 DEF ChooseNoAuth
  <2>7. CASE ChooseInvalid(c)
    BY <2>7 DEF ChooseInvalid
  <2>8. ASSUME NEW a \in Answers, Respond(c, a) PROVE ClaimInv'
    BY <2>8 DEF Respond
  <2>9. CASE LoadFixedKey(c)
    BY <2>9 DEF LoadFixedKey
  <2>10. CASE DecryptPassword(c)
    BY <2>10 DEF DecryptPassword
  <2>11. CASE LoadPasswordKey(c)
    BY <2>11 DEF LoadPasswordKey
  <2>12. CASE EncryptChallenge(c)
    BY <2>12 DEF EncryptChallenge
  <2>13. CASE LosePassword(c)
    BY <2>13 DEF LosePassword
  <2>14. CASE Accept(c)
    BY <2>14 DEF Accept
  <2>15. CASE Reject(c)
    BY <2>15 DEF Reject
  <2>16. ASSUME NEW s \in BOOLEAN, ClientInit(c, s) PROVE ClaimInv'
    BY <2>16, ZenonT(60) DEF ClientInit, Claims
  <2>17. CASE TakeList(c)
    BY <2>17 DEF TakeList, ListFree, Linked
  <2>18. ASSUME NEW d \in Conns, PassBy(c, d) PROVE ClaimInv'
    BY <2>18 DEF PassBy, InTheWay
  <2>19. ASSUME NEW d \in Conns, CloseOther(c, d) PROVE ClaimInv'
    BY <2>19 DEF CloseOther, InTheWay
  <2>20. ASSUME NEW d \in Conns, CloseSelf(c, d) PROVE ClaimInv'
    BY <2>20 DEF CloseSelf, InTheWay
  <2>21. CASE ReleaseList(c)
    BY <2>21 DEF ReleaseList
  <2>22. CASE Leaves(c) \/ JoinReturns(c) \/ Gone(c)
    BY <2>22 DEF Leaves, JoinReturns, Gone
  <2> QED BY <1>1, <2>1, <2>2, <2>3, <2>4, <2>5, <2>6, <2>7, <2>8, <2>9, <2>10, <2>11,
           <2>12, <2>13, <2>14, <2>15, <2>16, <2>17, <2>18, <2>19, <2>20, <2>21, <2>22 DEF Step, Password, Sharing
<1>2. CASE UNCHANGED vars
  BY <1>2 DEF vars
<1> QED BY <1>1, <1>2 DEF Next

LEMMA InvsCorrect == Spec => [](TypeOK /\ HandlerInv /\ ClaimInv)
<1>1. Init => TypeOK /\ HandlerInv /\ ClaimInv
  BY InitTypeOK DEF Init, HandlerInv, ClaimInv, Claiming, Settled, PasswordPCs
<1> QED BY <1>1, NextTypeOK, NextHandlerInv, NextClaimInv, PTL DEF Spec

(* Two clients that each claimed the display are never both settled on it, *)
(* whatever other clients do meanwhile (rfbserver.c 583-609).              *)
THEOREM ExclusiveCorrect == Spec => []ExclusiveUse
<1>1. TypeOK /\ HandlerInv /\ ClaimInv => ExclusiveUse
  BY DEF ExclusiveUse, ClaimInv, Claiming, Settled
<1> QED BY <1>1, InvsCorrect, PTL

-----------------------------------------------------------------------------
(* Only a matching response, or no file in force, gets past security.     *)
LEMMA NextPassword == TypeOK /\ HandlerInv /\ PasswordNeeded /\ [Next]_vars => PasswordNeeded'
<1> SUFFICES ASSUME TypeOK, HandlerInv, PasswordNeeded, [Next]_vars PROVE PasswordNeeded'
  OBVIOUS
<1> USE DEF TypeOK, HandlerInv, PasswordNeeded, Matched, PasswordPCs, Awaits, authVars
<1>1. ASSUME NEW c \in Conns, Step(c) PROVE PasswordNeeded'
  <2>1. CASE Connect(c)
    BY <2>1 DEF Connect
  <2>2. CASE Breaks(c)
    BY <2>2 DEF Breaks
  <2>3. ASSUME NEW minor \in Minors, Offer(c, minor) PROVE PasswordNeeded'
    BY <2>3 DEF Offer, AsksPassword, AdmitsFreely, Minors
  <2>4. ASSUME NEW minor \in Minors, Refuse(c, minor) PROVE PasswordNeeded'
    BY <2>4 DEF Refuse
  <2>5. CASE ChooseVncAuth(c)
    BY <2>5 DEF ChooseVncAuth
  <2>6. CASE ChooseNoAuth(c)
    BY <2>6 DEF ChooseNoAuth, NoFileInForce
  <2>7. CASE ChooseInvalid(c)
    BY <2>7 DEF ChooseInvalid
  <2>8. ASSUME NEW a \in Answers, Respond(c, a) PROVE PasswordNeeded'
    BY <2>8 DEF Respond
  <2>9. CASE LoadFixedKey(c)
    BY <2>9 DEF LoadFixedKey
  <2>10. CASE DecryptPassword(c)
    BY <2>10 DEF DecryptPassword
  <2>11. CASE LoadPasswordKey(c)
    BY <2>11 DEF LoadPasswordKey
  <2>12. CASE EncryptChallenge(c)
    BY <2>12 DEF EncryptChallenge
  <2>13. CASE LosePassword(c)
    BY <2>13 DEF LosePassword
  <2>14. CASE Accept(c)
    BY <2>14 DEF Accept
  <2>15. CASE Reject(c)
    BY <2>15 DEF Reject
  <2>16. ASSUME NEW s \in BOOLEAN, ClientInit(c, s) PROVE PasswordNeeded'
    BY <2>16, ZenonT(60) DEF ClientInit, Claims
  <2>17. CASE TakeList(c)
    BY <2>17 DEF TakeList
  <2>18. ASSUME NEW d \in Conns, PassBy(c, d) PROVE PasswordNeeded'
    BY <2>18 DEF PassBy
  <2>19. ASSUME NEW d \in Conns, CloseOther(c, d) PROVE PasswordNeeded'
    BY <2>19 DEF CloseOther
  <2>20. ASSUME NEW d \in Conns, CloseSelf(c, d) PROVE PasswordNeeded'
    BY <2>20 DEF CloseSelf
  <2>21. CASE ReleaseList(c)
    BY <2>21 DEF ReleaseList
  <2>22. CASE Leaves(c) \/ JoinReturns(c) \/ Gone(c)
    BY <2>22 DEF Leaves, JoinReturns, Gone
  <2> QED BY <1>1, <2>1, <2>2, <2>3, <2>4, <2>5, <2>6, <2>7, <2>8, <2>9, <2>10, <2>11,
           <2>12, <2>13, <2>14, <2>15, <2>16, <2>17, <2>18, <2>19, <2>20, <2>21, <2>22 DEF Step, Password, Sharing
<1>2. CASE UNCHANGED vars
  BY <1>2 DEF vars
<1> QED BY <1>1, <1>2 DEF Next

(* Where a password file is in force, no interleaving of the connections'  *)
(* handshakes lets one in without a response that matched.                 *)
THEOREM PasswordCorrect == Spec => []PasswordNeeded
<1>1. Init => PasswordNeeded
  BY DEF Init, PasswordNeeded
<1> QED BY <1>1, InvsCorrect, NextPassword, PTL DEF Spec
-----------------------------------------------------------------------------
(* Most steps neither count a failure nor begin an attempt.                *)
Quiet == failures' = failures /\ \A d \in Conns : Trying(d)' => Trying(d)

StepKind(c) ==
  \/ Quiet
  \/ \E minor \in Minors : Offer(c, minor)
  \/ Accept(c) \/ Reject(c)

LEMMA StepKinds ==
  ASSUME TypeOK, HandlerInv, NEW c \in Conns, Step(c) PROVE StepKind(c)
<1> USE DEF TypeOK, HandlerInv, Trying, Quiet, PasswordPCs, Awaits, PCs, States, authVars
<1>1. CASE Connect(c)
  BY <1>1 DEF StepKind, Connect
<1>2. CASE Breaks(c)
  BY <1>2 DEF StepKind, Breaks
<1>3. ASSUME NEW minor \in Minors, Offer(c, minor) PROVE StepKind(c)
  BY <1>3 DEF StepKind
<1>4. ASSUME NEW minor \in Minors, Refuse(c, minor) PROVE StepKind(c)
  BY <1>4 DEF StepKind, Refuse
<1>5. CASE ChooseVncAuth(c)
  BY <1>5 DEF StepKind, ChooseVncAuth
<1>6. CASE ChooseNoAuth(c)
  BY <1>6 DEF StepKind, ChooseNoAuth
<1>7. CASE ChooseInvalid(c)
  BY <1>7 DEF StepKind, ChooseInvalid
<1>8. ASSUME NEW a \in Answers, Respond(c, a) PROVE StepKind(c)
  BY <1>8 DEF StepKind, Respond
<1>9. CASE LoadFixedKey(c)
  BY <1>9 DEF StepKind, LoadFixedKey
<1>10. CASE DecryptPassword(c)
  BY <1>10 DEF StepKind, DecryptPassword
<1>11. CASE LoadPasswordKey(c)
  BY <1>11 DEF StepKind, LoadPasswordKey
<1>12. CASE EncryptChallenge(c)
  BY <1>12 DEF StepKind, EncryptChallenge
<1>13. CASE LosePassword(c)
  BY <1>13 DEF StepKind, LosePassword
<1>14. CASE Accept(c)
  BY <1>14 DEF StepKind
<1>15. CASE Reject(c)
  BY <1>15 DEF StepKind
<1>16. ASSUME NEW s \in BOOLEAN, ClientInit(c, s) PROVE StepKind(c)
  BY <1>16 DEF StepKind, ClientInit, Claims
<1>17. CASE TakeList(c)
  BY <1>17 DEF StepKind, TakeList
<1>18. ASSUME NEW d \in Conns, PassBy(c, d) PROVE StepKind(c)
  BY <1>18 DEF StepKind, PassBy
<1>19. ASSUME NEW d \in Conns, CloseOther(c, d) PROVE StepKind(c)
  BY <1>19 DEF StepKind, CloseOther
<1>20. ASSUME NEW d \in Conns, CloseSelf(c, d) PROVE StepKind(c)
  BY <1>20 DEF StepKind, CloseSelf
<1>21. CASE ReleaseList(c)
  BY <1>21 DEF StepKind, ReleaseList
<1>22. CASE Leaves(c) \/ JoinReturns(c) \/ Gone(c)
  BY <1>22 DEF StepKind, Leaves, JoinReturns, Gone
<1> QED BY <1>1, <1>2, <1>3, <1>4, <1>5, <1>6, <1>7, <1>8, <1>9, <1>10, <1>11, <1>12,
           <1>13, <1>14, <1>15, <1>16, <1>17, <1>18, <1>19, <1>20, <1>21, <1>22 DEF Step, Password, Sharing

(* The attempts of a host are finitely many, and no more than its          *)
(* connections.                                                            *)
LEMMA HostIsFinite ==
  ASSUME NEW h \in Hosts
  PROVE  /\ IsFiniteSet(ConnsOf(h)) /\ IsFiniteSet(TryingOf(h))
         /\ Cardinality(ConnsOf(h)) \in Nat /\ Cardinality(TryingOf(h)) \in Nat
         /\ Cardinality(TryingOf(h)) <= Cardinality(ConnsOf(h))
<1>1. ConnsOf(h) \subseteq Conns /\ TryingOf(h) \subseteq ConnsOf(h)
  BY DEF ConnsOf, TryingOf
<1>2. IsFiniteSet(ConnsOf(h))
  BY <1>1, AdmissionAssumption, FS_Subset
<1> QED BY <1>1, <1>2, FS_Subset, FS_CardinalityType

LEMMA QuietFailures == TypeOK /\ FailuresInv /\ Quiet => FailuresInv'
<1> SUFFICES ASSUME TypeOK, FailuresInv, Quiet, NEW h \in Hosts
             PROVE failures'[h] + Cardinality(TryingOf(h)') <= MaxAttempts + Cardinality(ConnsOf(h))
  BY DEF FailuresInv, ConnsOf
<1>1. TryingOf(h)' \subseteq TryingOf(h)
  BY DEF TryingOf, ConnsOf, Quiet
<1>2. Cardinality(TryingOf(h)') <= Cardinality(TryingOf(h)) /\ Cardinality(TryingOf(h)') \in Nat
  BY <1>1, HostIsFinite, FS_Subset, FS_CardinalityType
<1> QED BY <1>2, HostIsFinite, AdmissionAssumption DEF Quiet, TypeOK, FailuresInv

(* A connection that passed the test of the count holds a place among the  *)
(* attempts under way until it succeeds or is counted.                     *)
LEMMA NextFailures == TypeOK /\ HandlerInv /\ FailuresInv /\ [Next]_vars => FailuresInv'
<1> SUFFICES ASSUME TypeOK, HandlerInv, FailuresInv, [Next]_vars PROVE FailuresInv'
  OBVIOUS
<1>1. ASSUME NEW c \in Conns, Step(c) PROVE FailuresInv'
  <2> SUFFICES ASSUME NEW h \in Hosts
               PROVE  failures'[h] + Cardinality(TryingOf(h)') <= MaxAttempts + Cardinality(ConnsOf(h))
    BY DEF FailuresInv, ConnsOf
  <2>t. failures[h] \in Nat /\ MaxAttempts \in Nat /\ HostOf[c] \in Hosts
    BY AdmissionAssumption DEF TypeOK
  <2>f. /\ IsFiniteSet(TryingOf(h)) /\ Cardinality(ConnsOf(h)) \in Nat
        /\ Cardinality(TryingOf(h)) \in Nat
        /\ failures[h] + Cardinality(TryingOf(h)) <= MaxAttempts + Cardinality(ConnsOf(h))
    BY HostIsFinite DEF FailuresInv
  <2>g. /\ Cardinality(TryingOf(h)') \in Nat
        /\ Cardinality(TryingOf(h)') <= Cardinality(ConnsOf(h))
    <3>1. TryingOf(h)' \subseteq ConnsOf(h)
      BY DEF TryingOf, ConnsOf
    <3> QED BY <3>1, HostIsFinite, FS_Subset, FS_CardinalityType
  <2>1. CASE Quiet
    BY <2>1, QuietFailures DEF FailuresInv, ConnsOf
  <2>2. ASSUME NEW minor \in Minors, Offer(c, minor)
        PROVE failures'[h] + Cardinality(TryingOf(h)') <= MaxAttempts + Cardinality(ConnsOf(h))
    <3>1. failures' = failures
      BY <2>2 DEF Offer, authVars
    <3>2. CASE h = HostOf[c]
      <4>1. failures[h] <= MaxAttempts
        BY <2>2, <2>t, <3>2 DEF Offer, TooMany
      <4> QED BY <4>1, <3>1, <2>g, <2>t, <2>f
    <3>3. CASE h # HostOf[c]
      <4>1. TryingOf(h)' = TryingOf(h)
        BY <2>2, <3>3 DEF Offer, TryingOf, ConnsOf, Trying, TypeOK
      <4> QED BY <4>1, <3>1, <2>f
    <3> QED BY <3>2, <3>3
  <2>3. CASE Accept(c)
    <3>1. CASE h = HostOf[c]
      <4>1. failures'[h] = 0
        BY <2>3, <3>1 DEF Accept, TypeOK
      <4> QED BY <4>1, <2>g, <2>t, <2>f
    <3>2. CASE h # HostOf[c]
      <4>1. TryingOf(h)' = TryingOf(h) /\ failures'[h] = failures[h]
        BY <2>3, <3>2 DEF Accept, TryingOf, ConnsOf, Trying, TypeOK
      <4> QED BY <4>1, <2>f
    <3> QED BY <3>1, <3>2
  <2>4. CASE Reject(c)
    <3>1. CASE h = HostOf[c]
      <4>1. c \in TryingOf(h) /\ TryingOf(h)' = TryingOf(h) \ {c}
        BY <2>4, <3>1 DEF Reject, TryingOf, ConnsOf, Trying, TypeOK, HandlerInv, PasswordPCs
      <4>2. Cardinality(TryingOf(h)') = Cardinality(TryingOf(h)) - 1
        BY <4>1, <2>f, FS_RemoveElement
      <4>3. failures'[h] = failures[h] + 1
        BY <2>4, <3>1 DEF Reject, TypeOK
      <4> QED BY <4>2, <4>3, <2>t, <2>f
    <3>2. CASE h # HostOf[c]
      <4>1. TryingOf(h)' = TryingOf(h) /\ failures'[h] = failures[h]
        BY <2>4, <3>2 DEF Reject, TryingOf, ConnsOf, Trying, TypeOK
      <4> QED BY <4>1, <2>f
    <3> QED BY <3>1, <3>2
  <2> QED BY <1>1, <2>1, <2>2, <2>3, <2>4, StepKinds DEF StepKind
<1>2. CASE UNCHANGED vars
  BY <1>2, QuietFailures DEF vars, Quiet, Trying
<1> QED BY <1>1, <1>2 DEF Next

(* The table of failures overruns its limit by no more than the number of  *)
(* connections that a host can have at the same time.                      *)
THEOREM FailuresCorrect == Spec => []FailuresBounded
<1>1. Init => FailuresInv
  <2> SUFFICES ASSUME Init, NEW h \in Hosts
               PROVE failures[h] + Cardinality(TryingOf(h)) <= MaxAttempts + Cardinality(ConnsOf(h))
    BY DEF FailuresInv
  <2>1. failures[h] = 0
    BY DEF Init
  <2> QED BY <2>1, HostIsFinite, AdmissionAssumption
<1>2. TypeOK /\ FailuresInv => FailuresBounded
  <2> SUFFICES ASSUME TypeOK, FailuresInv, NEW h \in Hosts
               PROVE failures[h] <= MaxAttempts + Cardinality(ConnsOf(h))
    BY DEF FailuresBounded
  <2> QED BY HostIsFinite, AdmissionAssumption DEF TypeOK, FailuresInv
<1> QED BY <1>1, <1>2, InvsCorrect, NextFailures, PTL DEF Spec

(* A host that used up its attempts stays locked out: the only steps that  *)
(* change its count belong to attempts, and it has none and gets none.     *)
THEOREM LockoutCorrect == Spec => LockoutHolds
<1> DEFINE Stays == \A h \in Hosts : LockedOut(h) => LockedOut(h)'
<1>1. TypeOK /\ HandlerInv /\ [Next]_vars => Stays
  <2> SUFFICES ASSUME TypeOK, HandlerInv, [Next]_vars, NEW h \in Hosts, LockedOut(h)
               PROVE LockedOut(h)'
    OBVIOUS
  <2> USE DEF LockedOut, ConnsOf
  <2>1. ASSUME NEW c \in Conns, Step(c) PROVE LockedOut(h)'
    <3>1. CASE Quiet
      BY <3>1 DEF Quiet
    <3>2. ASSUME NEW minor \in Minors, Offer(c, minor) PROVE LockedOut(h)'
      <4>1. HostOf[c] # h
        BY <3>2 DEF Offer, TooMany
      <4> QED BY <3>2, <4>1 DEF Offer, Trying, TypeOK, authVars
    <3>3. CASE Accept(c) \/ Reject(c)
      <4>1. HostOf[c] # h
        BY <3>3 DEF Accept, Reject, Trying, HandlerInv, PasswordPCs
      <4> QED BY <3>3, <4>1 DEF Accept, Reject, Trying, TypeOK
    <3> QED BY <2>1, <3>1, <3>2, <3>3, StepKinds DEF StepKind
  <2>2. CASE UNCHANGED vars
    BY <2>2 DEF vars, Trying
  <2> QED BY <2>1, <2>2 DEF Next
<1>2. TypeOK /\ HandlerInv /\ [Next]_vars => [Stays]_vars
  BY <1>1
<1> QED BY <1>2, InvsCorrect, PTL DEF Spec, LockoutHolds
=============================================================================
