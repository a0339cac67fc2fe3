--------------------------- MODULE QrLoginProofs ---------------------------
(***************************************************************************)
(* What holds of a QR challenge for any number of phones, chats and polls. *)
(***************************************************************************)
EXTENDS QrLogin, TLAPS

-----------------------------------------------------------------------------
(* Types *)

LEMMA QrInitType == QrInit => QrTypeOK
  <1>1. 0 \in 0..Several
    BY DEF Several
  <1>2. QED
    BY <1>1 DEF QrInit, QrTypeOK

\* A tap that moves on is still a tap, and its account is the same.
LEMMA TapGoes ==
    ASSUME QrTypeOK, NEW b \in Bot, bot[b] # Idle,
           NEW s \in {"locked", "armed", "read", "done"}, GoesTo(b, s)
    PROVE  /\ bot' \in [Bot -> Tap \cup {Idle}]
           /\ bot'[b] # Idle /\ bot'[b].stage = s
           /\ \A c \in Bot : c # b => bot'[c] = bot[c]
  <1>1. bot[b] \in Tap
    BY DEF QrTypeOK
  <1>2. [bot[b] EXCEPT !.stage = s] \in Tap /\ [bot[b] EXCEPT !.stage = s].stage = s
    BY <1>1 DEF Tap
  <1>3. bot' = [bot EXCEPT ![b] = [bot[b] EXCEPT !.stage = s]]
    BY DEF GoesTo
  <1>4. QED
    BY <1>2, <1>3, QrAssumption DEF QrTypeOK

LEMMA TapIdles ==
    ASSUME QrTypeOK, NEW b \in Bot, bot' = [bot EXCEPT ![b] = Idle]
    PROVE  /\ bot' \in [Bot -> Tap \cup {Idle}]
           /\ bot'[b] = Idle
           /\ \A c \in Bot : c # b => bot'[c] = bot[c]
  BY DEF QrTypeOK

LEMMA TapBegins ==
    ASSUME QrTypeOK, NEW b \in Bot, NEW p \in Account, BotLock(b, p)
    PROVE  /\ bot' \in [Bot -> Tap \cup {Idle}]
           /\ bot'[b] # Idle /\ bot'[b].stage = "locked"
           /\ \A c \in Bot : c # b => bot'[c] = bot[c]
  <1>1. [stage |-> "locked", as |-> p] \in Tap
    BY DEF Tap
  <1>2. QED
    BY <1>1, QrAssumption DEF QrTypeOK, BotLock

LEMMA QrStepType ==
    ASSUME QrTypeOK, QrNext
    PROVE  QrTypeOK'
  <1>1. CASE QrStart \/ ChallengeGoes \/ LockExpires
    BY <1>1 DEF QrTypeOK, QrStart, ChallengeGoes, LockExpires
  <1>2. ASSUME NEW w \in Web, WebStep(w)
        PROVE  QrTypeOK'
    BY <1>2 DEF QrTypeOK, WebStep, WebRead, WebSave, WebFails
  <1>3. ASSUME NEW b \in Bot, BotStep(b)
        PROVE  QrTypeOK'
    <2>1. bot' \in [Bot -> Tap \cup {Idle}]
      BY <1>3, TapGoes, TapIdles, TapBegins
      DEF BotStep, BotWorks, BotArm, BotRead, BotSave, BotRelease, BotDies, AtStage
    <2>2. lock' \in {"free", "set", "armed"}
      BY <1>3
      DEF QrTypeOK, BotStep, BotWorks, BotLock, BotArm, BotRead, BotSave, BotRelease, BotDies
    <2>3. challenge' \in Account \cup {NoRow, Pending}
      <3>1. CASE BotSave(b)
        <4>1. bot[b] \in Tap
          BY <3>1 DEF QrTypeOK, BotSave, AtStage
        <4>2. QED
          BY <3>1, <4>1 DEF QrTypeOK, BotSave, Tap
      <3>2. CASE ~BotSave(b)
        BY <1>3, <3>2
        DEF QrTypeOK, BotStep, BotWorks, BotLock, BotArm, BotRead, BotRelease, BotDies
      <3>3. QED
        BY <3>1, <3>2
    <2>4. UNCHANGED <<started, web, poll, delivered>>
      BY <1>3 DEF BotStep, BotWorks, BotLock, BotArm, BotRead, BotSave, BotRelease, BotDies
    <2>5. QED
      BY <2>1, <2>2, <2>3, <2>4 DEF QrTypeOK
  <1>4. ASSUME NEW k \in Poller, PollStep(k)
        PROVE  QrTypeOK'
    BY <1>4 DEF QrTypeOK, PollStep, PollRead, PollDeliver, PollFails, HandOut, Approved, Several
  <1>5. QED
    BY <1>1, <1>2, <1>3, <1>4 DEF QrNext

\* Types: in particular only accounts are ever approved and delivered.
THEOREM QrTypes == QrSpec => []QrTypeOK
  <1>1. QrTypeOK /\ UNCHANGED qrVars => QrTypeOK'
    BY DEF QrTypeOK, qrVars
  <1>2. QED
    BY <1>1, QrInitType, QrStepType, PTL DEF QrSpec

-----------------------------------------------------------------------------
(* A challenge that is gone *)

\* With any failures and any timing: only an approval already in flight brings
\* a challenge back that is cancelled, denied, expired or used up.
THEOREM GoneChallengesStay == QrSpec => GoneStaysGone
  <1>1. ASSUME QrTypeOK, QrNext, started, challenge = NoRow, ~ApprovalInFlight
        PROVE  challenge' = NoRow
    <2>1. CASE QrStart \/ ChallengeGoes \/ LockExpires
      BY <1>1, <2>1 DEF QrStart, ChallengeGoes, LockExpires
    <2>2. ASSUME NEW w \in Web, WebStep(w)
          PROVE  challenge' = NoRow
      BY <1>1, <2>2, QrAssumption DEF WebStep, WebRead, WebSave, WebFails, ApprovalInFlight
    <2>3. ASSUME NEW b \in Bot, BotStep(b)
          PROVE  challenge' = NoRow
      BY <1>1, <2>3
      DEF BotStep, BotWorks, BotLock, BotArm, BotRead, BotSave, BotRelease, BotDies, ApprovalInFlight
    <2>4. ASSUME NEW k \in Poller, PollStep(k)
          PROVE  challenge' = NoRow
      BY <1>1, <2>4 DEF PollStep, PollRead, PollDeliver, PollFails
    <2>5. QED
      BY <1>1, <2>1, <2>2, <2>3, <2>4 DEF QrNext
  <1>2. QrTypeOK /\ [QrNext]_qrVars
          => [started /\ challenge = NoRow /\ ~ApprovalInFlight => challenge' = NoRow]_qrVars
    BY <1>1
  <1>3. QED
    BY <1>2, QrTypes, PTL DEF QrSpec, GoneStaysGone

-----------------------------------------------------------------------------
(* The lock, as long as approvals are quick and nothing fails *)

LEMMA LockStep ==
    ASSUME ~Slow, ~Faults, QrTypeOK, LockHeldByOneTap, QrNext
    PROVE  LockHeldByOneTap'
  <1> USE DEF LockHeldByOneTap
  <1>1. CASE QrStart \/ ChallengeGoes \/ (\E w \in Web : WebStep(w)) \/ (\E k \in Poller : PollStep(k))
    BY <1>1 DEF QrStart, ChallengeGoes, WebStep, WebRead, WebSave, WebFails,
                PollStep, PollRead, PollDeliver, PollFails, HandOut
  <1>2. CASE LockExpires
    BY <1>2 DEF LockExpires
  <1>3. ASSUME NEW b \in Bot, BotStep(b)
        PROVE  LockHeldByOneTap'
    <2>1. ASSUME NEW p \in Account, BotLock(b, p)
          PROVE  LockHeldByOneTap'
      BY <2>1, TapBegins DEF BotLock
    <2>2. CASE BotArm(b)
      BY <2>2, TapGoes DEF BotArm, AtStage
    <2>3. CASE BotRead(b)
      BY <2>3, TapGoes DEF BotRead, AtStage
    <2>4. CASE BotSave(b)
      BY <2>4, TapGoes DEF BotSave, AtStage
    <2>5. CASE BotRelease(b)
      BY <2>5, TapIdles DEF BotRelease, AtStage
    <2>6. CASE BotDies(b)
      BY <2>6 DEF BotDies
    <2>7. QED
      BY <1>3, <2>1, <2>2, <2>3, <2>4, <2>5, <2>6 DEF BotStep, BotWorks
  <1>4. QED
    BY <1>1, <1>2, <1>3 DEF QrNext

\* The lock works as a lock for any number of chats, provided approvals keep
\* within its 5 s and no command fails.
THEOREM LockSerialises == ~Slow /\ ~Faults => (QrSpec => []LockHeldByOneTap)
  <1>1. QrInit => LockHeldByOneTap
    BY DEF QrInit, LockHeldByOneTap
  <1>2. LockHeldByOneTap /\ UNCHANGED qrVars => LockHeldByOneTap'
    BY DEF LockHeldByOneTap, qrVars
  <1>3. ASSUME ~Slow, ~Faults
        PROVE  QrSpec => []LockHeldByOneTap
    <2>1. QrTypeOK /\ LockHeldByOneTap /\ [QrNext]_qrVars => LockHeldByOneTap'
      BY <1>2, <1>3, LockStep
    <2>2. QED
      BY <1>1, <2>1, QrTypes, PTL DEF QrSpec
  <1>4. QED
    BY <1>3

-----------------------------------------------------------------------------
(* One approval and one delivery *)

\* Somebody's approval has been saved, whatever became of it.
Settled == Approved \/ (\E k \in Poller : poll[k] # Idle) \/ delivered > 0

\* Once an approval is settled no other is on its way, and none can begin.
SettledOnce ==
    /\ \A b \in Bot : bot[b] # Idle => started
    /\ Settled => started /\ challenge # Pending /\ \A b \in Bot : ~AtStage(b, "read")

\* What is delivered is used up.
DeliveredIsGone ==
    delivered > 0 => delivered = 1 /\ ~Approved /\ \A k \in Poller : poll[k] = Idle

\* Chats that are quick, commands that succeed, and one poll at a time.
ChatsOnly == ~Slow /\ ~Faults /\ Web = {} /\ \A j, k \in Poller : j = k

\* What OnceStep carries along: the lock, and both of the above.
OnceInv == LockHeldByOneTap /\ SettledOnce /\ DeliveredIsGone

LEMMA OnceStep ==
    ASSUME ChatsOnly, QrTypeOK, OnceInv, QrNext
    PROVE  (SettledOnce /\ DeliveredIsGone)'
  <1> USE DEF OnceInv, Settled, SettledOnce, DeliveredIsGone, Approved, AtStage
  <1>1. ~Slow /\ ~Faults /\ Web = {} /\ \A j, k \in Poller : j = k
    BY DEF ChatsOnly
  <1>2. NoRow \notin Account /\ Pending \notin Account
    BY QrAssumption
  <1>3. CASE QrStart
    BY <1>2, <1>3 DEF QrStart
  <1>4. CASE ChallengeGoes
    BY <1>2, <1>4, QrAssumption DEF ChallengeGoes
  <1>5. CASE LockExpires
    BY <1>5 DEF LockExpires
  <1>6. ASSUME NEW b \in Bot, BotStep(b)
        PROVE  (SettledOnce /\ DeliveredIsGone)'
    <2>1. ASSUME NEW p \in Account, BotLock(b, p)
          PROVE  (SettledOnce /\ DeliveredIsGone)'
      BY <2>1, TapBegins DEF BotLock
    <2>2. CASE BotArm(b)
      BY <2>2, TapGoes DEF BotArm
    <2>3. CASE BotRead(b)
      <3>1. CASE GoesTo(b, "read")
        <4>1. challenge = Pending \/ GoesTo(b, "done")
          BY <2>3 DEF BotRead
        <4>2. CASE challenge = Pending
          BY <1>2, <2>3, <3>1, <4>2, TapGoes DEF BotRead
        <4>3. CASE GoesTo(b, "done")
          BY <2>3, <4>3, TapGoes DEF BotRead
        <4>4. QED
          BY <4>1, <4>2, <4>3
      <3>2. CASE GoesTo(b, "done")
        BY <2>3, <3>2, TapGoes DEF BotRead
      <3>3. QED
        BY <2>3, <3>1, <3>2 DEF BotRead
    <2>4. CASE BotSave(b)
      <3>1. ~Settled /\ started /\ challenge' = bot[b].as /\ bot[b] \in Tap
        BY <1>1, <2>4 DEF BotSave, QrTypeOK
      <3>2. challenge' # Pending
        BY <1>2, <3>1 DEF Tap
      <3>3. \A c \in Bot : bot'[c] # Idle => c = b
        BY <2>4, TapGoes DEF BotSave, LockHeldByOneTap
      <3>4. bot'[b].stage = "done"
        BY <2>4, TapGoes DEF BotSave
      <3>5. UNCHANGED <<started, poll, delivered>>
        BY <2>4 DEF BotSave
      <3>6. QED
        BY <3>1, <3>2, <3>3, <3>4, <3>5
    <2>5. CASE BotRelease(b)
      BY <2>5, TapIdles DEF BotRelease
    <2>6. CASE BotDies(b)
      BY <1>1, <2>6 DEF BotDies
    <2>7. QED
      BY <1>6, <2>1, <2>2, <2>3, <2>4, <2>5, <2>6 DEF BotStep, BotWorks
  <1>7. ASSUME NEW k \in Poller, PollStep(k)
        PROVE  (SettledOnce /\ DeliveredIsGone)'
    <2>1. CASE PollRead(k)
      BY <2>1 DEF PollRead, QrTypeOK
    <2>2. CASE PollDeliver(k)
      <3>1. ~(delivered > 0) /\ delivered = 0 /\ delivered' = 1
        BY <2>2 DEF PollDeliver, HandOut, QrTypeOK, Several
      <3>2. challenge' = NoRow /\ UNCHANGED <<started, bot>>
        BY <1>1, <2>2 DEF PollDeliver, HandOut
      <3>3. \A j \in Poller : poll'[j] = Idle
        BY <1>1, <2>2 DEF PollDeliver, HandOut, QrTypeOK
      <3>4. poll[k] # Idle
        BY <2>2 DEF PollDeliver, HandOut
      <3>5. QED
        BY <1>2, <3>1, <3>2, <3>3, <3>4, QrAssumption
    <2>3. CASE PollFails(k)
      BY <1>1, <2>3 DEF PollFails
    <2>4. QED
      BY <1>7, <2>1, <2>2, <2>3 DEF PollStep
  <1>8. QED
    BY <1>1, <1>3, <1>4, <1>5, <1>6, <1>7 DEF QrNext

LEMMA OnceHolds == ChatsOnly => (QrSpec => [](QrTypeOK /\ OnceInv))
  <1>1. QrInit => SettledOnce /\ DeliveredIsGone
    BY QrAssumption DEF QrInit, SettledOnce, Settled, DeliveredIsGone, Approved
  <1>2. SettledOnce /\ DeliveredIsGone /\ UNCHANGED qrVars => (SettledOnce /\ DeliveredIsGone)'
    BY DEF SettledOnce, Settled, DeliveredIsGone, Approved, AtStage, qrVars
  <1>3. ASSUME ChatsOnly
        PROVE  QrSpec => [](QrTypeOK /\ OnceInv)
    <2>1. QrTypeOK /\ OnceInv /\ [QrNext]_qrVars => (SettledOnce /\ DeliveredIsGone)'
      BY <1>2, <1>3, OnceStep DEF OnceInv
    <2>2. QrSpec => []LockHeldByOneTap
      BY <1>3, LockSerialises DEF ChatsOnly
    <2>3. QED
      BY <1>1, <2>1, <2>2, QrTypes, PTL DEF QrSpec, OnceInv
  <1>4. QED
    BY <1>3

\* Chats alone, and one poll at a time: one challenge signs in one desktop,
\* once, however many chats tap.
THEOREM OneDelivery == ChatsOnly => (QrSpec => []SingleDelivery)
  <1>1. QrTypeOK /\ OnceInv => SingleDelivery
    BY DEF QrTypeOK, Several, OnceInv, DeliveredIsGone, SingleDelivery
  <1>2. ASSUME ChatsOnly
        PROVE  QrSpec => []SingleDelivery
    <2>1. QrSpec => [](QrTypeOK /\ OnceInv)
      BY <1>2, OnceHolds
    <2>2. QED
      BY <1>1, <2>1, PTL
  <1>3. QED
    BY <1>2

\* Chats alone: the account the first approval names is the account the
\* desktop gets.
THEOREM FirstApprovalStands == ChatsOnly => (QrSpec => ApprovalNeverRewritten)
  <1>1. ASSUME ChatsOnly, QrTypeOK, OnceInv, QrNext, Approved, challenge' \in Account
        PROVE  challenge' = challenge
    <2>1. Web = {} /\ ~Faults
      BY <1>1 DEF ChatsOnly
    <2>2. CASE QrStart \/ ChallengeGoes \/ LockExpires
      BY <1>1, <2>2, QrAssumption DEF QrStart, ChallengeGoes, LockExpires
    <2>3. ASSUME NEW b \in Bot, BotStep(b)
          PROVE  challenge' = challenge
      BY <1>1, <2>3
      DEF BotStep, BotWorks, BotLock, BotArm, BotRead, BotSave, BotRelease, BotDies,
          OnceInv, SettledOnce, Settled
    <2>4. ASSUME NEW k \in Poller, PollStep(k)
          PROVE  challenge' = challenge
      BY <1>1, <2>1, <2>4, QrAssumption DEF PollStep, PollRead, PollDeliver, PollFails
    <2>5. QED
      BY <1>1, <2>1, <2>2, <2>3, <2>4 DEF QrNext
  <1>2. ASSUME ChatsOnly
        PROVE  QrSpec => ApprovalNeverRewritten
    <2>1. QrTypeOK /\ OnceInv /\ [QrNext]_qrVars
            => [Approved /\ challenge' \in Account => challenge' = challenge]_qrVars
      BY <1>1, <1>2
    <2>2. QrSpec => [](QrTypeOK /\ OnceInv)
      BY <1>2, OnceHolds
    <2>3. QED
      BY <2>1, <2>2, PTL DEF QrSpec, ApprovalNeverRewritten
  <1>3. QED
    BY <1>2
=============================================================================
