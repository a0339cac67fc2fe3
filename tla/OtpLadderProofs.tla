-------------------------- MODULE OtpLadderProofs --------------------------
(***************************************************************************)
(* What holds of OtpLadder for any number of concurrent handlers and any   *)
(* limits.                                                                 *)
(***************************************************************************)
EXTENDS OtpLadder, TLAPS

-----------------------------------------------------------------------------
(* Types *)

Verification(n) == [stage : VerStage, code : 1..n, burns : BOOLEAN]

LEMMA Limits == \A k \in Counter : Limit[k] \in Nat
  BY OtpAssumption DEF Limit, Counter

LEMMA OtpInitType == OtpInit => OtpTypeOK
  <1> SUFFICES ASSUME OtpInit PROVE OtpTypeOK
    OBVIOUS
  <1>1. CountersOK
    BY Limits DEF OtpInit, CountersOK, NoKey
  <1>2. wrong \in [1..Issues -> 0..GuessBound + 1] /\ used \in [1..Issues -> 0..Several]
    <2>1. 0 \in 0..GuessBound + 1 /\ 0 \in 0..Several
      BY OtpAssumption DEF GuessBound, Several
    <2>2. QED
      BY <2>1 DEF OtpInit
  <1>3. QED
    <2>1. issued = 0 /\ pending = 0 /\ failSince = 0 /\ Issues \in Nat
      BY OtpAssumption DEF OtpInit
    <2>2. issued \in 0..Issues /\ pending \in 0..issued /\ failSince \in 0..issued
      BY <2>1
    <2>3. QED
      BY <1>1, <1>2, <2>2 DEF OtpInit, OtpTypeOK

LEMMA IncrType ==
    ASSUME CountersOK, NEW k \in Counter, Incr(k)
    PROVE  CountersOK'
  <1>1. \A j \in Counter : j # k => count'[j] = count[j]
    BY DEF CountersOK, Incr
  <1>2. /\ count'[k].n = IF count[k].n > Limit[k] THEN count[k].n ELSE count[k].n + 1
        /\ count'[k].ttl = count[k].ttl
    BY DEF CountersOK, Incr
  <1>3. count' \in [Counter -> [n : Nat, ttl : BOOLEAN]]
    BY DEF CountersOK, Incr
  <1>4. count'[k].n <= Limit[k] + 1 /\ (count'[k].ttl => count'[k].n > 0)
    BY <1>2, Limits DEF CountersOK
  <1>5. QED
    BY <1>1, <1>3, <1>4 DEF CountersOK

LEMMA ArmType ==
    ASSUME CountersOK, pending \in 0..issued, failSince \in 0..issued,
           NEW k \in Counter, Arm(k)
    PROVE  CountersOK' /\ failSince' \in 0..issued
  <1>1. CASE count' = count
    BY <1>1 DEF CountersOK, Arm
  <1>2. CASE count' # count
    <2>1. count[k].n # 0 /\ count' = [count EXCEPT ![k].ttl = TRUE]
      BY <1>2 DEF Arm
    <2>2. \A j \in Counter : count'[j].n = count[j].n /\ (j # k => count'[j] = count[j])
      BY <2>1 DEF CountersOK
    <2>3. count' \in [Counter -> [n : Nat, ttl : BOOLEAN]]
      BY <2>1 DEF CountersOK
    <2>4. QED
      BY <2>1, <2>2, <2>3 DEF CountersOK, Arm
  <1>3. QED
    BY <1>1, <1>2

LEMMA DropType ==
    ASSUME CountersOK, NEW k \in Counter, count' = [count EXCEPT ![k] = NoKey]
    PROVE  CountersOK'
  BY Limits DEF CountersOK, NoKey

LEMMA RequestType ==
    ASSUME OtpTypeOK, NEW r \in Requester, RequestStep(r)
    PROVE  OtpTypeOK'
  <1> CountersOK /\ (UNCHANGED count => CountersOK')
    BY DEF OtpTypeOK, CountersOK
  <1> "abuse" \in Counter /\ "window" \in Counter
    BY DEF Counter
  <1>1. CASE ReqBegin(r)
    BY <1>1 DEF OtpTypeOK, ReqBegin, ReqGoes, keyVars, historyVars, ReqStage
  <1>2. CASE ReqPenalty(r)
    BY <1>2 DEF OtpTypeOK, ReqPenalty, ReqGoes, keyVars, historyVars, ReqStage
  <1>3. CASE ReqBan(r)
    BY <1>3 DEF OtpTypeOK, ReqBan, ReqGoes, historyVars, ReqStage
  <1>4. CASE ReqAbuse(r)
    BY <1>4, IncrType DEF OtpTypeOK, ReqAbuse, ReqGoes, historyVars, ReqStage
  <1>5. CASE ReqArms(r)
    BY <1>5, ArmType DEF OtpTypeOK, ReqArms, ReqGoes, historyVars, ReqStage
  <1>6. CASE ReqPunish(r)
    BY <1>6 DEF OtpTypeOK, ReqPunish, ReqGoes, historyVars, ReqStage
  <1>7. CASE ReqWindow(r)
    <2>1. CountersOK'
      BY <1>7, IncrType DEF OtpTypeOK, ReqWindow
    <2>2. granted' \in Nat
      <3>1. granted' = IF Answer("window") > ReqMax THEN granted ELSE granted + 1
        BY <1>7, Zenon DEF ReqWindow
      <3>2. QED
        BY <3>1 DEF OtpTypeOK
    <2>3. req' \in [Requester -> ReqStage \cup {Idle}]
      BY <1>7 DEF OtpTypeOK, ReqWindow, ReqGoes, ReqStage
    <2>4. QED
      BY <1>7, <2>1, <2>2, <2>3 DEF OtpTypeOK, ReqWindow
  <1>8. CASE ReqIssue(r)
    <2>1. issued' \in 0..Issues /\ issued' = issued + 1 /\ pending' = issued'
      BY <1>8, OtpAssumption DEF ReqIssue, OtpTypeOK
    <2>2. ver' \in [Verifier -> Verification(issued') \cup {Idle}]
      BY <1>8, <2>1, OtpAssumption DEF ReqIssue, OtpTypeOK, Verification
    <2>3. req' \in [Requester -> ReqStage \cup {Idle}]
      BY <1>8 DEF ReqIssue, ReqGoes, OtpTypeOK
    <2>4. pending' \in 0..issued' /\ failSince' \in 0..issued'
      BY <1>8, <2>1, OtpAssumption DEF ReqIssue, OtpTypeOK
    <2>5. QED
      BY <1>8, <2>1, <2>2, <2>3, <2>4 DEF ReqIssue, OtpTypeOK, Verification
  <1>9. CASE ReqDies(r)
    BY <1>9 DEF OtpTypeOK, ReqDies, ReqGoes, keyVars, historyVars, ReqStage
  <1>10. QED
    BY <1>1, <1>2, <1>3, <1>4, <1>5, <1>6, <1>7, <1>8, <1>9 DEF RequestStep, ReqWorks

LEMMA VerGoesType ==
    ASSUME OtpTypeOK, NEW v \in Verifier, ver[v] # Idle, NEW s \in VerStage,
           VerGoes(v, s) \/ VerEnds(v)
    PROVE  ver' \in [Verifier -> Verification(issued) \cup {Idle}]
  BY DEF OtpTypeOK, VerGoes, VerEnds, Verification

LEMMA VerifyType ==
    ASSUME OtpTypeOK, NEW v \in Verifier, VerifyStep(v)
    PROVE  OtpTypeOK'
  <1> CountersOK /\ (UNCHANGED count => CountersOK')
    BY DEF OtpTypeOK, CountersOK
  <1> "abuse" \in Counter /\ "fail" \in Counter
    BY DEF Counter
  <1>1. ASSUME NEW right \in BOOLEAN, VerRead(v, right)
        PROVE  OtpTypeOK'
    <2>1. pending \in 1..issued /\ pending \in 1..Issues
      <3>1. pending # 0 /\ pending \in 0..issued /\ issued \in 0..Issues /\ Issues \in Nat
        BY <1>1, OtpAssumption DEF OtpTypeOK, VerRead
      <3>2. \A i, j, n \in Nat : i # 0 /\ i \in 0..j /\ j \in 0..n => i \in 1..j /\ i \in 1..n
        OBVIOUS
      <3>3. QED
        BY <3>1, <3>2
    <2>2. ver' \in [Verifier -> Verification(issued) \cup {Idle}]
      BY <1>1, <2>1 DEF OtpTypeOK, VerRead, Verification, VerStage
    <2>3. wrong' \in [1..Issues -> 0..GuessBound + 1]
      <3>1. GuessBound \in Nat
        BY OtpAssumption DEF GuessBound
      <3>2. \A n \in 0..GuessBound + 1 :
              (IF n > GuessBound THEN n ELSE n + 1) \in 0..GuessBound + 1
        BY <3>1
      <3>3. QED
        BY <1>1, <2>1, <3>2 DEF OtpTypeOK, VerRead
    <2>4. QED
      BY <1>1, <2>2, <2>3 DEF OtpTypeOK, VerRead, keyVars, Verification
  <1>2. CASE VerConsume(v)
    <2>1. ver' \in [Verifier -> Verification(issued) \cup {Idle}]
      BY <1>2, VerGoesType DEF VerStage, VerConsume, At
    <2>2. used' \in [1..Issues -> 0..Several]
      <3>1. \A n \in 0..2 : (IF n = 2 THEN n ELSE n + 1) \in 0..2
        OBVIOUS
      <3>2. QED
        BY <1>2, <3>1 DEF VerConsume, LetIn, OtpTypeOK, Several
    <2>3. pending' \in 0..issued
      BY <1>2, OtpAssumption DEF VerConsume, OtpTypeOK
    <2>4. QED
      BY <1>2, <2>1, <2>2, <2>3 DEF VerConsume, OtpTypeOK, Verification
  <1>3. CASE VerFail(v)
    <2>1. ver' \in [Verifier -> Verification(issued) \cup {Idle}]
      <3>1. ver[v] \in Verification(issued)
        BY <1>3 DEF VerFail, At, OtpTypeOK, Verification
      <3>2. ASSUME NEW s \in VerStage, NEW b \in BOOLEAN
            PROVE  [ver[v] EXCEPT !.stage = s, !.burns = b] \in Verification(issued)
        BY <3>1 DEF Verification
      <3>3. CASE VerGoes(v, "abuse")
        BY <1>3, <3>3, VerGoesType DEF VerFail, At, VerStage
      <3>4. CASE ~VerGoes(v, "abuse")
        <4> DEFINE next == IF Answer("fail") = 1 THEN "fail armed" ELSE "abuse"
                   burnt == Answer("fail") >= GuessMax
        <4>1. next \in VerStage /\ burnt \in BOOLEAN
          BY DEF VerStage
        <4>2. ver' = [ver EXCEPT ![v] = [ver[v] EXCEPT !.stage = next, !.burns = burnt]]
          BY <1>3, <3>4 DEF VerFail
        <4> HIDE DEF next, burnt
        <4>3. QED
          BY <3>2, <4>1, <4>2 DEF OtpTypeOK, Verification
      <3>5. QED
        BY <3>3, <3>4
    <2>2. QED
      BY <1>3, <2>1, IncrType DEF VerFail, OtpTypeOK, historyVars, Verification
  <1>4. CASE VerAbuse(v)
    <2>1. ver' \in [Verifier -> Verification(issued) \cup {Idle}]
      BY <1>4, VerGoesType DEF VerStage, VerAbuse, At, Burns
    <2>2. QED
      BY <1>4, <2>1, IncrType DEF VerAbuse, OtpTypeOK, historyVars, Verification
  <1>5. CASE VerArms(v)
    <2>1. ver' \in [Verifier -> Verification(issued) \cup {Idle}]
      BY <1>5, VerGoesType DEF VerStage, VerArms, At, Burns
    <2>2. QED
      BY <1>5, <2>1, ArmType DEF VerArms, OtpTypeOK, historyVars, Verification
  <1>6. CASE VerBurn(v)
    <2>1. ver' \in [Verifier -> Verification(issued) \cup {Idle}]
      BY <1>6, VerGoesType DEF VerStage, VerBurn, At
    <2>2. pending' \in 0..issued
      BY <1>6, OtpAssumption DEF VerBurn, OtpTypeOK
    <2>3. QED
      BY <1>6, <2>1, <2>2 DEF VerBurn, OtpTypeOK, historyVars, Verification
  <1>7. CASE VerReset(v)
    <2>1. ver' \in [Verifier -> Verification(issued) \cup {Idle}]
      BY <1>7, VerGoesType DEF VerStage, VerReset, At
    <2>2. QED
      BY <1>7, <2>1, DropType DEF VerReset, OtpTypeOK, historyVars, Verification
  <1>8. CASE VerDies(v)
    <2>1. ver' \in [Verifier -> Verification(issued) \cup {Idle}]
      BY <1>8, VerGoesType DEF VerStage, VerDies
    <2>2. QED
      BY <1>8, <2>1 DEF VerDies, OtpTypeOK, keyVars, historyVars, Verification
  <1>9. QED
    BY <1>1, <1>2, <1>3, <1>4, <1>5, <1>6, <1>7, <1>8 DEF VerifyStep, VerWorks

LEMMA ExpiryType ==
    ASSUME OtpTypeOK, ExpiryStep
    PROVE  OtpTypeOK'
  <1> CountersOK /\ (UNCHANGED count => CountersOK')
    BY DEF OtpTypeOK, CountersOK
  <1>1. ASSUME NEW k \in Counter, CounterExpires(k)
        PROVE  OtpTypeOK'
    BY <1>1, DropType DEF CounterExpires, OtpTypeOK
  <1>2. CASE OtpExpires
    BY <1>2 DEF OtpExpires, OtpTypeOK, historyVars
  <1>3. CASE PenaltyExpires \/ BanExpires
    BY <1>3 DEF PenaltyExpires, BanExpires, OtpTypeOK, historyVars
  <1>4. QED
    BY <1>1, <1>2, <1>3 DEF ExpiryStep

\* Types: in particular a key that is gone has no expiry, and what is pending
\* was issued.
THEOREM OtpTypes == OtpSpec => []OtpTypeOK
  <1>1. OtpTypeOK /\ UNCHANGED otpVars => OtpTypeOK'
    BY DEF OtpTypeOK, CountersOK, otpVars
  <1>2. OtpTypeOK /\ OtpNext => OtpTypeOK'
    BY RequestType, VerifyType, ExpiryType DEF OtpNext
  <1>3. QED
    BY <1>1, <1>2, OtpInitType, PTL DEF OtpSpec

-----------------------------------------------------------------------------
(* The throttle *)

\* What the handlers rely on: every request let through has counted.
GrantsCounted == granted <= count["window"].n

GrantInv == OtpTypeOK /\ GrantsPerWindow /\ GrantsCounted

\* Only a first-come INCR lets a request through; only the expiry of the
\* window forgets the requests let through.
LEMMA GrantStep ==
    ASSUME GrantInv, OtpNext
    PROVE  (GrantsPerWindow /\ GrantsCounted)'
  <1> "window" \in Counter /\ "abuse" \in Counter /\ "fail" \in Counter
    BY DEF Counter
  <1> count["window"].n \in Nat /\ granted \in Nat /\ ReqMax \in Nat
    BY OtpAssumption DEF GrantInv, OtpTypeOK, CountersOK
  <1> USE DEF GrantInv, GrantsPerWindow, GrantsCounted
  <1>1. ASSUME NEW k \in Counter, k # "window", Incr(k) \/ Arm(k) \/ count' = [count EXCEPT ![k] = NoKey]
        PROVE  count'["window"].n = count["window"].n
    BY <1>1 DEF Incr, Arm, OtpTypeOK, CountersOK
  <1>2. ASSUME Arm("window")
        PROVE  count'["window"].n = count["window"].n
    BY <1>2 DEF Arm, OtpTypeOK, CountersOK
  <1>3. ASSUME NEW r \in Requester, RequestStep(r)
        PROVE  (GrantsPerWindow /\ GrantsCounted)'
    <2>1. CASE ReqWindow(r)
      <3>1. count'["window"].n = IF count["window"].n > ReqMax THEN count["window"].n
                                                              ELSE count["window"].n + 1
        BY <2>1 DEF ReqWindow, Incr, Limit, OtpTypeOK, CountersOK
      <3>2. granted' = IF Answer("window") > ReqMax THEN granted ELSE granted + 1
        BY <2>1, Zenon DEF ReqWindow
      <3>3. QED
        BY <3>1, <3>2 DEF Answer
    <2>2. CASE ReqAbuse(r)
      BY <2>2, <1>1 DEF ReqAbuse, historyVars
    <2>3. CASE ReqArms(r)
      BY <2>3, <1>1, <1>2 DEF ReqArms, historyVars
    <2>4. CASE ReqBegin(r) \/ ReqPenalty(r) \/ ReqBan(r) \/ ReqPunish(r) \/ ReqIssue(r) \/ ReqDies(r)
      BY <2>4 DEF ReqBegin, ReqPenalty, ReqBan, ReqPunish, ReqIssue, ReqDies, keyVars, historyVars
    <2>5. QED
      BY <1>3, <2>1, <2>2, <2>3, <2>4 DEF RequestStep, ReqWorks
  <1>4. ASSUME NEW v \in Verifier, VerifyStep(v)
        PROVE  (GrantsPerWindow /\ GrantsCounted)'
    <2>1. CASE VerFail(v) \/ VerAbuse(v) \/ VerArms(v) \/ VerReset(v)
      BY <2>1, <1>1 DEF VerFail, VerAbuse, VerArms, VerReset, historyVars
    <2>2. CASE (\E right \in BOOLEAN : VerRead(v, right)) \/ VerConsume(v) \/ VerBurn(v) \/ VerDies(v)
      BY <2>2 DEF VerRead, VerConsume, VerBurn, VerDies, keyVars, historyVars
    <2>3. QED
      BY <1>4, <2>1, <2>2 DEF VerifyStep, VerWorks
  <1>5. ASSUME NEW k \in Counter, CounterExpires(k)
        PROVE  (GrantsPerWindow /\ GrantsCounted)'
    <2>1. CASE k = "window"
      BY <1>5, <2>1 DEF CounterExpires, NoKey, OtpTypeOK, CountersOK
    <2>2. CASE k # "window"
      BY <1>5, <2>2, <1>1 DEF CounterExpires
    <2>3. QED
      BY <2>1, <2>2
  <1>6. CASE OtpExpires \/ PenaltyExpires \/ BanExpires
    BY <1>6 DEF OtpExpires, PenaltyExpires, BanExpires, historyVars
  <1>7. QED
    BY <1>3, <1>4, <1>5, <1>6 DEF OtpNext, ExpiryStep

\* For any number of racing requests, with handlers that die and commands that
\* fail: a window lets no more than ReqMax of them through.
THEOREM ThrottleHolds == OtpSpec => []GrantsPerWindow
  <1>1. OtpInit => GrantsPerWindow /\ GrantsCounted
    BY OtpAssumption DEF OtpInit, GrantsPerWindow, GrantsCounted, NoKey, Counter
  <1>2. GrantInv /\ UNCHANGED otpVars => (GrantsPerWindow /\ GrantsCounted)'
    BY DEF GrantInv, otpVars, GrantsPerWindow, GrantsCounted
  <1>3. QED
    BY <1>1, <1>2, OtpTypes, GrantStep, PTL DEF OtpSpec, GrantInv

-----------------------------------------------------------------------------
(* Use of a code *)

\* A code that is still to be issued has not let anybody in.
UsedAreIssued == \A c \in 1..Issues : used[c] > 0 => c <= issued

LEMMA UsedStep ==
    ASSUME ~Faults, OtpTypeOK, UsedIsGone, UsedAreIssued, OtpNext
    PROVE  (UsedIsGone /\ UsedAreIssued)'
  <1> USE DEF UsedIsGone, UsedAreIssued
  <1> issued \in 0..Issues /\ Issues \in Nat /\ pending \in 0..issued
    BY OtpAssumption DEF OtpTypeOK
  <1>1. ASSUME UNCHANGED <<pending, issued, used>>
        PROVE  (UsedIsGone /\ UsedAreIssued)'
    BY <1>1
  <1>2. ASSUME NEW r \in Requester, RequestStep(r)
        PROVE  (UsedIsGone /\ UsedAreIssued)'
    <2>1. CASE ReqIssue(r)
      <3>1. issued < Issues /\ issued' = issued + 1 /\ pending' = issued + 1 /\ used' = used
        BY <2>1 DEF ReqIssue
      <3>2. \A c \in 1..Issues : used[c] > 0 => c <= issued /\ c # issued + 1
        OBVIOUS
      <3>3. QED
        BY <3>1, <3>2
    <2>2. CASE ~ReqIssue(r)
      <3>1. UNCHANGED <<pending, issued, used>>
        BY <1>2, <2>2
        DEF RequestStep, ReqWorks, ReqBegin, ReqPenalty, ReqBan, ReqAbuse, ReqArms, ReqPunish,
            ReqWindow, ReqDies, keyVars, historyVars
      <3>2. QED
        BY <3>1, <1>1
    <2>3. QED
      BY <2>1, <2>2
  <1>3. ASSUME NEW v \in Verifier, VerifyStep(v)
        PROVE  (UsedIsGone /\ UsedAreIssued)'
    <2>1. CASE VerConsume(v)
      <3>1. ver[v].code \in 1..issued
        BY <2>1 DEF VerConsume, At, OtpTypeOK
      <3>2. \A c \in 1..Issues : c # ver[v].code => used'[c] = used[c]
        BY <2>1 DEF VerConsume, LetIn, OtpTypeOK
      <3>3. pending' = 0 /\ issued' = issued
        BY <2>1 DEF VerConsume
      <3>4. QED
        BY <3>1, <3>2, <3>3
    <2>2. CASE VerBurn(v)
      BY <2>2 DEF VerBurn, historyVars
    <2>3. CASE ~(VerConsume(v) \/ VerBurn(v))
      <3>1. UNCHANGED <<pending, issued, used>>
        BY <1>3, <2>3
        DEF VerifyStep, VerWorks, VerRead, VerFail, VerAbuse, VerArms, VerReset, VerDies,
            keyVars, historyVars
      <3>2. QED
        BY <3>1, <1>1
    <2>4. QED
      BY <2>1, <2>2, <2>3
  <1>4. CASE ExpiryStep
    <2>1. (pending' = pending \/ pending' = 0) /\ UNCHANGED <<issued, used>>
      BY <1>4 DEF ExpiryStep, CounterExpires, OtpExpires, PenaltyExpires, BanExpires, historyVars
    <2>2. QED
      BY <2>1
  <1>5. QED
    BY <1>2, <1>3, <1>4 DEF OtpNext

\* Unless Valkey fails, a code that has let somebody in is gone for all
\* verifications that have not read it yet.
THEOREM SpentCodesAreGone == ~Faults => (OtpSpec => []UsedIsGone)
  <1>1. OtpInit => UsedIsGone /\ UsedAreIssued
    BY OtpAssumption DEF OtpInit, UsedIsGone, UsedAreIssued
  <1>2. UsedIsGone /\ UsedAreIssued /\ UNCHANGED otpVars => (UsedIsGone /\ UsedAreIssued)'
    BY DEF UsedIsGone, UsedAreIssued, otpVars
  <1>3. ASSUME ~Faults
        PROVE  OtpSpec => []UsedIsGone
    <2>1. OtpTypeOK /\ UsedIsGone /\ UsedAreIssued /\ [OtpNext]_otpVars
             => (UsedIsGone /\ UsedAreIssued)'
      BY <1>2, <1>3, UsedStep
    <2>2. QED
      BY <1>1, <2>1, OtpTypes, PTL DEF OtpSpec
  <1>4. QED
    BY <1>3

-----------------------------------------------------------------------------
(* Guesses, verified one at a time *)

OneAtATime == \A v, w \in Verifier : v = w

Fails == count["fail"].n

\* A verification that does away with the code before it looks at another.
Burning(v) == ver[v] # Idle /\ (ver[v].burns \/ ver[v].stage = "reset")

\* The wrong guesses against the pending code that have been counted.
Tally == IF \E v \in Verifier : At(v, "wrong") /\ ver[v].code = pending
         THEN wrong[pending] - 1 ELSE wrong[pending]

\* A counter armed under an earlier code has counted more than the guesses
\* against this one.  It may go once, and no other that this code arms will.
TallyBounded ==
    /\ Fails = 0 => Tally <= GuessMax - 2
    /\ Fails > 0 /\ count["fail"].ttl /\ failSince # pending => Tally <= Fails - 1
    /\ Fails > 0 /\ (failSince = pending \/ ~count["fail"].ttl) => Tally <= GuessMax - 2 + Fails

\* Where the verification stands, and what it knows of the counter.
StagesFit ==
    \A v \in Verifier :
        /\ At(v, "right") \/ At(v, "wrong") => ~ver[v].burns
        /\ At(v, "fail armed") => Fails = 1 /\ ~count["fail"].ttl /\ ~ver[v].burns
        /\ At(v, "burn") => ver[v].burns
        /\ At(v, "reset") /\ pending # 0 => wrong[pending] = 0

GuessInv ==
    /\ \A c \in 1..Issues : wrong[c] <= GuessBound /\ (c > issued => wrong[c] = 0)
    /\ StagesFit
    /\ Fails > 0 /\ ~count["fail"].ttl => \E v \in Verifier : At(v, "fail armed")
    /\ (\A v \in Verifier : ~Burning(v)) => Fails < GuessMax /\ (pending # 0 => TallyBounded)

LEMMA AloneIs ==
    ASSUME OneAtATime, NEW v \in Verifier
    PROVE  /\ Tally = IF At(v, "wrong") /\ ver[v].code = pending THEN wrong[pending] - 1 ELSE wrong[pending]
           /\ (\A w \in Verifier : ~Burning(w)) <=> ~Burning(v)
           /\ (\E w \in Verifier : At(w, "fail armed")) <=> At(v, "fail armed")
  <1>1. \A w \in Verifier : w = v
    BY DEF OneAtATime
  <1>2. QED
    BY <1>1 DEF Tally

LEMMA AloneWillBe ==
    ASSUME OneAtATime, NEW v \in Verifier
    PROVE  /\ Tally' = IF At(v, "wrong")' /\ ver'[v].code = pending' THEN wrong'[pending'] - 1 ELSE wrong'[pending']
           /\ (\A w \in Verifier : ~Burning(w)') <=> ~Burning(v)'
           /\ (\E w \in Verifier : At(w, "fail armed")') <=> At(v, "fail armed")'
  <1>1. \A w \in Verifier : w = v
    BY DEF OneAtATime
  <1>2. QED
    BY <1>1 DEF Tally

LEMMA GuessTypes ==
    ASSUME OtpTypeOK
    PROVE  /\ Fails \in Nat /\ count["fail"].ttl \in BOOLEAN /\ (count["fail"].ttl => Fails > 0)
           /\ GuessMax \in Nat /\ GuessMax >= 2 /\ GuessBound = 2 * GuessMax - 2 /\ Issues \in Nat
           /\ issued \in 0..Issues /\ pending \in 0..issued /\ failSince \in 0..issued
           /\ wrong \in [1..Issues -> Nat]
           /\ ver \in [Verifier -> Verification(issued) \cup {Idle}]
  <1>1. count["fail"].n \in Nat /\ count["fail"].ttl \in BOOLEAN /\ (count["fail"].ttl => count["fail"].n > 0)
    BY DEF OtpTypeOK, CountersOK, Counter
  <1>2. GuessBound \in Nat
    BY OtpAssumption DEF GuessBound
  <1>3. wrong \in [1..Issues -> Nat]
    BY <1>2 DEF OtpTypeOK
  <1>4. QED
    BY <1>1, <1>3, OtpAssumption DEF OtpTypeOK, Fails, GuessBound, Verification

\* The numbers alone, for the steps that only count.
LEMMA GuessNumbers ==
    ASSUME OtpTypeOK
    PROVE  /\ Fails \in Nat /\ count["fail"].ttl \in BOOLEAN /\ (count["fail"].ttl => Fails > 0)
           /\ GuessMax \in Nat /\ GuessMax >= 2 /\ GuessBound = 2 * GuessMax - 2
           /\ issued \in Nat /\ Issues \in Nat /\ issued <= Issues /\ pending \in Nat /\ pending <= issued
           /\ \A c \in 1..Issues : wrong[c] \in Nat
  <1>1. issued \in Nat /\ Issues \in Nat /\ issued <= Issues /\ pending \in Nat /\ pending <= issued
    BY GuessTypes
  <1>2. \A c \in 1..Issues : wrong[c] \in Nat
    BY GuessTypes
  <1>3. QED
    BY <1>1, <1>2, GuessTypes

\* One guess more against a code leaves the other codes alone.
LEMMA OneGuessMore ==
    ASSUME OtpTypeOK, pending \in 1..Issues, wrong[pending] <= GuessBound,
           wrong' = [wrong EXCEPT ![pending] = IF @ > GuessBound THEN @ ELSE @ + 1]
    PROVE  wrong'[pending] = wrong[pending] + 1 /\ \A c \in 1..Issues : c # pending => wrong'[c] = wrong[c]
  <1>1. wrong \in [1..Issues -> Nat] /\ wrong[pending] \in Nat
    BY GuessTypes
  <1>2. ~(wrong[pending] > GuessBound)
    BY <1>1, GuessNumbers
  <1>3. wrong' = [wrong EXCEPT ![pending] = wrong[pending] + 1]
    BY <1>2
  <1>4. QED
    BY <1>1, <1>3

\* What the handlers of requests, and most expiries, leave alone.
LEMMA GuessesLeft ==
    ASSUME GuessInv, OtpTypeOK, UNCHANGED <<pending, ver, wrong, issued, failSince>>, count'["fail"] = count["fail"]
    PROVE  GuessInv'
  <1>1. \A v : (Burning(v)' <=> Burning(v)) /\ \A st : At(v, st)' <=> At(v, st)
    BY DEF Burning, At
  <1>2. Fails' = Fails /\ Tally' = Tally
    BY <1>1 DEF Fails, Tally
  <1>3. StagesFit' <=> StagesFit
    BY <1>1, <1>2 DEF StagesFit
  <1>4. TallyBounded' <=> TallyBounded
    BY <1>2 DEF TallyBounded
  <1>5. QED
    BY <1>1, <1>2, <1>3, <1>4 DEF GuessInv

\* A new code has no guesses against it, and none that are not counted yet.
LEMMA GuessesOfIssue ==
    ASSUME GuessInv, OtpTypeOK, NEW r \in Requester, ReqIssue(r)
    PROVE  GuessInv'
  <1>1. /\ issued < Issues /\ issued' = issued + 1 /\ pending' = issued + 1
        /\ UNCHANGED <<count, failSince, ver, wrong>>
    BY DEF ReqIssue
  <1>2. \A v : (Burning(v)' <=> Burning(v)) /\ \A st : At(v, st)' <=> At(v, st)
    BY <1>1 DEF Burning, At
  <1>3. Fails' = Fails /\ wrong'[pending'] = 0 /\ pending' # 0 /\ failSince # pending'
    <2>1. issued + 1 \in 1..Issues /\ issued + 1 > issued /\ failSince # issued + 1 /\ issued + 1 # 0
      BY <1>1, GuessTypes
    <2>2. QED
      BY <1>1, <2>1 DEF Fails, GuessInv
  <1>4. \A v \in Verifier : At(v, "wrong") => ver[v].code # pending'
    <2>1. \A v \in Verifier : At(v, "wrong") => ver[v].code \in 1..issued
      BY GuessTypes DEF At, Verification
    <2>2. QED
      BY <1>1, <2>1, GuessTypes
  <1>5. Tally' = 0
    <2>1. ~\E v \in Verifier : At(v, "wrong")' /\ ver'[v].code = pending'
      BY <1>1, <1>2, <1>4
    <2>2. QED
      BY <1>3, <2>1 DEF Tally
  <1>6. TallyBounded'
    BY <1>1, <1>3, <1>5, GuessTypes DEF TallyBounded
  <1>7. StagesFit'
    BY <1>1, <1>2, <1>3 DEF StagesFit, GuessInv
  <1>8. \A c \in 1..Issues : wrong'[c] <= GuessBound /\ (c > issued' => wrong'[c] = 0)
    <2>1. issued \in Nat /\ Issues \in Nat
      BY GuessTypes
    <2>2. \A c \in 1..Issues : c > issued + 1 => c > issued
      BY <2>1
    <2>3. QED
      BY <1>1, <2>2 DEF GuessInv
  <1>9. QED
    BY <1>1, <1>2, <1>3, <1>6, <1>7, <1>8 DEF GuessInv

\* The code is gone.
LEMMA GuessesOfNone ==
    ASSUME GuessInv, OtpTypeOK, OtpExpires
    PROVE  GuessInv'
  <1>1. pending' = 0 /\ UNCHANGED <<count, failSince, ver, wrong, issued>>
    BY DEF OtpExpires, historyVars
  <1>2. \A v : (Burning(v)' <=> Burning(v)) /\ \A st : At(v, st)' <=> At(v, st)
    BY <1>1 DEF Burning, At
  <1>3. Fails' = Fails
    BY <1>1 DEF Fails
  <1>4. StagesFit'
    BY <1>1, <1>2, <1>3 DEF StagesFit, GuessInv
  <1>5. QED
    BY <1>1, <1>2, <1>3, <1>4 DEF GuessInv

\* The counter is gone: not one that was armed under the pending code.
LEMMA GuessesOfExpiry ==
    ASSUME GuessInv, OtpTypeOK, NEW k \in Counter, CounterExpires(k)
    PROVE  GuessInv'
  <1>1. UNCHANGED <<pending, failSince, ver, wrong, issued>> /\ count' = [count EXCEPT ![k] = NoKey]
    BY DEF CounterExpires
  <1>2. CASE k # "fail"
    <2>1. count'["fail"] = count["fail"]
      BY <1>1, <1>2 DEF OtpTypeOK, CountersOK, Counter
    <2>2. QED
      BY <1>1, <2>1, GuessesLeft
  <1>3. CASE k = "fail"
    <2>1. /\ Fails' = 0 /\ count'["fail"].ttl = FALSE /\ count["fail"].ttl /\ Fails > 0
          /\ pending = 0 \/ pending # failSince
      BY <1>1, <1>3, GuessTypes DEF OtpTypeOK, CountersOK, Counter, NoKey, Fails, CounterExpires
    <2>2. \A v : (Burning(v)' <=> Burning(v)) /\ \A st : At(v, st)' <=> At(v, st)
      BY <1>1 DEF Burning, At
    <2>3. Tally' = Tally
      BY <1>1, <2>2 DEF Tally
    <2>4. StagesFit'
      BY <1>1, <2>1, <2>2 DEF StagesFit, GuessInv
    <2>5. ASSUME \A v \in Verifier : ~Burning(v), pending # 0 PROVE TallyBounded'
      <3>1. Fails < GuessMax /\ Tally <= Fails - 1
        BY <2>1, <2>5 DEF GuessInv, TallyBounded
      <3>2. Tally \in Int
        <4>1. wrong[pending] \in Nat
          BY <2>5, GuessTypes
        <4>2. QED
          BY <4>1 DEF Tally
      <3>3. Tally' <= GuessMax - 2
        BY <2>3, <3>1, <3>2, GuessTypes
      <3>4. QED
        BY <2>1, <3>3 DEF TallyBounded
    <2>6. Fails' < GuessMax
      BY <2>1, GuessTypes
    <2>7. QED
      BY <1>1, <2>1, <2>2, <2>4, <2>5, <2>6 DEF GuessInv
  <1>4. QED
    BY <1>2, <1>3

\* What the step of the one verification must still show.
LEMMA GuessesOfStep ==
    ASSUME OneAtATime, GuessInv, OtpTypeOK, NEW v \in Verifier, issued' = issued,
           \A c \in 1..Issues : wrong'[c] <= GuessBound /\ (c > issued => wrong'[c] = 0),
           At(v, "right")' \/ At(v, "wrong")' => ~ver'[v].burns,
           At(v, "fail armed")' => Fails' = 1 /\ ~count'["fail"].ttl /\ ~ver'[v].burns,
           At(v, "burn")' => ver'[v].burns,
           At(v, "reset")' /\ pending' # 0 => wrong'[pending'] = 0,
           Fails' > 0 /\ ~count'["fail"].ttl => At(v, "fail armed")',
           ~Burning(v)' => Fails' < GuessMax /\ (pending' # 0 => TallyBounded')
    PROVE  GuessInv'
  <1>1. \A w \in Verifier : w = v
    BY DEF OneAtATime
  <1>2. StagesFit'
    BY <1>1 DEF StagesFit
  <1>3. QED
    BY <1>1, <1>2 DEF GuessInv

\* Where a verification is that has gone to another stage, or is over.
LEMMA VerMoved ==
    ASSUME OtpTypeOK, NEW v \in Verifier, ver[v] # Idle, NEW stage \in VerStage, VerGoes(v, stage)
    PROVE  /\ ver'[v] # Idle /\ ver'[v].stage = stage /\ ver'[v].burns = ver[v].burns
           /\ \A s : At(v, s)' <=> s = stage
           /\ Burning(v)' <=> ver[v].burns \/ stage = "reset"
  <1>1. ver[v] \in [stage : VerStage, code : Nat, burns : BOOLEAN]
    <2>1. ver[v] \in Verification(issued)
      BY GuessTypes
    <2>2. \A c \in 1..issued : c \in Nat
      BY GuessNumbers
    <2>3. QED
      BY <2>1, <2>2 DEF Verification
  <1>2. ver'[v] = [ver[v] EXCEPT !.stage = stage]
    BY GuessTypes DEF VerGoes
  <1>3. ver'[v] \in [stage : VerStage, code : Nat, burns : BOOLEAN]
    BY <1>1, <1>2
  <1>4. ver'[v].stage = stage /\ ver'[v].burns = ver[v].burns
    BY <1>1, <1>2
  <1>5. ver'[v] # Idle
    BY <1>3, IdleAssumption
  <1>6. QED
    BY <1>4, <1>5 DEF At, Burning

LEMMA VerEnded ==
    ASSUME OtpTypeOK, NEW v \in Verifier, VerEnds(v)
    PROVE  ver'[v] = Idle /\ ~Burning(v)' /\ \A s : ~At(v, s)'
  <1>1. ver'[v] = Idle
    BY GuessTypes DEF VerEnds
  <1>2. QED
    BY <1>1 DEF At, Burning

LEMMA GuessesOfRead ==
    ASSUME OneAtATime, GuessInv, OtpTypeOK, OtpTypeOK', NEW v \in Verifier, NEW right \in BOOLEAN, VerRead(v, right)
    PROVE  GuessInv'
  <1>1. /\ ver[v] = Idle /\ pending # 0 /\ UNCHANGED <<pending, count, failSince, issued>>
        /\ ver'[v] = [stage |-> IF right THEN "right" ELSE "wrong", code |-> pending, burns |-> FALSE]
        /\ wrong' = IF right THEN wrong
                    ELSE [wrong EXCEPT ![pending] = IF @ > GuessBound THEN @ ELSE @ + 1]
    BY GuessTypes DEF VerRead, keyVars
  <1>0. ~Burning(v) /\ ~At(v, "wrong") /\ ~At(v, "fail armed")
    BY <1>1 DEF Burning, At
  <1>2. pending \in 1..Issues /\ wrong[pending] \in Nat
    BY <1>1, GuessTypes
  <1>3. /\ Tally = wrong[pending] /\ Fails < GuessMax /\ TallyBounded
        /\ Fails > 0 => count["fail"].ttl
    BY <1>0, <1>1, AloneIs DEF GuessInv
  <1>4. wrong[pending] + 1 <= GuessBound
    <2>1. wrong[pending] <= 2 * GuessMax - 3
      <3>1. Fails \in Nat /\ GuessMax \in Nat /\ GuessMax >= 2
        BY GuessNumbers
      <3>2. CASE Fails = 0
        BY <1>2, <1>3, <3>1, <3>2 DEF TallyBounded
      <3>3. CASE Fails > 0 /\ failSince = pending
        BY <1>2, <1>3, <3>1, <3>3 DEF TallyBounded
      <3>4. CASE Fails > 0 /\ failSince # pending
        BY <1>2, <1>3, <3>1, <3>4 DEF TallyBounded
      <3>5. QED
        BY <3>1, <3>2, <3>3, <3>4
    <2>2. QED
      BY <1>2, <2>1, GuessNumbers
  <1>5. /\ \A c \in 1..Issues : c # pending => wrong'[c] = wrong[c]
        /\ wrong'[pending] = IF right THEN wrong[pending] ELSE wrong[pending] + 1
    <2>1. CASE right
      BY <1>1, <2>1
    <2>2. CASE ~right
      <3>1. wrong[pending] <= GuessBound
        BY <1>2, <1>4, GuessNumbers
      <3>2. QED
        <4>1. wrong' = [wrong EXCEPT ![pending] = IF @ > GuessBound THEN @ ELSE @ + 1]
          BY <1>1, <2>2
        <4>2. wrong'[pending] = wrong[pending] + 1 /\ \A c \in 1..Issues : c # pending => wrong'[c] = wrong[c]
          BY <1>2, <3>1, <4>1, OneGuessMore
        <4>3. QED
          BY <2>2, <4>2
    <2>3. QED
      BY <2>1, <2>2
  <1>6. \A c \in 1..Issues : wrong'[c] <= GuessBound /\ (c > issued => wrong'[c] = 0)
    <2>1. ~(pending > issued)
      BY GuessNumbers
    <2>2. wrong'[pending] <= GuessBound
      BY <1>2, <1>4, <1>5 DEF GuessInv
    <2>3. QED
      BY <1>5, <2>1, <2>2 DEF GuessInv
  <1>7. Tally' = Tally /\ Fails' = Fails
    <2>1. ver'[v] # Idle
      <3>1. pending \in Nat
        BY GuessNumbers
      <3>2. ver'[v] \in [stage : VerStage, code : Nat, burns : BOOLEAN]
        BY <1>1, <3>1 DEF VerStage
      <3>3. QED
        BY <3>2, IdleAssumption
    <2>2. At(v, "wrong")' /\ ver'[v].code = pending' <=> ~right
      BY <1>1, <2>1 DEF At
    <2>3. Tally' = IF ~right THEN wrong'[pending'] - 1 ELSE wrong'[pending']
      BY <2>2, AloneWillBe
    <2>4. pending' = pending /\ Fails' = Fails
      BY <1>1 DEF Fails
    <2>5. wrong'[pending] = IF right THEN wrong[pending] ELSE wrong[pending] + 1
      BY <1>5
    <2>6. QED
      BY <1>2, <1>3, <2>3, <2>4, <2>5
  <1>8. TallyBounded'
    BY <1>1, <1>3, <1>7 DEF TallyBounded
  <1>9. /\ ~At(v, "fail armed")' /\ ~At(v, "burn")' /\ ~At(v, "reset")' /\ ~ver'[v].burns
    BY <1>1 DEF At
  <1>10. QED
    BY <1>1, <1>3, <1>6, <1>7, <1>8, <1>9, GuessesOfStep

LEMMA GuessesOfFail ==
    ASSUME OneAtATime, GuessInv, OtpTypeOK, OtpTypeOK', NEW v \in Verifier, VerFail(v), ~Faults
    PROVE  GuessInv'
  <1> DEFINE next == IF Answer("fail") = 1 THEN "fail armed" ELSE "abuse"
             burnt == Answer("fail") >= GuessMax
  <1>1. /\ At(v, "wrong") /\ Incr("fail")
        /\ UNCHANGED <<pending, failSince, issued, wrong>>
        /\ ver' = [ver EXCEPT ![v].stage = next, ![v].burns = burnt]
    BY DEF VerFail, historyVars
  <1>2. ver[v] # Idle /\ ver[v] \in Verification(issued) /\ ver[v].stage = "wrong" /\ ~ver[v].burns
    BY <1>1, GuessTypes DEF At, GuessInv, StagesFit
  <1>3. ~Burning(v) /\ ~At(v, "fail armed")
    BY <1>2 DEF Burning, At
  <1>4. /\ Fails < GuessMax /\ (pending # 0 => TallyBounded) /\ (Fails > 0 => count["fail"].ttl)
        /\ Tally = IF ver[v].code = pending THEN wrong[pending] - 1 ELSE wrong[pending]
    BY <1>1, <1>3, AloneIs DEF GuessInv
  <1>5. Fails' = Fails + 1 /\ count'["fail"].ttl = count["fail"].ttl
    <2>1. ~(count["fail"].n > GuessMax)
      BY <1>4, GuessNumbers DEF Fails
    <2>2. Limit["fail"] = GuessMax
      BY DEF Limit
    <2>3. count' = [count EXCEPT !["fail"].n = count["fail"].n + 1]
      BY <1>1, <2>1, <2>2 DEF Incr
    <2>4. count \in [Counter -> [n : Nat, ttl : BOOLEAN]] /\ "fail" \in Counter
      BY DEF OtpTypeOK, CountersOK, Counter
    <2>5. QED
      BY <2>3, <2>4 DEF Fails
  <1>6. next = (IF Fails = 0 THEN "fail armed" ELSE "abuse") /\ (burnt <=> Fails + 1 >= GuessMax)
    <2>1. Answer("fail") = Fails + 1 /\ (Fails + 1 = 1 <=> Fails = 0)
      BY GuessNumbers DEF Answer, Fails
    <2>2. QED
      BY <2>1
  <1> HIDE DEF next, burnt
  <1>7. ver'[v] = [ver[v] EXCEPT !.stage = next, !.burns = burnt]
    BY <1>1, GuessTypes
  <1>8. ver'[v].stage = next /\ (ver'[v].burns <=> burnt) /\ ver'[v] # Idle
    <2>1. ver'[v].stage = next /\ ver'[v].burns = burnt
      BY <1>2, <1>7 DEF Verification
    <2>2. ver'[v] \in [stage : VerStage, code : Nat, burns : BOOLEAN]
      <3>1. next \in VerStage /\ burnt \in BOOLEAN
        <4>1. next \in VerStage
          BY <1>6 DEF VerStage
        <4>2. burnt \in BOOLEAN
          BY DEF burnt
        <4>3. QED
          BY <4>1, <4>2
      <3>2. ver[v] \in [stage : VerStage, code : Nat, burns : BOOLEAN]
        <4>1. \A c \in 1..issued : c \in Nat
          BY GuessNumbers
        <4>2. QED
          BY <1>2, <4>1 DEF Verification
      <3>3. QED
        BY <1>7, <3>1, <3>2
    <2>3. QED
      BY <2>1, <2>2, IdleAssumption
  <1>9. ~At(v, "wrong")' /\ ~At(v, "right")' /\ ~At(v, "burn")' /\ ~At(v, "reset")' /\ (At(v, "fail armed")' <=> Fails = 0)
    BY <1>6, <1>8 DEF At
  <1>10. Tally' = wrong[pending]
    <2>1. ~At(v, "wrong")'
      BY <1>9
    <2>2. Tally' = wrong'[pending']
      BY <2>1, AloneWillBe
    <2>3. wrong' = wrong /\ pending' = pending
      BY <1>1
    <2>4. QED
      BY <2>2, <2>3
  <1>11. ~Burning(v)' => Fails' < GuessMax
    <2>1. Fails \in Nat /\ GuessMax \in Nat
      BY GuessNumbers
    <2>2. ~Burning(v)' => ~burnt
      BY <1>8 DEF Burning
    <2>3. burnt <=> Fails + 1 >= GuessMax
      BY <1>6
    <2>4. ~burnt => Fails' < GuessMax
      BY <1>5, <2>1, <2>3
    <2>5. QED
      BY <2>2, <2>4
  <1>12. pending # 0 => Tally' <= Tally + 1 /\ Tally \in Int /\ Tally' \in Int
    <2>1. pending # 0 => wrong[pending] \in Nat
      BY GuessTypes
    <2>2. QED
      BY <1>4, <1>10, <2>1
  <1>13. pending # 0 => TallyBounded'
    <2>1. Fails \in Nat /\ GuessMax \in Nat
      BY GuessNumbers
    <2>2. failSince' = failSince /\ pending' = pending
      BY <1>1
    <2>3. SUFFICES ASSUME pending # 0 PROVE TallyBounded'
      OBVIOUS
    <2>4. TallyBounded
      BY <1>4, <2>3
    <2>5. Fails = 0 => ~count["fail"].ttl
      BY GuessNumbers
    <2>6. Fails > 0 => count["fail"].ttl
      BY <1>4
    <2>7. QED
      BY <1>5, <1>12, <2>1, <2>2, <2>3, <2>4, <2>5, <2>6 DEF TallyBounded
  <1>14. At(v, "fail armed")' => Fails' = 1 /\ ~count'["fail"].ttl /\ ~ver'[v].burns
    <2>1. SUFFICES ASSUME Fails = 0 PROVE Fails' = 1 /\ ~count'["fail"].ttl /\ ~ver'[v].burns
      BY <1>9
    <2>2. Fails' = 1 /\ ~count["fail"].ttl /\ ~(Fails + 1 >= GuessMax)
      BY <1>5, <2>1, GuessNumbers
    <2>3. QED
      BY <1>5, <1>6, <1>8, <2>2
  <1>15. Fails' > 0 /\ ~count'["fail"].ttl => At(v, "fail armed")'
    <2>1. ~count'["fail"].ttl => Fails = 0
      BY <1>4, <1>5, GuessNumbers
    <2>2. QED
      BY <1>9, <2>1
  <1>16. \A c \in 1..Issues : wrong'[c] <= GuessBound /\ (c > issued => wrong'[c] = 0)
    BY <1>1 DEF GuessInv
  <1>17. QED
    BY <1>1, <1>9, <1>11, <1>13, <1>14, <1>15, <1>16, GuessesOfStep

\* The code goes, and its verification with it.
LEMMA GuessesOfDrop ==
    ASSUME OneAtATime, GuessInv, OtpTypeOK, NEW v \in Verifier, At(v, "right") \/ At(v, "burn"),
           pending' = 0, VerGoes(v, "reset"), UNCHANGED <<count, issued, wrong>>
    PROVE  GuessInv'
  <1>1. ver[v] # Idle /\ ~At(v, "fail armed")
    BY DEF At
  <1>2. (\A s : At(v, s)' <=> s = "reset") /\ Burning(v)'
    BY <1>1, VerMoved DEF VerStage
  <1>3. Fails > 0 /\ ~count["fail"].ttl => FALSE
    BY <1>1, AloneIs DEF GuessInv
  <1>4. Fails' = Fails /\ count' = count
    BY DEF Fails
  <1>5. \A c \in 1..Issues : wrong'[c] <= GuessBound /\ (c > issued => wrong'[c] = 0)
    BY DEF GuessInv
  <1>6. /\ ~At(v, "right")' /\ ~At(v, "wrong")' /\ ~At(v, "fail armed")' /\ ~At(v, "burn")'
        /\ ~(Fails' > 0 /\ ~count'["fail"].ttl)
    BY <1>2, <1>3, <1>4
  <1>7. QED
    BY <1>2, <1>5, <1>6, GuessesOfStep

\* Neither the code, nor the guesses, nor their counter: only how far it got.
LEMMA GuessesOfAbuse ==
    ASSUME OneAtATime, GuessInv, OtpTypeOK, NEW v \in Verifier, At(v, "abuse") \/ At(v, "abuse armed"),
           VerGoes(v, "abuse armed") \/ Burns(v), count'["fail"] = count["fail"],
           UNCHANGED <<pending, failSince, issued, wrong>>
    PROVE  GuessInv'
  <1>1. ver[v] # Idle /\ ~At(v, "fail armed") /\ ~At(v, "wrong") /\ ver[v].stage # "reset"
    BY DEF At
  <1>2. /\ ~At(v, "right")' /\ ~At(v, "wrong")' /\ ~At(v, "fail armed")' /\ ~At(v, "reset")'
        /\ At(v, "burn")' => ver'[v].burns
        /\ ~Burning(v)' => ~Burning(v)
    <2>1. Burning(v) <=> ver[v].burns
      BY <1>1 DEF Burning
    <2>2. CASE VerGoes(v, "abuse armed")
      <3>1. (\A s : At(v, s)' <=> s = "abuse armed") /\ (Burning(v)' <=> ver[v].burns)
        BY <1>1, <2>2, VerMoved DEF VerStage
      <3>2. QED
        BY <2>1, <3>1
    <2>3. CASE ver[v].burns /\ VerGoes(v, "burn")
      <3>1. (\A s : At(v, s)' <=> s = "burn") /\ Burning(v)' /\ ver'[v].burns
        BY <1>1, <2>3, VerMoved DEF VerStage
      <3>2. QED
        BY <3>1
    <2>4. CASE ~ver[v].burns /\ VerEnds(v)
      BY <2>1, <2>4, VerEnded
    <2>5. QED
      BY <2>2, <2>3, <2>4 DEF Burns
  <1>3. Tally' = Tally /\ Fails' = Fails
    <2>1. ~At(v, "wrong")'
      BY <1>2
    <2>2. Tally = wrong[pending] /\ Tally' = wrong'[pending']
      BY <1>1, <2>1, AloneIs, AloneWillBe
    <2>3. QED
      BY <2>2 DEF Fails
  <1>4. ~(Fails > 0 /\ ~count["fail"].ttl)
    BY <1>1, AloneIs DEF GuessInv
  <1>5. ~Burning(v) => Fails < GuessMax /\ (pending # 0 => TallyBounded)
    BY AloneIs DEF GuessInv
  <1>6. TallyBounded => TallyBounded'
    BY <1>3 DEF TallyBounded
  <1>7. Fails < GuessMax => Fails' < GuessMax
    BY <1>3
  <1>8. ~Burning(v)' => Fails' < GuessMax /\ (pending' # 0 => TallyBounded')
    BY <1>2, <1>5, <1>6, <1>7
  <1>9. ~(Fails' > 0 /\ ~count'["fail"].ttl)
    BY <1>3, <1>4
  <1>10. \A c \in 1..Issues : wrong'[c] <= GuessBound /\ (c > issued => wrong'[c] = 0)
    BY DEF GuessInv
  <1>11. QED
    BY <1>2, <1>8, <1>9, <1>10, GuessesOfStep

LEMMA ArmedFirst ==
    ASSUME OtpTypeOK, Arm("fail"), ~Faults, Fails = 1
    PROVE  Fails' = 1 /\ count'["fail"].ttl /\ failSince' = pending
  <1>1. count' = [count EXCEPT !["fail"].ttl = TRUE] /\ failSince' = pending
    BY DEF Arm, Fails
  <1>2. count \in [Counter -> [n : Nat, ttl : BOOLEAN]] /\ "fail" \in Counter
    BY DEF Arm, OtpTypeOK, CountersOK, Counter
  <1>3. QED
    BY <1>1, <1>2 DEF Arm, Fails

LEMMA TallyOfFirst ==
    ASSUME TallyBounded, Fails = 1, ~count["fail"].ttl
    PROVE  Tally <= GuessMax - 2 + 1
  BY DEF TallyBounded

LEMMA TallyOfArmed ==
    ASSUME Fails' = 1, failSince' = pending', Tally' <= GuessMax - 2 + 1
    PROVE  TallyBounded'
  BY DEF TallyBounded

\* The first guess of a counter gives it its expiry under the code pending now.
LEMMA GuessesOfArms ==
    ASSUME OneAtATime, GuessInv, OtpTypeOK, NEW v \in Verifier, At(v, "fail armed"), ~Faults,
           Arm("fail"), VerGoes(v, "abuse"), UNCHANGED <<pending, issued, wrong>>
    PROVE  GuessInv'
  <1>1. ver[v] # Idle /\ ~At(v, "wrong") /\ ver[v].stage = "fail armed"
    BY DEF At
  <1>2. Fails = 1 /\ ~count["fail"].ttl /\ ~ver[v].burns
    BY DEF GuessInv, StagesFit
  <1>3. ~Burning(v)
    BY <1>1, <1>2 DEF Burning
  <1>4. Fails < GuessMax /\ (pending # 0 => TallyBounded)
    BY <1>3, AloneIs DEF GuessInv
  <1>5. Fails' = 1 /\ count'["fail"].ttl /\ failSince' = pending
    BY <1>2, ArmedFirst
  <1>6. (\A s : At(v, s)' <=> s = "abuse") /\ ~ver'[v].burns
    BY <1>1, <1>2, VerMoved DEF VerStage
  <1>7. /\ ~At(v, "right")' /\ ~At(v, "wrong")' /\ ~At(v, "fail armed")' /\ ~At(v, "burn")'
        /\ ~At(v, "reset")'
    BY <1>6
  <1>8. Tally' = Tally
    <2>1. ~At(v, "wrong")'
      BY <1>7
    <2>2. QED
      BY <1>1, <2>1, AloneIs, AloneWillBe
  <1>9. pending' # 0 => TallyBounded'
    <2>1. SUFFICES ASSUME pending # 0 PROVE TallyBounded'
      OBVIOUS
    <2>2. Tally <= GuessMax - 2 + 1
      BY <1>2, <1>4, <2>1, TallyOfFirst
    <2>3. Fails' = 1 /\ failSince' = pending'
      BY <1>5
    <2>4. Tally' <= GuessMax - 2 + 1
      BY <1>8, <2>2
    <2>5. QED
      BY <2>3, <2>4, TallyOfArmed
  <1>10. Fails' < GuessMax
    BY <1>2, <1>4, <1>5
  <1>11. \A c \in 1..Issues : wrong'[c] <= GuessBound /\ (c > issued => wrong'[c] = 0)
    BY DEF GuessInv
  <1>12. QED
    BY <1>5, <1>7, <1>9, <1>10, <1>11, GuessesOfStep

\* The counter goes with the code, or after it: another code begins afresh.
LEMMA GuessesOfReset ==
    ASSUME OneAtATime, GuessInv, OtpTypeOK, NEW v \in Verifier, VerReset(v), ~Faults
    PROVE  GuessInv'
  <1>1. /\ At(v, "reset") /\ VerEnds(v) /\ count' = [count EXCEPT !["fail"] = NoKey]
        /\ UNCHANGED <<pending, issued, wrong>>
    BY DEF VerReset, historyVars
  <1>2. Fails' = 0 /\ ~count'["fail"].ttl
    BY <1>1 DEF OtpTypeOK, CountersOK, Counter, NoKey, Fails
  <1>3. \A s : ~At(v, s)'
    BY <1>1, VerEnded
  <1>4. pending # 0 => wrong[pending] = 0
    BY <1>1 DEF GuessInv, StagesFit
  <1>5. pending' # 0 => TallyBounded'
    <2>1. SUFFICES ASSUME pending # 0 PROVE TallyBounded'
      BY <1>1
    <2>2. ~At(v, "wrong")'
      BY <1>3
    <2>3. Tally' = 0
      BY <1>1, <1>4, <2>1, <2>2, AloneWillBe
    <2>4. 0 <= GuessMax - 2
      BY GuessNumbers
    <2>5. QED
      BY <1>2, <2>3, <2>4 DEF TallyBounded
  <1>6. 0 < GuessMax
    BY GuessNumbers
  <1>7. Fails' < GuessMax /\ ~(Fails' > 0)
    BY <1>2, <1>6
  <1>8. \A c \in 1..Issues : wrong'[c] <= GuessBound /\ (c > issued => wrong'[c] = 0)
    BY <1>1 DEF GuessInv
  <1>9. QED
    BY <1>1, <1>3, <1>5, <1>7, <1>8, GuessesOfStep

LEMMA GuessesOfVerify ==
    ASSUME OneAtATime, ~Faults, GuessInv, OtpTypeOK, OtpTypeOK', NEW v \in Verifier, VerifyStep(v)
    PROVE  GuessInv'
  <1>1. CASE \E right \in BOOLEAN : VerRead(v, right)
    BY <1>1, GuessesOfRead
  <1>2. CASE VerConsume(v) \/ VerBurn(v)
    <2>1. /\ At(v, "right") \/ At(v, "burn")
          /\ pending' = 0 /\ VerGoes(v, "reset") /\ UNCHANGED <<count, issued, wrong>>
      BY <1>2 DEF VerConsume, VerBurn, historyVars
    <2>2. QED
      BY <2>1, GuessesOfDrop
  <1>3. CASE VerFail(v)
    BY <1>3, GuessesOfFail
  <1>4. CASE VerAbuse(v)
    <2>1. /\ At(v, "abuse") /\ Incr("abuse")
          /\ VerGoes(v, "abuse armed") \/ Burns(v)
          /\ UNCHANGED <<pending, failSince, issued, wrong>>
      BY <1>4 DEF VerAbuse, historyVars
    <2>2. count'["fail"] = count["fail"]
      BY <2>1 DEF Incr, OtpTypeOK, CountersOK, Counter
    <2>3. QED
      BY <2>1, <2>2, GuessesOfAbuse
  <1>5. CASE VerArms(v) /\ At(v, "fail armed")
    <2>1. Arm("fail") /\ VerGoes(v, "abuse") /\ UNCHANGED <<pending, issued, wrong>>
      BY <1>5 DEF VerArms, At, historyVars
    <2>2. QED
      BY <1>5, <2>1, GuessesOfArms
  <1>6. CASE VerArms(v) /\ ~At(v, "fail armed")
    <2>1. At(v, "abuse armed") /\ Arm("abuse") /\ Burns(v) /\ UNCHANGED <<pending, issued, wrong>>
      BY <1>6 DEF VerArms, historyVars
    <2>2. count'["fail"] = count["fail"] /\ failSince' = failSince
      BY <2>1 DEF Arm, OtpTypeOK, CountersOK, Counter
    <2>3. QED
      BY <2>1, <2>2, GuessesOfAbuse
  <1>7. CASE VerReset(v)
    BY <1>7, GuessesOfReset
  <1>8. QED
    BY <1>1, <1>2, <1>3, <1>4, <1>5, <1>6, <1>7 DEF VerifyStep, VerWorks, VerDies

LEMMA GuessesOfRequest ==
    ASSUME GuessInv, OtpTypeOK, NEW r \in Requester, RequestStep(r)
    PROVE  GuessInv'
  <1>1. CASE ReqIssue(r)
    BY <1>1, GuessesOfIssue
  <1>2. CASE ReqArms(r)
    <2>1. /\ UNCHANGED <<pending, ver, wrong, issued>>
          /\ Arm("abuse") \/ Arm("window")
      BY <1>2 DEF ReqArms, historyVars
    <2>2. count'["fail"] = count["fail"] /\ failSince' = failSince
      BY <2>1 DEF Arm, OtpTypeOK, CountersOK, Counter
    <2>3. QED
      BY <2>1, <2>2, GuessesLeft
  <1>3. CASE ReqAbuse(r) \/ ReqWindow(r)
    <2>1. /\ UNCHANGED <<pending, ver, wrong, issued, failSince>>
          /\ Incr("abuse") \/ Incr("window")
      BY <1>3 DEF ReqAbuse, ReqWindow, historyVars
    <2>2. count'["fail"] = count["fail"]
      BY <2>1 DEF Incr, OtpTypeOK, CountersOK, Counter
    <2>3. QED
      BY <2>1, <2>2, GuessesLeft
  <1>4. CASE ReqBegin(r) \/ ReqPenalty(r) \/ ReqBan(r) \/ ReqPunish(r) \/ ReqDies(r)
    <2>1. UNCHANGED <<pending, ver, wrong, issued, failSince, count>>
      BY <1>4 DEF ReqBegin, ReqPenalty, ReqBan, ReqPunish, ReqDies, keyVars, historyVars
    <2>2. QED
      BY <2>1, GuessesLeft
  <1>5. QED
    BY <1>1, <1>2, <1>3, <1>4 DEF RequestStep, ReqWorks

\* Unless Valkey fails, and with one verification at a time, no code ever
\* takes more wrong guesses than one counter that runs out in time and one that
\* burns it allow: 2 * GuessMax - 2, not GuessMax.
THEOREM GuessesAreBounded == ~Faults /\ OneAtATime => (OtpSpec => []GuessesBounded)
  <1>1. OtpInit => GuessInv
    <2>1. SUFFICES ASSUME OtpInit PROVE GuessInv
      OBVIOUS
    <2>2. /\ pending = 0 /\ count["fail"] = NoKey /\ \A v \in Verifier : ver[v] = Idle
          /\ \A c \in 1..Issues : wrong[c] = 0
      BY <2>1 DEF OtpInit, Counter
    <2>3. Fails = 0 /\ ~count["fail"].ttl
      BY <2>2 DEF Fails, NoKey
    <2>4. StagesFit
      BY <2>2 DEF StagesFit, At
    <2>5. 0 <= GuessBound /\ 0 < GuessMax /\ ~(0 > 0)
      BY OtpAssumption DEF GuessBound
    <2>6. QED
      BY <2>2, <2>3, <2>4, <2>5 DEF GuessInv
  <1>2. ASSUME OneAtATime, ~Faults, GuessInv, OtpTypeOK, OtpTypeOK', [OtpNext]_otpVars
        PROVE  GuessInv'
    <2>1. CASE UNCHANGED otpVars
      BY <1>2, <2>1, GuessesLeft DEF otpVars
    <2>2. CASE \E r \in Requester : RequestStep(r)
      BY <1>2, <2>2, GuessesOfRequest
    <2>3. CASE \E v \in Verifier : VerifyStep(v)
      BY <1>2, <2>3, GuessesOfVerify
    <2>4. CASE ExpiryStep
      <3>1. CASE \E k \in Counter : CounterExpires(k)
        BY <1>2, <3>1, GuessesOfExpiry
      <3>2. CASE OtpExpires
        BY <1>2, <3>2, GuessesOfNone
      <3>3. CASE PenaltyExpires \/ BanExpires
        BY <1>2, <3>3, GuessesLeft DEF PenaltyExpires, BanExpires, historyVars
      <3>4. QED
        BY <2>4, <3>1, <3>2, <3>3 DEF ExpiryStep
    <2>5. QED
      BY <1>2, <2>1, <2>2, <2>3, <2>4 DEF OtpNext
  <1>3. OtpTypeOK /\ GuessInv => GuessesBounded
    <2>1. ASSUME OtpTypeOK PROVE \A c \in 1..issued : c \in 1..Issues
      BY <2>1, GuessNumbers
    <2>2. QED
      BY <2>1 DEF GuessInv, GuessesBounded
  <1>4. ASSUME ~Faults, OneAtATime
        PROVE  OtpSpec => []GuessesBounded
    <2>1. GuessInv /\ OtpTypeOK /\ OtpTypeOK' /\ [OtpNext]_otpVars => GuessInv'
      BY <1>2, <1>4
    <2>2. QED
      BY <1>1, <1>3, <2>1, OtpTypes, PTL DEF OtpSpec
  <1>5. QED
    BY <1>4
=============================================================================
