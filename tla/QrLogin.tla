------------------------------ MODULE QrLogin ------------------------------
(***************************************************************************)
(* Signing a desktop in by QR code: the life of one challenge.  The        *)
(* challenge is one Valkey row with a time to live; the desktop starts it  *)
(* and polls it, a phone approves it over the web, a linked chat approves  *)
(* it through a bot's webhook.  Every handler is a task of the             *)
(* multi-threaded runtime that awaits each Valkey command, so handlers     *)
(* interleave between any two commands.                                    *)
(***************************************************************************)
EXTENDS Integers

CONSTANTS
    Account,     \* accounts that may approve
    Web,         \* approve requests from phones in flight together
    Bot,         \* approve taps of linked chats in flight together
    Poller,      \* polls of the desktop in flight together
    Slow,        \* BOOLEAN: may an approval outlast the 5 s of its lock
    Faults,      \* BOOLEAN: may a handler die, or Valkey drop a command
    NoRow,       \* no challenge row
    Pending,     \* the row without an approval
    Idle         \* a request slot without a request

VARIABLES
    started,     \* has the desktop asked for the challenge
    challenge,   \* wou_qr:{id}: NoRow, Pending, or the account approved
    lock,        \* wou_qr_lock:{id}: "free", "set", or "armed" with an expiry
    web,         \* the account of an approve request that has read Pending
    bot,         \* the stage a tap has reached, and the account it approves
    poll,        \* the approval a poll has read and not yet delivered
    delivered    \* history: sessions handed out, counted up to Several

qrVars == <<started, challenge, lock, web, bot, poll, delivered>>

Several == 2

\* locked: SETNX done; armed: EXPIRE done; read: the row was Pending;
\* done: nothing left but to release the lock.
Tap == [stage : {"locked", "armed", "read", "done"}, as : Account]

ASSUME QrAssumption ==
    /\ Slow \in BOOLEAN /\ Faults \in BOOLEAN
    /\ NoRow \notin Account /\ Pending \notin Account /\ NoRow # Pending
    /\ Idle \notin Account /\ Idle \notin Tap

Approved == challenge \in Account

-----------------------------------------------------------------------------
QrInit ==
    /\ started = FALSE
    /\ challenge = NoRow
    /\ lock = "free"
    /\ web = [w \in Web |-> Idle]
    /\ bot = [b \in Bot |-> Idle]
    /\ poll = [k \in Poller |-> Idle]
    /\ delivered = 0

QrStart ==
    /\ ~started
    /\ started' = TRUE
    /\ challenge' = Pending
    /\ UNCHANGED <<lock, web, bot, poll, delivered>>

\* The desktop cancels, a chat denies, or the row's time to live is over.
\* Cancel reads first but deletes whatever is there by then.
ChallengeGoes ==
    /\ challenge # NoRow
    /\ challenge' = NoRow
    /\ UNCHANGED <<started, lock, web, bot, poll, delivered>>

-----------------------------------------------------------------------------
(* A phone approves: no lock is taken. *)

\* Mutant of WebRead: an approved challenge is approved again.
WebReadUsed(w, p) ==
    /\ web[w] = Idle
    /\ challenge # NoRow
    /\ web' = [web EXCEPT ![w] = p]
    /\ UNCHANGED <<started, challenge, lock, bot, poll, delivered>>

WebRead(w, p) ==
    /\ web[w] = Idle
    /\ challenge = Pending
    /\ web' = [web EXCEPT ![w] = p]
    /\ UNCHANGED <<started, challenge, lock, bot, poll, delivered>>

\* SETEX writes the row whether or not it still exists.
WebSave(w) ==
    /\ web[w] # Idle
    /\ challenge' = web[w]
    /\ web' = [web EXCEPT ![w] = Idle]
    /\ UNCHANGED <<started, lock, bot, poll, delivered>>

\* The account lookup, the token or the save fails, or the request dies.
WebFails(w) ==
    /\ Faults
    /\ web[w] # Idle
    /\ web' = [web EXCEPT ![w] = Idle]
    /\ UNCHANGED <<started, challenge, lock, bot, poll, delivered>>

-----------------------------------------------------------------------------
(* A linked chat approves: the lock is taken, and given its expiry next. *)

AtStage(b, stage) == bot[b] # Idle /\ bot[b].stage = stage

GoesTo(b, stage) == bot' = [bot EXCEPT ![b].stage = stage]

\* Mutant of BotLock: the answer of SETNX is not looked at.
BotLockAnyway(b, p) ==
    /\ bot[b] = Idle
    /\ started
    /\ lock' = IF lock = "free" THEN "set" ELSE lock
    /\ bot' = [bot EXCEPT ![b] = [stage |-> "locked", as |-> p]]
    /\ UNCHANGED <<started, challenge, web, poll, delivered>>

\* The webhook has seen the row at some time since the start.
BotLock(b, p) ==
    /\ bot[b] = Idle
    /\ started
    /\ lock = "free"
    /\ lock' = "set"
    /\ bot' = [bot EXCEPT ![b] = [stage |-> "locked", as |-> p]]
    /\ UNCHANGED <<started, challenge, web, poll, delivered>>

\* EXPIRE acts on the key, whoever set it; its failure is ignored.
BotArm(b) ==
    /\ AtStage(b, "locked")
    /\ \/ lock' = IF lock = "free" THEN "free" ELSE "armed"
       \/ Faults /\ UNCHANGED lock
    /\ GoesTo(b, "armed")
    /\ UNCHANGED <<started, challenge, web, poll, delivered>>

\* An approved, vanished or unreadable row ends the approval.
BotRead(b) ==
    /\ AtStage(b, "armed")
    /\ \/ challenge = Pending /\ GoesTo(b, "read")
       \/ (challenge # Pending \/ Faults) /\ GoesTo(b, "done")
    /\ UNCHANGED <<started, challenge, lock, web, poll, delivered>>

BotSave(b) ==
    /\ AtStage(b, "read")
    /\ \/ challenge' = bot[b].as
       \/ Faults /\ UNCHANGED challenge
    /\ GoesTo(b, "done")
    /\ UNCHANGED <<started, lock, web, poll, delivered>>

\* Mutant of BotRelease: the early return forgets the lock.
BotReturn(b) ==
    /\ AtStage(b, "done")
    /\ bot' = [bot EXCEPT ![b] = Idle]
    /\ UNCHANGED <<started, challenge, lock, web, poll, delivered>>

\* DEL removes the key, whoever set it; its failure is ignored.
BotRelease(b) ==
    /\ AtStage(b, "done")
    /\ lock' = "free" \/ (Faults /\ UNCHANGED lock)
    /\ bot' = [bot EXCEPT ![b] = Idle]
    /\ UNCHANGED <<started, challenge, web, poll, delivered>>

BotDies(b) ==
    /\ Faults
    /\ bot[b] # Idle
    /\ bot' = [bot EXCEPT ![b] = Idle]
    /\ UNCHANGED <<started, challenge, lock, web, poll, delivered>>

LockExpires ==
    /\ lock = "armed"
    /\ Slow \/ \A b \in Bot : bot[b] = Idle
    /\ lock' = "free"
    /\ UNCHANGED <<started, challenge, web, bot, poll, delivered>>

-----------------------------------------------------------------------------
(* The desktop polls. *)

\* Polls that find no approval answer "pending" or "gone" and change nothing.
PollRead(k) ==
    /\ poll[k] = Idle
    /\ Approved
    /\ poll' = [poll EXCEPT ![k] = challenge]
    /\ UNCHANGED <<started, challenge, lock, web, bot, delivered>>

HandOut(k) ==
    /\ poll[k] # Idle
    /\ delivered' = IF delivered = Several THEN Several ELSE delivered + 1
    /\ poll' = [poll EXCEPT ![k] = Idle]
    /\ UNCHANGED <<started, lock, web, bot>>

\* Mutants of PollDeliver: the row is left to expire, and the row read is put
\* back for the next poll.
PollDeliverKept(k) == HandOut(k) /\ UNCHANGED challenge

PollDeliverResaved(k) == HandOut(k) /\ challenge' = poll[k]

\* The row is deleted, whatever it holds by now, and the token read before is
\* answered; a failing DEL is ignored.
PollDeliver(k) ==
    /\ HandOut(k)
    /\ challenge' = NoRow \/ (Faults /\ UNCHANGED challenge)

\* The account lookup fails, or the request dies.
PollFails(k) ==
    /\ Faults
    /\ poll[k] # Idle
    /\ poll' = [poll EXCEPT ![k] = Idle]
    /\ UNCHANGED <<started, challenge, lock, web, bot, delivered>>

-----------------------------------------------------------------------------
WebStep(w) == (\E p \in Account : WebRead(w, p)) \/ WebSave(w) \/ WebFails(w)

BotWorks(b) == BotArm(b) \/ BotRead(b) \/ BotSave(b) \/ BotRelease(b)

BotStep(b) == (\E p \in Account : BotLock(b, p)) \/ BotWorks(b) \/ BotDies(b)

PollStep(k) == PollRead(k) \/ PollDeliver(k) \/ PollFails(k)

QrNext ==
    \/ QrStart
    \/ ChallengeGoes
    \/ LockExpires
    \/ \E w \in Web : WebStep(w)
    \/ \E b \in Bot : BotStep(b)
    \/ \E k \in Poller : PollStep(k)

\* A handler once begun goes on (the runtime polls its task), and a key with a
\* time to live goes away.  Nobody has to scan, approve, deny or poll.
QrFairness ==
    /\ WF_qrVars(ChallengeGoes)
    /\ WF_qrVars(LockExpires)
    /\ \A w \in Web : WF_qrVars(WebSave(w))
    /\ \A b \in Bot : WF_qrVars(BotWorks(b))
    /\ \A k \in Poller : WF_qrVars(PollDeliver(k))

QrSpec == QrInit /\ [][QrNext]_qrVars /\ QrFairness

-----------------------------------------------------------------------------
QrTypeOK ==
    /\ started \in BOOLEAN
    /\ challenge \in Account \cup {NoRow, Pending}
    /\ lock \in {"free", "set", "armed"}
    /\ web \in [Web -> Account \cup {Idle}]
    /\ bot \in [Bot -> Tap \cup {Idle}]
    /\ poll \in [Poller -> Account \cup {Idle}]
    /\ delivered \in 0..Several

\* One challenge signs one desktop in, once (handle_qr_status: "single atomic
\* delivery", the store: "single-use").
SingleDelivery == delivered <= 1

\* Whose account the desktop gets is settled by the first approval; a later
\* approver is refused ("QR challenge already used") and cannot replace it.
ApprovalNeverRewritten ==
    [][Approved /\ challenge' \in Account => challenge' = challenge]_qrVars

\* While approvals keep within 5 s, the lock is held exactly while a tap is at
\* work, by that one tap: it neither admits two nor stays behind.
LockHeldByOneTap ==
    /\ lock = "free" <=> \A b \in Bot : bot[b] = Idle
    /\ \A b, c \in Bot : bot[b] # Idle /\ bot[c] # Idle => b = c

\* An approval in flight: somebody has read Pending and has not saved yet.
ApprovalInFlight == (\E w \in Web : web[w] # Idle) \/ (\E b \in Bot : AtStage(b, "read"))

\* A challenge cancelled, denied, expired or used up stays so, except that an
\* approval that had read it before may still bring it back: new requests,
\* deliveries and a lock out of step never do.
GoneStaysGone ==
    [][started /\ challenge = NoRow /\ ~ApprovalInFlight => challenge' = NoRow]_qrVars

\* No challenge stays for ever, however many approvals race, bring it back or
\* fail: in the end it is gone for good.
ChallengeEnds == <>[](challenge = NoRow)
=============================================================================
