------------------------- MODULE SessionReuseProofs -------------------------
(***************************************************************************)
(* Proofs about the two ways a refused exchange may be wrong: a browser    *)
(* told to try again although recovery was still allowed, and a browser    *)
(* whose session is ended for reuse although it stayed on the chain.       *)
(*                                                                         *)
(* Both follow a call from its reads to its answer.  Spared bounds what a  *)
(* call on its way to recovery may find; Tracked counts the rotations that *)
(* a secret which fell off the chain must have seen.                       *)
(***************************************************************************)
EXTENDS SessionRotationProofs

\* What k has read by the time it stands at p.
Reaches(k, p) ==
  /\ p = "recover" => call[k].pc = "recover" \/ row.grace # "open"
  /\ p = "rereadRecovery" =>
       \/ call[k].pc = "rereadRecovery"
       \/ call[k].pc = "recover" /\ ~CanRecover(k)
  /\ p = "condemn" =>
       \/ call[k].pc = "condemn"
       \/ call[k].presented \notin {row.current, row.previous}

\* Recovery was refused and nobody else's rotation or recovery explains it.
Caps(k) == Live /\ call[k].presented = row.previous /\ row.grace # "open"

\* A quiet step says what the call knows and counts nothing.
Traced(k) ==
  /\ row'.recoveries = row.recoveries
  /\ call'[k] # Idle =>
       /\ call'[k].overtaken = call[k].overtaken
       /\ call'[k].pc # "done" => call[k].pc # "done" /\ call'[k].answer = call[k].answer
       /\ Reaches(k, call'[k].pc)
       /\ (call[k].pc = "rereadRecovery" /\ call'[k].answer = "busy") =>
            call[k].answer = "busy" \/ Caps(k)

-----------------------------------------------------------------------------
(* Every step of a call that does not move the chain is traced.             *)

LEMMA ReplyTraced ==
  ASSUME Inv, NEW k \in Calls, NEW a, Reply(k, a), row'.recoveries = row.recoveries,
         (call[k].pc = "rereadRecovery" /\ a = "busy") => Caps(k)
  PROVE  Traced(k)
  <1>1. call[k] \in Exchange /\ call'[k] = Answered(k, a)
    BY DEF Inv, TypeOK, Reply
  <1>2. CASE call[k].waited
    <2>1. call'[k] = [call[k] EXCEPT !.pc = "done", !.answer = a]
      BY <1>1, <1>2 DEF Answered
    <2>2. call'[k].pc = "done" /\ call'[k].answer = a
          /\ call'[k].overtaken = call[k].overtaken
      BY <1>1, <2>1 DEF Exchange
    <2> QED BY <2>2 DEF Traced, Reaches
  <1>3. CASE ~call[k].waited
    BY <1>1, <1>3 DEF Answered, Traced
  <1> QED BY <1>2, <1>3

LEMMA GotoTraced ==
  ASSUME Inv, NEW k \in Calls, NEW p, Goto(k, p), row'.recoveries = row.recoveries,
         call[k].pc # "done", Reaches(k, p)
  PROVE  Traced(k)
  <1>1. call[k] \in Exchange /\ call'[k] = [call[k] EXCEPT !.pc = p]
    BY DEF Inv, TypeOK, Goto
  <1>2. call'[k].pc = p /\ call'[k].answer = call[k].answer
        /\ call'[k].overtaken = call[k].overtaken
    BY <1>1 DEF Exchange
  <1> QED BY <1>2 DEF Traced

LEMMA BehindTraced ==
  ASSUME Inv, NEW k \in Calls, NEW elapsed, Behind(k, elapsed), UNCHANGED row,
         call[k].pc # "done", call[k].presented # row.current,
         (elapsed /\ call[k].presented = row.previous /\ row.grace # "open") => Traced(k)
  PROVE  Traced(k)
  <1>1. CASE Goto(k, "finish")
    BY <1>1, GotoTraced DEF Reaches
  <1>2. CASE call[k].presented # row.previous /\ Goto(k, "condemn")
    <2>1. Reaches(k, "condemn")
      BY <1>2 DEF Reaches
    <2> QED BY <1>2, <2>1, GotoTraced
  <1> QED BY <1>1, <1>2 DEF Behind

LEMMA ReadTraced ==
  ASSUME Inv, NEW k \in Calls, Read(k) \/ Reread(k) PROVE Traced(k)
  <1>1. UNCHANGED row /\ call[k].pc \in {"read", "reread"}
    BY DEF Read, Reread
  <1>2. CASE Reply(k, "rejected")
    BY <1>1, <1>2, ReplyTraced
  <1>3. CASE Goto(k, "rotate")
    BY <1>1, <1>3, GotoTraced DEF Reaches
  <1>4. CASE call[k].presented # row.current /\ Behind(k, Goto(k, "recover"))
    <2>1. (Goto(k, "recover") /\ row.grace # "open") => Traced(k)
      BY <1>1, GotoTraced DEF Reaches
    <2> QED BY <1>1, <1>4, <2>1, BehindTraced
  <1>5. Reread(k) /\ Live => call[k].presented # row.current
    BY DEF Inv, Stale, Reread
  <1> QED BY <1>2, <1>3, <1>4, <1>5 DEF Read, Reread

LEMMA RereadRecoveryTraced ==
  ASSUME Inv, NEW k \in Calls, RereadRecovery(k) PROVE Traced(k)
  <1>1. UNCHANGED row /\ call[k].pc = "rereadRecovery"
    BY DEF RereadRecovery
  <1>2. CASE Reply(k, "rejected")
    BY <1>1, <1>2, ReplyTraced
  <1>3. CASE Live /\ Behind(k, Reply(k, "busy"))
    <2>1. call[k].presented # row.current
      BY <1>1, <1>3 DEF Inv, Stale
    <2>2. (Reply(k, "busy") /\ call[k].presented = row.previous /\ row.grace # "open")
            => Traced(k)
      BY <1>1, <1>3, ReplyTraced DEF Caps
    <2> QED BY <1>1, <1>3, <2>1, <2>2, BehindTraced
  <1> QED BY <1>2, <1>3 DEF RereadRecovery

LEMMA LostTraced ==
  ASSUME Inv, NEW k \in Calls,
         (Rotate(k) /\ ~CanRotate(k)) \/ (Recover(k) /\ ~CanRecover(k))
  PROVE  Traced(k)
  <1>1. CASE Rotate(k) /\ ~CanRotate(k)
    BY <1>1, GotoTraced DEF Rotate, Reaches
  <1>2. CASE Recover(k) /\ ~CanRecover(k)
    BY <1>2, GotoTraced DEF Recover, Reaches
  <1> QED BY <1>1, <1>2

LEMMA ServeTraced ==
  ASSUME Inv, NEW k \in Calls, NEW b, Serve(k, b), row'.recoveries = row.recoveries,
         call[k].pc \in {"finish", "replay"}
  PROVE  Traced(k)
  <1>1. CASE Goto(k, "refuse")
    BY <1>1, GotoTraced DEF Reaches
  <1>2. CASE Reply(k, Success(k))
    BY <1>2, ReplyTraced
  <1>3. CASE Reply(k, "forbidden")
    BY <1>3, ReplyTraced
  <1> QED BY <1>1, <1>2, <1>3 DEF Serve

LEMMA FinishTraced ==
  ASSUME Inv, NEW k \in Calls, Finish(k) PROVE Traced(k)
  <1>1. UNCHANGED row /\ call[k].pc = "finish" /\ call[k] \in Exchange
    BY DEF Finish, Inv, TypeOK
  <1>2. CASE Reply(k, "rejected")
    BY <1>1, <1>2, ReplyTraced
  <1>3. CASE call' = [call EXCEPT ![k].pc = "replay", ![k].user = account]
    <2>1. call'[k] = [call[k] EXCEPT !.pc = "replay", !.user = account]
      BY <1>3 DEF Inv, TypeOK
    <2>2. call'[k].pc = "replay" /\ call'[k].answer = call[k].answer
          /\ call'[k].overtaken = call[k].overtaken
      BY <1>1, <2>1 DEF Exchange
    <2> QED BY <1>1, <2>2 DEF Traced, Reaches
  <1>4. CASE Serve(k, account)
    BY <1>1, <1>4, ServeTraced
  <1> QED BY <1>2, <1>3, <1>4 DEF Finish

LEMMA ReplayTraced ==
  ASSUME Inv, NEW k \in Calls, Replay(k) PROVE Traced(k)
  <1>1. row'.recoveries = row.recoveries /\ call[k].pc = "replay"
    BY DEF Replay, Inv, TypeOK, Session
  <1>2. CASE Reply(k, "busy")
    BY <1>1, <1>2, ReplyTraced
  <1>3. CASE Serve(k, call[k].user)
    BY <1>1, <1>3, ServeTraced
  <1> QED BY <1>2, <1>3 DEF Replay

LEMMA RefuseTraced ==
  ASSUME Inv, NEW k \in Calls, Refuse(k) \/ Condemn(k) PROVE Traced(k)
  <1>1. row'.recoveries = row.recoveries
    BY DEF Refuse, Condemn, Revoked, Inv, TypeOK, Session
  <1>2. PICK a \in {"rejected", "forbidden"} : Reply(k, a)
    BY DEF Refuse, Condemn
  <1> QED BY <1>1, <1>2, ReplyTraced

LEMMA EndTraced ==
  ASSUME Inv, NEW k \in Calls,
         LoseResponse(k) \/ Crash(k) \/ (Deliver(k) /\ call[k].answer # "rotated")
  PROVE  Traced(k)
  <1>1. UNCHANGED row /\ call' = [call EXCEPT ![k] = Idle]
    BY DEF LoseResponse, Crash, Deliver
  <1> QED BY <1>1 DEF Traced, Inv, TypeOK

LEMMA GiveUpTraced ==
  ASSUME Inv, NEW k \in Calls, GiveUp(k) PROVE Traced(k)
  <1>1. /\ UNCHANGED row /\ call[k].pc # "done" /\ call[k] \in Exchange
        /\ call'[k] = [call[k] EXCEPT !.waited = FALSE]
    BY DEF GiveUp, Inv, TypeOK
  <1>2. call'[k].pc = call[k].pc /\ call'[k].answer = call[k].answer
        /\ call'[k].overtaken = call[k].overtaken
    BY <1>1 DEF Exchange
  <1> QED BY <1>1, <1>2 DEF Traced, Reaches

LEMMA TracedOrMoving ==
  ASSUME Inv, NEW k \in Calls, Step(k) \/ Crash(k) \/ GiveUp(k) \/ LoseResponse(k)
  PROVE  (Quiet(k) /\ Traced(k)) \/ Moving(k)
  <1> SUFFICES ASSUME ~Moving(k) PROVE Traced(k)
    BY QuietOrMoving
  <1>1. CASE Read(k) \/ Reread(k) \/ RereadRecovery(k) \/ Finish(k) \/ Replay(k)
    BY <1>1, ReadTraced, RereadRecoveryTraced, FinishTraced, ReplayTraced
  <1>2. CASE Refuse(k) \/ Condemn(k) \/ LoseResponse(k) \/ Crash(k) \/ GiveUp(k)
    BY <1>2, RefuseTraced, EndTraced, GiveUpTraced
  <1>3. CASE Rotate(k) \/ Recover(k) \/ Deliver(k)
    BY <1>3, LostTraced, EndTraced DEF Moving
  <1> QED BY <1>1, <1>2, <1>3 DEF Step

-----------------------------------------------------------------------------
(* "Try again" means the allowance is spent.                                *)

\* A call on its way to recovery that finds a window open was in flight when it
\* opened, and ends before it closes: behind a closed window a recovery that
\* was refused, with the secret still the previous one, was refused for the
\* allowance.
SparedCall(r) ==
  /\ r.pc # "done" => r.answer = "none"
  /\ r.pc \in {"recover", "rereadRecovery"} /\ row.grace = "open" => r.age # "late"
  /\ (r.pc = "rereadRecovery" /\ Live /\ r.presented = row.previous /\ row.grace = "closed")
       => row.recoveries >= MaxRecoveries

Spared ==
  /\ row.grace = "none" => row.previous = None
  /\ \A k \in Calls : SparedCall(call[k])

LEMMA IdleSpared == Idle.answer = "none" /\ Idle.pc = "idle"
  BY DEF Idle

LEMMA InitSpared == Init => Spared
  BY IdleSpared DEF Init, Spared, SparedCall

LEMMA StartKeepsSpared ==
  ASSUME Inv, Spared, NEW c \in Clients, NEW k \in Calls, Start(c, k) PROVE Spared'
  <1>1. row' = row /\ call'[k].pc = "read" /\ call'[k].answer = "none"
        /\ \A j \in Calls \ {k} : call'[j] = call[j]
    BY DEF Start, Idle, Inv, TypeOK
  <1>2. SparedCall(call[k])'
    BY <1>1 DEF SparedCall
  <1>3. \A j \in Calls \ {k} : SparedCall(call[j])'
    BY <1>1 DEF Spared, SparedCall, Live
  <1> QED BY <1>1, <1>2, <1>3 DEF Spared

LEMMA QuietKeepsSpared ==
  ASSUME Inv, Spared, NEW k \in Calls, Quiet(k), Traced(k) PROVE Spared'
  <1>1. /\ row'.current = row.current /\ row'.previous = row.previous
        /\ row'.grace = row.grace /\ row'.recoveries = row.recoveries /\ (Live' => Live)
    BY DEF Quiet, Traced
  <1>2. Moves(call[k], call'[k]) /\ \A j \in Calls \ {k} : call'[j] = call[j]
    BY DEF Quiet, Inv, TypeOK
  <1>3. \A j \in Calls \ {k} : SparedCall(call[j])'
    BY <1>1, <1>2 DEF Spared, SparedCall
  <1>4. ASSUME call'[k] = Idle PROVE SparedCall(call[k])'
    BY <1>4, IdleSpared DEF SparedCall
  <1>5. ASSUME call'[k] # Idle PROVE SparedCall(call[k])'
    <2>1. /\ call'[k].presented = call[k].presented /\ call'[k].age = call[k].age
          /\ SparedCall(call[k])
      BY <1>2, <1>5 DEF Moves, Spared
    <2>2. /\ call'[k].pc # "done" => call[k].pc # "done" /\ call'[k].answer = call[k].answer
          /\ Reaches(k, call'[k].pc)
      BY <1>5 DEF Traced
    <2>3. call'[k].pc # "done" => call'[k].answer = "none"
      BY <2>1, <2>2 DEF SparedCall
    <2>4. (call'[k].pc \in {"recover", "rereadRecovery"} /\ row'.grace = "open")
            => call'[k].age # "late"
      BY <1>1, <2>1, <2>2 DEF SparedCall, Reaches
    <2>5. ASSUME call'[k].pc = "rereadRecovery", Live', row.grace = "closed",
                 call'[k].presented = row.previous
          PROVE  row.recoveries >= MaxRecoveries
      <3>1. CASE call[k].pc = "rereadRecovery"
        BY <1>1, <2>1, <2>5, <3>1 DEF SparedCall
      <3>2. CASE ~CanRecover(k)
        <4>1. ~(row.recoveries < MaxRecoveries)
          BY <1>1, <2>1, <2>5, <3>2 DEF CanRecover
        <4> QED BY <4>1, SessionAssumption DEF Inv, TypeOK, Session
      <3> QED BY <2>2, <2>5, <3>1, <3>2 DEF Reaches
    <2> QED BY <1>1, <2>3, <2>4, <2>5 DEF SparedCall
  <1> QED BY <1>1, <1>3, <1>4, <1>5 DEF Spared

LEMMA WinsKeepsSpared ==
  ASSUME Inv, Spared, NEW k \in Calls, NEW s \in NewSecrets, Wins(k, s) PROVE Spared'
  <1>1. s \in Secrets /\ row'.grace = "open" /\ call[k].pc \in {"rotate", "recover"}
    BY NewSecretsFresh DEF Wins
  <1>2. call'[k].pc = "finish" /\ call'[k].answer = "none"
    <2>1. call[k] \in Exchange /\ call[k].answer = "none"
      BY <1>1 DEF Inv, TypeOK, Spared, SparedCall
    <2>2. call'[k] = [call[k] EXCEPT !.pc = "finish", !.secret = s, !.age = "opener"]
      BY <1>1, WonCalls
    <2> QED BY <2>1, <2>2 DEF Exchange
  <1>3. \A j \in Calls \ {k} : /\ call'[j].pc = call[j].pc /\ call'[j].answer = call[j].answer
                               /\ Active(j) => call'[j].age = "old"
    BY <1>1, WonCalls
  <1>4. SparedCall(call[k])'
    BY <1>2 DEF SparedCall
  <1>5. \A j \in Calls \ {k} : SparedCall(call[j])'
    BY <1>1, <1>3 DEF Spared, SparedCall, Active
  <1> QED BY <1>1, <1>4, <1>5 DEF Spared

LEMMA DeliverKeepsSpared ==
  ASSUME Inv, Spared, NEW k \in Calls, Deliver(k) PROVE Spared'
  <1>1. row' = row /\ call'[k] = Idle /\ \A j \in Calls \ {k} : call'[j] = call[j]
    BY DEF Deliver, Inv, TypeOK
  <1> QED BY <1>1, IdleSpared DEF Spared, SparedCall, Live

LEMMA OutsideKeepsSpared ==
  ASSUME Inv, Spared, Timely, CloseWindow \/ RevokeElsewhere \/ Expire \/ ChangeAccount
  PROVE  Spared'
  <1>1. /\ call' = call /\ row'.previous = row.previous
        /\ row'.recoveries = row.recoveries /\ (Live' => Live)
    BY DEF CloseWindow, RevokeElsewhere, Expire, ChangeAccount, Revoked, Live, Inv, TypeOK,
           Session
  <1>2. CASE CloseWindow
    <2>1. row.grace = "open" /\ row'.grace = "closed" /\ \A k \in Calls : call[k].age = "late"
      BY <1>2 DEF CloseWindow, Inv, TypeOK, Session
    <2> QED BY <1>1, <2>1 DEF Spared, SparedCall
  <1>3. CASE ~CloseWindow
    <2>1. row'.grace = row.grace
      BY <1>3 DEF RevokeElsewhere, Expire, ChangeAccount, Revoked, Inv, TypeOK, Session
    <2> QED BY <1>1, <2>1 DEF Spared, SparedCall
  <1> QED BY <1>2, <1>3

LEMMA NextKeepsSpared ==
  ASSUME Inv, Spared, Timely, [Next]_vars PROVE Spared'
  <1>1. ASSUME NEW c \in Clients, NEW k \in Calls, Start(c, k) PROVE Spared'
    BY <1>1, StartKeepsSpared
  <1>2. ASSUME NEW k \in Calls, Step(k) \/ Crash(k) \/ GiveUp(k) \/ LoseResponse(k)
        PROVE  Spared'
    <2>1. CASE Quiet(k) /\ Traced(k)
      BY <2>1, QuietKeepsSpared
    <2>2. CASE Moving(k)
      BY <2>2, DeliverKeepsSpared, RotateWins, RecoverWins, WinsKeepsSpared DEF Moving
    <2> QED BY <1>2, <2>1, <2>2, TracedOrMoving
  <1>3. CASE CloseWindow \/ RevokeElsewhere \/ Expire \/ ChangeAccount
    BY <1>3, OutsideKeepsSpared
  <1>4. CASE UNCHANGED vars
    BY <1>4 DEF vars, Spared, SparedCall, Live
  <1> QED BY <1>1, <1>2, <1>3, <1>4 DEF Next

\* A call that waits for its answer is only told "busy" by its own reread.
LEMMA BusyCaps ==
  ASSUME Inv, Spared, [Next]_vars, NEW k \in Calls, call[k].pc = "rereadRecovery",
         call'[k].answer = "busy"
  PROVE  Caps(k)
  <1>1. call[k].answer = "none" /\ call[k].answer # "busy" /\ call \in [Calls -> Exchange]
    BY DEF Spared, SparedCall, Inv, TypeOK
  <1>2. ASSUME NEW c \in Clients, NEW j \in Calls, Start(c, j) PROVE FALSE
    <2>1. j # k /\ call'[k] = call[k]
      BY <1>1, <1>2 DEF Start, Active
    <2> QED BY <1>1, <2>1
  <1>3. ASSUME NEW j \in Calls, Step(j) \/ Crash(j) \/ GiveUp(j) \/ LoseResponse(j)
        PROVE  Caps(k)
    <2>1. CASE Quiet(j) /\ Traced(j) /\ j # k
      <3>1. call'[k] = call[k]
        BY <1>1, <2>1 DEF Quiet
      <3> QED BY <1>1, <3>1
    <2>2. CASE Traced(k)
      BY <1>1, <2>2, IdleSpared DEF Traced
    <2>3. CASE Deliver(j)
      <3>1. call'[k] = call[k] \/ call'[k] = Idle
        BY <1>1, <2>3 DEF Deliver
      <3> QED BY <1>1, <3>1, IdleSpared
    <2>4. ASSUME NEW s \in NewSecrets, Wins(j, s) PROVE FALSE
      <3>1. s \in Secrets /\ j # k
        BY <2>4, NewSecretsFresh DEF Wins
      <3>2. call'[k].answer = call[k].answer
        BY <2>4, <3>1, WonCalls
      <3> QED BY <1>1, <3>2
    <2>5. CASE Moving(j)
      BY <2>3, <2>4, <2>5, RotateWins, RecoverWins DEF Moving
    <2> QED BY <1>3, <2>1, <2>2, <2>5, TracedOrMoving
  <1>4. CASE CloseWindow \/ RevokeElsewhere \/ Expire \/ ChangeAccount \/ UNCHANGED vars
    <2>1. call' = call
      BY <1>4 DEF CloseWindow, RevokeElsewhere, Expire, ChangeAccount, vars
    <2> QED BY <1>1, <2>1
  <1> QED BY <1>2, <1>3, <1>4 DEF Next

LEMMA Sparing == ASSUME Timely PROVE Spec => []Spared
  <1>1. Inv /\ Spared /\ [Next]_vars => Spared'
    BY NextKeepsSpared
  <1> QED BY Invariance, InitSpared, <1>1, PTL DEF Spec

\* rotateSession answers "busy" after a recovery that did not apply only when
\* the allowance is spent (rotateSession.ts:314-341): if calls end before a
\* grace window closes, no sibling's window opened and closed in between.
THEOREM CappedIsSpent == ASSUME Timely PROVE Spec => CappedOnlyIfSpent
  <1>1. Inv /\ Spared /\ [Next]_vars =>
          [\A k \in Calls :
             (call[k].pc = "rereadRecovery" /\ call[k].waited /\ call'[k].answer = "busy")
               => row.recoveries >= MaxRecoveries]_vars
    <2> SUFFICES ASSUME Inv, Spared, [Next]_vars, NEW k \in Calls,
                        call[k].pc = "rereadRecovery", call'[k].answer = "busy"
                 PROVE  row.recoveries >= MaxRecoveries
      OBVIOUS
    <2>1. Live /\ call[k].presented = row.previous /\ row.grace # "open"
      BY BusyCaps DEF Caps
    <2>2. call[k].presented # None /\ row.grace \in {"none", "open", "closed"}
      BY SessionAssumption DEF Inv, CallOK, TypeOK, Session
    <2>3. row.grace = "closed"
      BY <2>1, <2>2 DEF Spared
    <2> QED BY <2>1, <2>3 DEF Spared, SparedCall
  <1> QED BY Invariance, Sparing, <1>1, PTL DEF Spec, CappedOnlyIfSpent

-----------------------------------------------------------------------------
(* A secret falls off the chain only behind two other calls.                *)

\* One browser, whose tabs take turns.
Solo == Alone /\ Holders \subseteq Locks

\* A call that presents the previous secret, or that is in flight beside a call
\* which advanced the chain and is still waited for, was overtaken; one whose
\* secret is off the chain was overtaken twice.
Lagging == \A k \in Calls, c \in Holders :
  (Active(k) /\ call[k].presented = row.previous /\ jar[c] = row.current)
    => call[k].overtaken >= 1
Fallen == \A k \in Calls :
  (Active(k) /\ call[k].presented \notin {row.current, row.previous})
    => call[k].overtaken = 2
Beside == \A j, k \in Calls :
  (call[j].secret # None /\ call[j].waited /\ j # k /\ Active(k))
    => call[k].overtaken >= 1

Tracked == Lagging /\ Fallen /\ Beside

LEMMA IdleTracked ==
  /\ Idle.pc = "idle" /\ Idle.presented = None /\ Idle.secret = None
  /\ ~Idle.waited
  BY DEF Idle

LEMMA InitTracked == Init => Tracked
  BY IdleTracked DEF Init, Tracked, Lagging, Fallen, Beside, Active

\* The tabs of the browser take turns: nobody waits when a call begins.
LEMMA StartKeepsTracked ==
  ASSUME Inv, Solo, Followed, Tracked, NEW c \in Clients, NEW k \in Calls, Start(c, k)
  PROVE  Tracked'
  <1>1. /\ row' = row /\ jar' = jar /\ Holders' = Holders /\ c \in Holders
        /\ call'[k].presented = jar[c] /\ call'[k].secret = None
        /\ \A j \in Calls \ {k} : call'[j] = call[j]
    BY DEF Start, Idle, Holders, Inv, TypeOK
  <1>2. \A d \in Holders : d = c
    BY <1>1 DEF Solo, Alone
  <1>3. c \in Locks /\ \A j \in Calls : ~(call[j].owner = c /\ call[j].waited)
    BY <1>1 DEF Solo, Start
  <1>4. \A j \in Calls : call[j].secret # None => ~call[j].waited
    <2> SUFFICES ASSUME NEW j \in Calls, call[j].secret # None PROVE ~call[j].waited
      OBVIOUS
    <2>1. call[j].owner = c
      BY <1>2 DEF Inv, CallOK
    <2> QED BY <1>3, <2>1
  <1>5. Lagging'
    <2> SUFFICES ASSUME NEW j \in Calls, NEW d \in Holders, Active(j)',
                        call'[j].presented = row.previous, jar[d] = row.current
                 PROVE  call'[j].overtaken >= 1
      BY <1>1 DEF Lagging
    <2>1. j # k
      BY <1>1, <1>2 DEF Followed
    <2> QED BY <1>1, <2>1 DEF Tracked, Lagging, Active
  <1>6. Fallen'
    <2> SUFFICES ASSUME NEW j \in Calls, Active(j)',
                        call'[j].presented \notin {row.current, row.previous}
                 PROVE  call'[j].overtaken = 2
      BY <1>1 DEF Fallen
    <2>1. j # k
      BY <1>1 DEF Followed
    <2> QED BY <1>1, <2>1 DEF Tracked, Fallen, Active
  <1>7. Beside'
    <2>1. \A j \in Calls : ~(call'[j].secret # None /\ call'[j].waited)
      BY <1>1, <1>4
    <2> QED BY <2>1 DEF Beside
  <1> QED BY <1>5, <1>6, <1>7 DEF Tracked

LEMMA QuietKeepsTracked ==
  ASSUME Inv, Tracked, NEW k \in Calls, Quiet(k), Traced(k) PROVE Tracked'
  <1>1. /\ row'.current = row.current /\ row'.previous = row.previous
        /\ jar' = jar /\ Holders' = Holders
    BY DEF Quiet, Holders
  <1>2. Moves(call[k], call'[k]) /\ \A j \in Calls \ {k} : call'[j] = call[j]
    BY DEF Quiet, Inv, TypeOK
  <1>3. Active(k)' => /\ call'[k].presented = call[k].presented /\ Active(k)
                      /\ call'[k].overtaken = call[k].overtaken
    BY <1>2, IdleTracked DEF Moves, Traced, Active
  <1>4. call'[k].secret # None /\ call'[k].waited => call[k].secret # None /\ call[k].waited
    BY <1>2, IdleTracked DEF Moves
  <1>5. \A j \in Calls : Active(j)' => /\ call'[j].presented = call[j].presented /\ Active(j)
                                       /\ call'[j].overtaken = call[j].overtaken
    BY <1>2, <1>3 DEF Active
  <1>6. Lagging'
    BY <1>1, <1>5 DEF Tracked, Lagging
  <1>7. Fallen'
    BY <1>1, <1>5 DEF Tracked, Fallen
  <1>8. Beside'
    BY <1>2, <1>4, <1>5 DEF Tracked, Beside
  <1> QED BY <1>6, <1>7, <1>8 DEF Tracked

\* Everybody else's count goes up.
LEMMA WonCounts ==
  ASSUME Inv, NEW k \in Calls, NEW s \in Secrets, Wins(k, s), NEW j \in Calls \ {k}, Active(j)
  PROVE  /\ call'[j].overtaken \in 1 .. 2
         /\ call[j].overtaken >= 1 => call'[j].overtaken = 2
  <1>1. call[j] \in Exchange /\ call'[j] = Overtaken(j)
    BY DEF Wins, Won, Inv, TypeOK
  <1> DEFINE n == IF call[j].overtaken < 2 THEN call[j].overtaken + 1 ELSE call[j].overtaken
  <1>2. n \in 1 .. 2 /\ (call[j].overtaken >= 1 => n = 2)
    BY <1>1 DEF Exchange
  <1>3. call'[j].overtaken = n
    BY <1>1 DEF Overtaken, Exchange
  <1> QED BY <1>2, <1>3

\* Whoever advances the chain replaces the secret of the browser, or one that
\* no call presents.
LEMMA WinsKeepsTracked ==
  ASSUME Inv, Followed, Tracked, NEW k \in Calls, NEW s \in NewSecrets, Wins(k, s),
         \A j \in Calls : call[j].secret = None,
         call[k].presented = row'.previous,
         \/ row'.previous = row.current /\ \A c \in Holders : jar[c] = row.current
         \/ row'.previous = row.previous /\ Holders # {} /\ \A c \in Holders : jar[c] # row.current
  PROVE  Tracked'
  <1>1. /\ s \in Secrets /\ row'.current = s /\ jar' = jar /\ Holders' = Holders
        /\ \A c \in Clients : jar[c] # s
        /\ \A j \in Calls : call[j].presented # s
    BY NewSecretsFresh DEF Wins, Holders
  <1>2. call'[k].presented = call[k].presented
    <2>1. call[k] \in Exchange
      BY DEF Inv, TypeOK
    <2>2. call'[k] = [call[k] EXCEPT !.pc = "finish", !.secret = s, !.age = "opener"]
      BY <1>1, WonCalls
    <2> QED BY <2>1, <2>2 DEF Exchange
  <1>3. \A j \in Calls \ {k} : /\ call'[j].presented = call[j].presented
                               /\ call'[j].secret = None
                               /\ Active(j)' => Active(j)
    BY <1>1, WonCalls DEF Active
  <1>4. \A j \in Calls \ {k} : Active(j) =>
          /\ call'[j].overtaken \in 1 .. 2
          /\ call[j].overtaken >= 1 => call'[j].overtaken = 2
    BY <1>1, WonCounts
  <1>5. Lagging'
    BY <1>1 DEF Lagging, Holders
  <1>6. Fallen'
    <2> SUFFICES ASSUME NEW j \in Calls, Active(j)',
                        call'[j].presented \notin {s, row'.previous}
                 PROVE  call'[j].overtaken = 2
      BY <1>1 DEF Fallen
    <2>1. j # k
      BY <1>2
    <2>2. Active(j) /\ call[j].presented \notin {s, row'.previous}
      BY <1>3, <2>1
    <2>3. call[j].overtaken >= 1
      <3>1. CASE row'.previous = row.current /\ \A c \in Holders : jar[c] = row.current
        <4>1. CASE call[j].presented = row.previous
          <5>1. call[j].owner \in Holders
            BY <2>2 DEF Inv, CallOK, Active
          <5> QED BY <2>2, <3>1, <4>1, <5>1 DEF Tracked, Lagging
        <4>2. CASE call[j].presented # row.previous
          <5>1. call[j].overtaken = 2
            BY <2>2, <3>1, <4>2 DEF Tracked, Fallen
          <5> QED BY <5>1
        <4> QED BY <4>1, <4>2
      <3>2. CASE /\ row'.previous = row.previous /\ Holders # {}
                 /\ \A c \in Holders : jar[c] # row.current
        <4>1. call[j].presented # row.current
          BY <3>2 DEF Followed
        <4>2. call[j].overtaken = 2
          BY <2>2, <3>2, <4>1 DEF Tracked, Fallen
        <4> QED BY <4>2
      <3> QED BY <3>1, <3>2
    <2> QED BY <1>4, <2>1, <2>2, <2>3
  <1>7. Beside'
    <2> SUFFICES ASSUME NEW i \in Calls, NEW j \in Calls, call'[i].secret # None,
                        i # j, Active(j)'
                 PROVE  call'[j].overtaken >= 1
      BY DEF Beside
    <2>1. i = k /\ j # k
      BY <1>3
    <2>2. call'[j].overtaken \in 1 .. 2
      BY <1>3, <1>4, <2>1
    <2> QED BY <2>2
  <1> QED BY <1>5, <1>6, <1>7 DEF Tracked

LEMMA AdvanceKeepsTracked ==
  ASSUME Timely, Inv, Followed, Tracked, NEW k \in Calls,
         (Rotate(k) /\ CanRotate(k)) \/ (Recover(k) /\ CanRecover(k))
  PROVE  Tracked'
  <1>1. CASE Rotate(k) /\ CanRotate(k)
    <2>1. call[k].presented = row.current /\ \A c \in Holders : jar[c] = row.current
      BY <1>1 DEF CanRotate, Followed
    <2> QED BY <1>1, <2>1, RotateWins, WinsKeepsTracked
  <1>2. CASE Recover(k) /\ CanRecover(k)
    <2>1. call[k].presented = row.previous /\ call[k].owner \in Holders
      BY <1>2 DEF CanRecover, Recover, Inv, CallOK
    <2>2. \A c \in Holders : jar[c] # row.current
      BY <1>2, RecoverKeepsFollowed
    <2> QED BY <1>2, <2>1, <2>2, RecoverWins, WinsKeepsTracked
  <1> QED BY <1>1, <1>2

LEMMA DeliverKeepsTracked ==
  ASSUME Inv, Tracked, NEW k \in Calls, Deliver(k), call[k].answer = "rotated"
  PROVE  Tracked'
  <1>1. /\ row' = row /\ call'[k] = Idle /\ \A j \in Calls \ {k} : call'[j] = call[j]
        /\ call[k].secret # None /\ call[k].waited
    BY DEF Deliver, Inv, CallOK, TypeOK
  <1>2. \A j \in Calls : Active(j)' => j # k /\ call'[j] = call[j] /\ Active(j)
    BY <1>1, IdleTracked DEF Active
  <1>3. \A j \in Calls : Active(j)' => call'[j].overtaken >= 1
    BY <1>1, <1>2 DEF Tracked, Beside
  <1> QED BY <1>1, <1>2, <1>3 DEF Tracked, Lagging, Fallen, Beside

LEMMA OutsideKeepsTracked ==
  ASSUME Inv, Tracked,
         CloseWindow \/ RevokeElsewhere \/ Expire \/ ChangeAccount \/ UNCHANGED vars
  PROVE  Tracked'
  <1>1. /\ row'.current = row.current /\ row'.previous = row.previous
        /\ UNCHANGED << jar, call >>
    BY DEF CloseWindow, RevokeElsewhere, Expire, ChangeAccount, vars, Revoked, Inv, TypeOK,
           Session
  <1> QED BY <1>1 DEF Tracked, Lagging, Fallen, Beside, Active, Holders

LEMMA NextKeepsTracked ==
  ASSUME Inv, Timely, Solo, Followed, Tracked, [Next]_vars PROVE Tracked'
  <1>1. ASSUME NEW c \in Clients, NEW k \in Calls, Start(c, k) PROVE Tracked'
    BY <1>1, StartKeepsTracked
  <1>2. ASSUME NEW k \in Calls, Step(k) \/ Crash(k) \/ GiveUp(k) \/ LoseResponse(k)
        PROVE  Tracked'
    <2>1. CASE Quiet(k) /\ Traced(k)
      BY <2>1, QuietKeepsTracked
    <2>2. CASE Moving(k)
      BY <2>2, DeliverKeepsTracked, AdvanceKeepsTracked DEF Moving
    <2> QED BY <1>2, <2>1, <2>2, TracedOrMoving
  <1>3. CASE CloseWindow \/ RevokeElsewhere \/ Expire \/ ChangeAccount \/ UNCHANGED vars
    BY <1>3, OutsideKeepsTracked
  <1> QED BY <1>1, <1>2, <1>3 DEF Next

LEMMA Tracking == ASSUME Timely PROVE Spec => [](Solo => Tracked)
  <1>1. Init => (Solo => Tracked)
    BY InitTracked
  <1>2. Inv /\ (Alone => Followed) /\ (Solo => Tracked) /\ [Next]_vars => (Solo => Tracked)'
    BY NextKeepsTracked, HoldersFixed DEF Solo, Alone
  <1> QED BY Invariance, Following, <1>1, <1>2, PTL DEF Spec

\* A call turns to condemn only over a secret that is off the chain.
LEMMA TurnsOverFallen ==
  ASSUME Inv, [Next]_vars, NEW k \in Calls, call[k].pc # "condemn", call'[k].pc = "condemn"
  PROVE  Active(k) /\ call[k].presented \notin {row.current, row.previous}
  <1>1. call \in [Calls -> Exchange]
    BY DEF Inv, TypeOK
  <1>2. ASSUME NEW c \in Clients, NEW j \in Calls, Start(c, j) PROVE FALSE
    <2>1. call'[k] = call[k] \/ call'[k].pc = "read"
      BY <1>1, <1>2 DEF Start, Idle
    <2> QED BY <2>1
  <1>3. ASSUME NEW j \in Calls, Quiet(j), Traced(j)
        PROVE  Active(k) /\ call[k].presented \notin {row.current, row.previous}
    <2>1. j = k
      BY <1>1, <1>3 DEF Quiet
    <2>2. call'[k] # Idle /\ Moves(call[k], call'[k])
      BY <1>1, <1>3, <2>1, IdleTracked DEF Quiet
    <2> QED BY <1>3, <2>1, <2>2 DEF Traced, Reaches, Moves, Active
  <1>4. ASSUME NEW j \in Calls, NEW s \in NewSecrets, Wins(j, s) PROVE FALSE
    <2>1. s \in Secrets
      BY NewSecretsFresh
    <2>2. CASE j = k
      <3>1. call'[k] = [call[k] EXCEPT !.pc = "finish", !.secret = s, !.age = "opener"]
        BY <1>4, <2>1, <2>2, WonCalls
      <3> QED BY <1>1, <3>1 DEF Exchange
    <2>3. CASE j # k
      <3>1. call'[k].pc = call[k].pc
        BY <1>4, <2>1, <2>3, WonCalls
      <3> QED BY <3>1
    <2> QED BY <2>2, <2>3
  <1>5. ASSUME NEW j \in Calls, Deliver(j) PROVE FALSE
    <2>1. call'[k] = call[k] \/ call'[k] = Idle
      BY <1>1, <1>5 DEF Deliver
    <2> QED BY <2>1, IdleTracked
  <1>6. ASSUME NEW j \in Calls, Step(j) \/ Crash(j) \/ GiveUp(j) \/ LoseResponse(j)
        PROVE  Active(k) /\ call[k].presented \notin {row.current, row.previous}
    <2>1. ~Moving(j)
      BY <1>4, <1>5, RotateWins, RecoverWins DEF Moving
    <2> QED BY <1>3, <1>6, <2>1, TracedOrMoving
  <1>7. CASE CloseWindow \/ RevokeElsewhere \/ Expire \/ ChangeAccount \/ UNCHANGED vars
    <2>1. call' = call
      BY <1>7 DEF CloseWindow, RevokeElsewhere, Expire, ChangeAccount, vars
    <2> QED BY <2>1
  <1> QED BY <1>2, <1>6, <1>7 DEF Next

\* A browser alone on its session whose tabs take turns reaches revokeAsTheft
\* (rotateSession.ts:228-241) only with a call it gave up on that two other
\* calls overtook, if calls end before a grace window closes.
THEOREM OvertakenTwice == ASSUME Timely PROVE Spec => CondemnedOnlyIfOvertakenTwice
  <1>1. Inv /\ (Solo => Tracked) /\ [Next]_vars =>
          [\A k \in Calls :
             (call[k].pc # "condemn" /\ call'[k].pc = "condemn" /\ Alone
                /\ Holders \subseteq Locks) => call[k].overtaken = 2]_vars
    <2> SUFFICES ASSUME Inv, Solo, Tracked, [Next]_vars, NEW k \in Calls,
                        call[k].pc # "condemn", call'[k].pc = "condemn"
                 PROVE  call[k].overtaken = 2
      BY DEF Solo
    <2>1. Active(k) /\ call[k].presented \notin {row.current, row.previous}
      BY TurnsOverFallen
    <2> QED BY <2>1 DEF Tracked, Fallen
  <1> QED BY Invariance, Tracking, <1>1, PTL DEF Spec, CondemnedOnlyIfOvertakenTwice
=============================================================================
