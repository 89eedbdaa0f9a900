----------------------- MODULE SessionRotationProofs -----------------------
(***************************************************************************)
(* Proofs about SessionRotation, for any number of browsers, calls,        *)
(* secrets and faults.                                                     *)
(*                                                                         *)
(* A secret is hidden while the call that minted it carries it: nobody     *)
(* else holds it, so nobody can rotate it away, and while the window that  *)
(* its rotation opened is open nobody can recover past it (Inv).  With one *)
(* browser the cookie then follows the chain (Followed).                   *)
(***************************************************************************)
EXTENDS SessionRotation, TLAPS

\* The fields of a call agree with where it is.
CallOK(r) ==
  /\ r.pc # "idle" => r.owner \in Holders /\ r.presented \in Secrets
  /\ r.secret # None => r.pc \in {"finish", "refuse", "done"}
  /\ r.answer = "rotated" => r.secret # None
  /\ r.pc = "done" => r.waited

\* A secret still carried by the call that minted it is held by nobody else.
Hidden(k) ==
  /\ \A c \in Clients : jar[c] # call[k].secret
  /\ \A j \in Calls : call[j].presented # call[k].secret
  /\ \A j \in Calls \ {k} : call[j].secret # call[k].secret

\* It is the current one, behind the window its rotation opened.
Pinned(k) ==
  /\ call[k].secret = row.current
  /\ row.grace = "open"
  /\ call[k].age = "opener"

\* What is condemned is stale, and what lost a race to rotate is not current.
Stale(r) ==
  /\ r.pc = "condemn" => r.presented \notin {row.current, row.previous}
  /\ Live /\ r.pc \in {"reread", "recover", "rereadRecovery"} => r.presented # row.current

Inv ==
  /\ TypeOK
  /\ \A k \in Calls : CallOK(call[k]) /\ Stale(call[k])
  /\ \A k \in Calls : call[k].secret # None => Hidden(k) /\ (Timely => Pinned(k))

\* While the browser waits for a call that advanced the chain, every call in
\* flight will end before the window does.
Covered == \A j, k \in Calls :
  (call[j].secret # None /\ call[j].waited /\ Active(k)) => call[k].age # "late"

\* A call that presents the previous secret although the browser already has
\* the current one will end before the window does.
Shielded == \A k \in Calls, c \in Holders :
  (Active(k) /\ call[k].presented = row.previous /\ jar[c] = row.current)
    => call[k].age # "late" /\ row.grace = "open"

\* The cookie is never behind a call, nor off the chain.
Followed ==
  /\ row.current # row.previous
  /\ \A c \in Holders : jar[c] \in {row.current, row.previous}
  /\ \A k \in Calls, c \in Holders : call[k].presented = row.current => jar[c] = row.current
  /\ Covered /\ Shielded

-----------------------------------------------------------------------------
(* Steps in which one call moves and the chain stays.                       *)

\* How a call may move without touching the chain: it ends, or it keeps what
\* it carries.
Moves(q, r) ==
  /\ r \in Exchange
  /\ CallOK(r)
  /\ \/ r = Idle
     \/ /\ q.pc # "idle" /\ r.pc # "idle"
        /\ r.presented = q.presented /\ r.secret = q.secret /\ r.age = q.age
        /\ r.waited => q.waited
  /\ Stale(r)

Quiet(k) ==
  /\ row' \in Session
  /\ row'.current = row.current /\ row'.previous = row.previous /\ row'.grace = row.grace
  /\ account' \in Accounts /\ faults' \in 0 .. MaxFaults
  /\ jar' = jar /\ (Live' => Live)
  /\ \E r : Moves(call[k], r) /\ call' = [call EXCEPT ![k] = r]

LEMMA IdleOK == Idle \in Exchange /\ CallOK(Idle)
  BY SessionAssumption DEF Idle, Exchange, CallOK, PCs, Answers, Accounts

\* A quiet step keeps the invariant.
LEMMA QuietKeepsInv ==
  ASSUME NEW k \in Calls, Inv, Quiet(k)
  PROVE  Inv'
  <1>1. PICK r : Moves(call[k], r) /\ call' = [call EXCEPT ![k] = r]
    BY DEF Quiet
  <1>2. call \in [Calls -> Exchange] /\ r \in Exchange
    BY <1>1 DEF Moves, Inv, TypeOK
  <1>3. TypeOK'
    BY <1>1, <1>2 DEF Quiet, Inv, TypeOK
  <1>4. \A j \in Calls : call'[j] = IF j = k THEN r ELSE call[j]
    BY <1>1, <1>2
  <1>5. r = Idle => r.pc = "idle" /\ r.secret = None /\ r.presented = None
    BY DEF Idle
  <1>6. \A j \in Calls : CallOK(call[j])'
    BY <1>1, <1>4 DEF Moves, Inv, CallOK, Quiet, Holders
  <1>7. \A j \in Calls : Stale(call[j])'
    BY <1>1, <1>4 DEF Moves, Inv, Stale, Quiet
  <1>8. ASSUME NEW j \in Calls, call'[j].secret # None
        PROVE  Hidden(j)' /\ (Timely => Pinned(j)')
    <2>1. call[j].secret = call'[j].secret /\ call[j].age = call'[j].age
      BY <1>1, <1>4, <1>5, <1>8 DEF Moves
    <2>2. Hidden(j) /\ (Timely => Pinned(j))
      BY <1>8, <2>1 DEF Inv
    <2>3. Pinned(j) => Pinned(j)'
      BY <2>1 DEF Pinned, Quiet
    <2>4. \A i \in Calls : /\ call'[i].presented \in {call[i].presented, None}
                           /\ call'[i].secret \in {call[i].secret, None}
      BY <1>1, <1>4, <1>5 DEF Moves
    <2>5. Hidden(j)'
      BY <1>8, <2>1, <2>2, <2>4 DEF Hidden, Quiet
    <2> QED BY <2>2, <2>3, <2>5
  <1> QED BY <1>3, <1>6, <1>7, <1>8 DEF Inv

\* A quiet step keeps the browser on the chain.
LEMMA QuietKeepsFollowed ==
  ASSUME NEW k \in Calls, Inv, Followed, Quiet(k)
  PROVE  Followed'
  <1>1. PICK r : Moves(call[k], r) /\ call' = [call EXCEPT ![k] = r]
    BY DEF Quiet
  <1>2. \A j \in Calls : call'[j] = IF j = k THEN r ELSE call[j]
    BY <1>1 DEF Inv, TypeOK
  <1>3. r = Idle => r.pc = "idle" /\ r.secret = None /\ r.presented = None /\ ~r.waited
    BY DEF Idle
  <1>4. row.current # None
    BY SessionAssumption DEF Inv, TypeOK, Session
  <1>5. \A j \in Calls : Active(j)' => /\ Active(j)
                                       /\ call'[j].presented = call[j].presented
                                       /\ call'[j].age = call[j].age
    BY <1>1, <1>2, <1>3 DEF Moves, Active
  <1>6. \A j \in Calls : call'[j].secret # None =>
          call[j].secret # None /\ (call'[j].waited => call[j].waited)
    BY <1>1, <1>2, <1>3 DEF Moves
  <1>7. \A j \in Calls, c \in Holders :
          call'[j].presented = row.current => jar[c] = row.current
    BY <1>1, <1>2, <1>3, <1>4 DEF Moves, Followed
  <1>8. Covered'
    BY <1>5, <1>6 DEF Covered, Followed
  <1>9. Shielded'
    BY <1>5 DEF Shielded, Followed, Quiet, Holders
  <1> QED BY <1>7, <1>8, <1>9 DEF Followed, Quiet, Holders


-----------------------------------------------------------------------------
(* The steps of a call that leave the chain alone are quiet.                *)

LEMMA ReplyMoves ==
  ASSUME NEW k \in Calls, Inv, NEW a \in Answers, call[k].pc # "idle",
         a = "rotated" => call[k].secret # None
  PROVE  Moves(call[k], Answered(k, a))
  <1>1. call[k] \in Exchange /\ CallOK(call[k])
    BY DEF Inv, TypeOK
  <1>2. CASE call[k].waited
    <2>1. Answered(k, a) = [call[k] EXCEPT !.pc = "done", !.answer = a]
      BY <1>2 DEF Answered
    <2>2. [call[k] EXCEPT !.pc = "done", !.answer = a] \in Exchange
      BY <1>1 DEF Exchange, PCs
    <2> QED BY <1>1, <1>2, <2>1, <2>2 DEF Moves, CallOK, Exchange, Stale
  <1>3. CASE ~call[k].waited
    BY <1>3, IdleOK DEF Answered, Moves, Idle, Stale
  <1> QED BY <1>2, <1>3

LEMMA GotoMoves ==
  ASSUME NEW k \in Calls, Inv, NEW p \in PCs, call[k].pc # "idle", p \notin {"idle", "done"},
         call[k].secret # None => p \in {"finish", "refuse"},
         Stale([call[k] EXCEPT !.pc = p])
  PROVE  Moves(call[k], [call[k] EXCEPT !.pc = p])
  <1>1. call[k] \in Exchange /\ CallOK(call[k])
    BY DEF Inv, TypeOK
  <1>2. [call[k] EXCEPT !.pc = p] \in Exchange
    BY <1>1 DEF Exchange
  <1> QED BY <1>1, <1>2 DEF Moves, CallOK, Exchange

\* What a quiet step must leave alone, for a step that leaves row alone.
LEMMA RowKept ==
  ASSUME Inv, NEW k \in Calls, NEW r, Moves(call[k], r),
         call' = [call EXCEPT ![k] = r],
         UNCHANGED << row, account, jar >>, faults' \in 0 .. MaxFaults
  PROVE  Quiet(k)
  BY DEF Quiet, Live, Inv, TypeOK

LEMMA FaultOK ==
  ASSUME Inv, Fault PROVE faults' \in 0 .. MaxFaults
  BY SessionAssumption DEF Inv, TypeOK, Fault

LEMMA ReplyQuiet ==
  ASSUME Inv, NEW k \in Calls, NEW a \in Answers, call[k].pc # "idle",
         a = "rotated" => call[k].secret # None, Reply(k, a),
         UNCHANGED << row, account, jar >>, faults' \in 0 .. MaxFaults
  PROVE  Quiet(k)
  BY ReplyMoves, RowKept DEF Reply

LEMMA GotoQuiet ==
  ASSUME Inv, NEW k \in Calls, NEW p \in PCs, call[k].pc # "idle", p \notin {"idle", "done"},
         call[k].secret # None => p \in {"finish", "refuse"},
         Stale([call[k] EXCEPT !.pc = p]),
         Goto(k, p),
         UNCHANGED << row, account, jar >>, faults' \in 0 .. MaxFaults
  PROVE  Quiet(k)
  <1>1. call' = [call EXCEPT ![k] = [call[k] EXCEPT !.pc = p]]
    BY DEF Goto
  <1> QED BY <1>1, GotoMoves, RowKept

\* Where a call that does not present the current secret may go.
LEMMA BehindQuiet ==
  ASSUME Inv, NEW k \in Calls, call[k].pc # "idle", call[k].secret = None,
         call[k].presented # row.current,
         Behind(k, Goto(k, "recover")) \/ Behind(k, Reply(k, "busy")),
         UNCHANGED << row, account, jar >>, faults' \in 0 .. MaxFaults
  PROVE  Quiet(k)
  <1> DEFINE to(p) == [call[k] EXCEPT !.pc = p]
  <1>1. /\ {"finish", "condemn", "recover"} \subseteq PCs
        /\ "busy" \in Answers
    BY DEF PCs, Answers
  <1>2. \A p \in PCs : to(p).pc = p /\ to(p).presented = call[k].presented
    BY DEF Inv, TypeOK, Exchange
  <1>3. CASE Goto(k, "finish")
    BY <1>1, <1>2, <1>3, GotoQuiet DEF Stale
  <1>4. CASE call[k].presented # row.previous /\ Goto(k, "condemn")
    <2>1. Stale(to("condemn"))
      BY <1>1, <1>2, <1>4 DEF Stale
    <2> QED BY <1>1, <1>4, <2>1, GotoQuiet
  <1>5. CASE Goto(k, "recover")
    <2>1. Stale(to("recover"))
      BY <1>1, <1>2 DEF Stale
    <2> QED BY <1>1, <1>5, <2>1, GotoQuiet
  <1>6. CASE Reply(k, "busy")
    BY <1>1, <1>6, ReplyQuiet
  <1> QED BY <1>3, <1>4, <1>5, <1>6 DEF Behind

LEMMA ReadQuiet ==
  ASSUME Inv, NEW k \in Calls, Read(k) PROVE Quiet(k)
  <1>1. call[k].pc = "read" /\ call[k].secret = None
    BY DEF Inv, CallOK, Read
  <1>2. UNCHANGED << row, account, jar >> /\ faults' \in 0 .. MaxFaults
    BY DEF Read, Inv, TypeOK
  <1>3. CASE Reply(k, "rejected")
    BY <1>1, <1>2, <1>3, ReplyQuiet DEF Answers
  <1>4. CASE Goto(k, "rotate")
    BY <1>1, <1>2, <1>4, GotoQuiet DEF PCs, Stale, Inv, TypeOK, Exchange
  <1>5. CASE call[k].presented # row.current /\ Behind(k, Goto(k, "recover"))
    BY <1>1, <1>2, <1>5, BehindQuiet
  <1> QED BY <1>3, <1>4, <1>5 DEF Read

LEMMA RereadQuiet ==
  ASSUME Inv, NEW k \in Calls, Reread(k) PROVE Quiet(k)
  <1>1. call[k].pc = "reread" /\ call[k].secret = None
    BY DEF Inv, CallOK, Reread
  <1>2. UNCHANGED << row, account, jar >> /\ faults' \in 0 .. MaxFaults
    BY DEF Reread, Inv, TypeOK
  <1>3. CASE Reply(k, "rejected")
    BY <1>1, <1>2, <1>3, ReplyQuiet DEF Answers
  <1>4. CASE Live /\ Behind(k, Goto(k, "recover"))
    BY <1>1, <1>2, <1>4, BehindQuiet DEF Inv, Stale
  <1> QED BY <1>3, <1>4 DEF Reread

LEMMA RereadRecoveryQuiet ==
  ASSUME Inv, NEW k \in Calls, RereadRecovery(k) PROVE Quiet(k)
  <1>1. call[k].pc = "rereadRecovery" /\ call[k].secret = None
    BY DEF Inv, CallOK, RereadRecovery
  <1>2. UNCHANGED << row, account, jar >> /\ faults' \in 0 .. MaxFaults
    BY DEF RereadRecovery, Inv, TypeOK
  <1>3. CASE Reply(k, "rejected")
    BY <1>1, <1>2, <1>3, ReplyQuiet DEF Answers
  <1>4. CASE Live /\ Behind(k, Reply(k, "busy"))
    BY <1>1, <1>2, <1>4, BehindQuiet DEF Inv, Stale
  <1> QED BY <1>3, <1>4 DEF RereadRecovery

\* What the end of an exchange does to the call.
LEMMA ServeMoves ==
  ASSUME Inv, NEW k \in Calls, call[k].pc # "idle", NEW b, Serve(k, b)
  PROVE  \E r : Moves(call[k], r) /\ call' = [call EXCEPT ![k] = r]
  <1>1. CASE Goto(k, "refuse")
    <2>1. call' = [call EXCEPT ![k] = [call[k] EXCEPT !.pc = "refuse"]]
      BY <1>1 DEF Goto
    <2>2. Stale([call[k] EXCEPT !.pc = "refuse"])
      BY DEF Stale, Inv, TypeOK, Exchange
    <2> QED BY <2>1, <2>2, GotoMoves DEF PCs
  <1>2. CASE Reply(k, Success(k))
    BY <1>2, ReplyMoves DEF Reply, Success, Answers
  <1>3. CASE Reply(k, "forbidden")
    BY <1>3, ReplyMoves DEF Reply, Answers
  <1> QED BY <1>1, <1>2, <1>3 DEF Serve

LEMMA FinishQuiet ==
  ASSUME Inv, NEW k \in Calls, Finish(k) PROVE Quiet(k)
  <1>1. call[k].pc = "finish" /\ call[k] \in Exchange /\ CallOK(call[k])
    BY DEF Inv, TypeOK, Finish
  <1>2. UNCHANGED << row, account, jar >> /\ faults' \in 0 .. MaxFaults
    BY DEF Finish, Inv, TypeOK
  <1>3. CASE Reply(k, "rejected")
    BY <1>1, <1>2, <1>3, ReplyQuiet DEF Answers
  <1>4. CASE /\ call[k].secret = None
             /\ call' = [call EXCEPT ![k].pc = "replay", ![k].user = account]
    <2> DEFINE r == [call[k] EXCEPT !.pc = "replay", !.user = account]
    <2>1. call' = [call EXCEPT ![k] = r]
      BY <1>4
    <2>2. r \in Exchange
      BY <1>1 DEF Exchange, PCs, Inv, TypeOK
    <2>3. Moves(call[k], r)
      BY <1>1, <1>4, <2>2 DEF Moves, CallOK, Stale, Exchange
    <2> QED BY <1>2, <2>1, <2>3, RowKept
  <1>5. CASE Serve(k, account)
    BY <1>1, <1>2, <1>5, ServeMoves, RowKept
  <1> QED BY <1>3, <1>4, <1>5 DEF Finish

LEMMA ReplayQuiet ==
  ASSUME Inv, NEW k \in Calls, Replay(k) PROVE Quiet(k)
  <1>1. call[k].pc = "replay" /\ call[k].secret = None
    BY DEF Inv, CallOK, Replay
  <1>2. UNCHANGED << account, jar >> /\ faults' \in 0 .. MaxFaults
    BY FaultOK DEF Replay, Inv, TypeOK
  <1>3. CASE /\ CanReplay /\ row' = [row EXCEPT !.replays = @ + 1]
             /\ Serve(k, call[k].user)
    <2>1. row' \in Session /\ (Live' => Live)
      BY <1>3, SessionAssumption DEF CanReplay, Live, Inv, TypeOK, Session
    <2>2. row'.current = row.current /\ row'.previous = row.previous /\ row'.grace = row.grace
      BY <1>3 DEF Inv, TypeOK, Session
    <2> QED BY <1>1, <1>2, <1>3, <2>1, <2>2, ServeMoves DEF Quiet, Inv, TypeOK
  <1>4. CASE Reply(k, "busy") /\ UNCHANGED row
    BY <1>1, <1>2, <1>4, ReplyQuiet DEF Answers
  <1>5. CASE Serve(k, call[k].user) /\ UNCHANGED row
    BY <1>1, <1>2, <1>5, ServeMoves, RowKept
  <1> QED BY <1>3, <1>4, <1>5 DEF Replay

\* A revocation leaves the chain alone.
LEMMA RevokedOK ==
  ASSUME Inv, row' = Revoked
  PROVE  /\ row' \in Session /\ (Live' => Live)
         /\ row'.current = row.current /\ row'.previous = row.previous
         /\ row'.grace = row.grace
  BY DEF Revoked, Live, Inv, TypeOK, Session

LEMMA RefuseQuiet ==
  ASSUME Inv, NEW k \in Calls, Refuse(k) PROVE Quiet(k)
  <1>1. PICK a \in {"rejected", "forbidden"} : Reply(k, a)
    BY DEF Refuse
  <1>2. Moves(call[k], Answered(k, a)) /\ call' = [call EXCEPT ![k] = Answered(k, a)]
    BY <1>1, ReplyMoves DEF Refuse, Reply, Answers
  <1>3. UNCHANGED << account, jar >> /\ faults' \in 0 .. MaxFaults
    BY FaultOK DEF Refuse, Inv, TypeOK
  <1>4. CASE row' = Revoked
    BY <1>2, <1>3, <1>4, RevokedOK DEF Quiet, Inv, TypeOK
  <1>5. CASE UNCHANGED row
    BY <1>2, <1>3, <1>5, RowKept
  <1> QED BY <1>4, <1>5 DEF Refuse

LEMMA CondemnQuiet ==
  ASSUME Inv, NEW k \in Calls, Condemn(k) PROVE Quiet(k)
  <1>1. /\ Moves(call[k], Answered(k, "rejected"))
        /\ call' = [call EXCEPT ![k] = Answered(k, "rejected")]
    BY ReplyMoves DEF Condemn, Reply, Answers
  <1> QED BY <1>1, RevokedOK DEF Condemn, Quiet, Inv, TypeOK

LEMMA EndQuiet ==
  ASSUME Inv, NEW k \in Calls, LoseResponse(k) \/ Crash(k) PROVE Quiet(k)
  <1>1. Moves(call[k], Idle) /\ call' = [call EXCEPT ![k] = Idle]
    BY IdleOK DEF Moves, Stale, Idle, LoseResponse, Crash
  <1> QED BY <1>1, FaultOK, RowKept DEF LoseResponse, Crash

LEMMA GiveUpQuiet ==
  ASSUME Inv, NEW k \in Calls, GiveUp(k) PROVE Quiet(k)
  <1> DEFINE r == [call[k] EXCEPT !.waited = FALSE]
  <1>1. call[k] \in Exchange /\ CallOK(call[k]) /\ Stale(call[k]) /\ call[k].pc \notin {"idle", "done"}
    BY DEF Inv, TypeOK, GiveUp
  <1>2. r \in Exchange /\ r.pc = call[k].pc /\ r.presented = call[k].presented
    BY <1>1 DEF Exchange
  <1>3. Moves(call[k], r)
    BY <1>1, <1>2 DEF Moves, CallOK, Stale, Exchange
  <1>4. call' = [call EXCEPT ![k] = r]
    BY DEF GiveUp
  <1> QED BY <1>3, <1>4, FaultOK, RowKept DEF GiveUp

-----------------------------------------------------------------------------
(* The steps that move the chain, the cookie or the window.                 *)

LEMMA InitInv == Init => Inv
  <1> SUFFICES ASSUME Init PROVE Inv
    OBVIOUS
  <1>1. PICK s \in Secrets, holders \in SUBSET Clients :
          /\ row = [current |-> s, previous |-> None, grace |-> "none", replays |-> 0,
                    recoveries |-> 0, revoked |-> FALSE, expired |-> FALSE]
          /\ jar = [c \in Clients |-> IF c \in holders THEN s ELSE None]
    BY DEF Init
  <1>2. TypeOK
    BY <1>1, SessionAssumption, IdleOK DEF Init, TypeOK, Session, Accounts
  <1>3. \A k \in Calls : call[k] = Idle
    BY DEF Init
  <1>4. \A k \in Calls : CallOK(call[k]) /\ Stale(call[k]) /\ call[k].secret = None
    BY <1>3, IdleOK DEF Idle, Stale
  <1> QED BY <1>2, <1>4 DEF Inv

LEMMA StartKeepsInv ==
  ASSUME Inv, NEW c \in Clients, NEW k \in Calls, Start(c, k) PROVE Inv'
  <1>1. PICK a \in {"early", "late"} :
          call' = [call EXCEPT ![k] = [Idle EXCEPT
            !.owner = c, !.presented = jar[c], !.pc = "read", !.waited = TRUE, !.age = a]]
    BY DEF Start
  <1> DEFINE r == [Idle EXCEPT
            !.owner = c, !.presented = jar[c], !.pc = "read", !.waited = TRUE, !.age = a]
  <1>2. UNCHANGED << row, account, jar, faults >> /\ jar[c] \in Secrets /\ c \in Holders
    BY DEF Start, Holders, Inv, TypeOK
  <1>3. /\ r.owner = c /\ r.presented = jar[c] /\ r.pc = "read" /\ r.waited
        /\ r.secret = None /\ r.answer = "none"
    BY DEF Idle
  <1>4. r \in Exchange
    BY <1>1, <1>2, IdleOK DEF Idle, Exchange, PCs, Answers
  <1>5. \A j \in Calls : call'[j] = IF j = k THEN r ELSE call[j]
    BY <1>1 DEF Inv, TypeOK
  <1> HIDE DEF r
  <1>6. TypeOK'
    BY <1>1, <1>2, <1>4 DEF Inv, TypeOK, r
  <1>7. \A j \in Calls : CallOK(call[j])' /\ Stale(call[j])'
    BY <1>2, <1>3, <1>5 DEF Inv, CallOK, Stale, Live, Holders
  <1>8. ASSUME NEW j \in Calls, call'[j].secret # None
        PROVE  Hidden(j)' /\ (Timely => Pinned(j)')
    <2>1. j # k /\ call'[j] = call[j]
      BY <1>3, <1>5, <1>8
    <2>2. Hidden(j) /\ (Timely => Pinned(j))
      BY <1>8, <2>1 DEF Inv
    <2> QED BY <1>2, <1>3, <1>5, <1>8, <2>1, <2>2 DEF Hidden, Pinned
  <1> QED BY <1>6, <1>7, <1>8 DEF Inv

\* An answer that sets no cookie is quiet.
LEMMA DeliverQuiet ==
  ASSUME Inv, NEW k \in Calls, Deliver(k), call[k].answer # "rotated" PROVE Quiet(k)
  <1>1. Moves(call[k], Idle) /\ call' = [call EXCEPT ![k] = Idle]
    BY IdleOK DEF Moves, Stale, Idle, Deliver
  <1> QED BY <1>1, RowKept DEF Deliver, Inv, TypeOK

LEMMA DeliverKeepsInv ==
  ASSUME Inv, NEW k \in Calls, Deliver(k), call[k].answer = "rotated" PROVE Inv'
  <1> DEFINE s == call[k].secret
  <1>1. /\ s \in Secrets /\ call[k].owner \in Holders
        /\ jar' = [jar EXCEPT ![call[k].owner] = s]
        /\ call' = [call EXCEPT ![k] = Idle]
        /\ UNCHANGED << row, account, faults >>
    BY DEF Deliver, Inv, TypeOK, CallOK, Exchange
  <1>2. TypeOK'
    BY <1>1, IdleOK DEF Inv, TypeOK
  <1>3. Holders' = Holders
    BY <1>1, SessionAssumption DEF Holders, Inv, TypeOK
  <1>4. \A j \in Calls : call'[j] = IF j = k THEN Idle ELSE call[j]
    BY <1>1 DEF Inv, TypeOK
  <1>5. Idle.secret = None /\ Idle.presented = None /\ Idle.pc = "idle"
    BY DEF Idle
  <1>6. \A j \in Calls : CallOK(call[j])' /\ Stale(call[j])'
    BY <1>1, <1>4, <1>5, <1>3, IdleOK DEF Inv, CallOK, Stale, Live
  <1>7. \A c \in Clients : jar'[c] \in {jar[c], s}
    BY <1>1 DEF Inv, TypeOK
  <1>8. ASSUME NEW j \in Calls, call'[j].secret # None
        PROVE  Hidden(j)' /\ (Timely => Pinned(j)')
    <2>1. j # k /\ call'[j] = call[j]
      BY <1>4, <1>5, <1>8
    <2>2. Hidden(j) /\ (Timely => Pinned(j))
      BY <1>8, <2>1 DEF Inv
    <2>3. Hidden(j)'
      BY <1>4, <1>5, <1>7, <1>8, <2>1, <2>2 DEF Hidden
    <2> QED BY <1>1, <2>1, <2>2, <2>3 DEF Pinned
  <1> QED BY <1>2, <1>6, <1>8 DEF Inv

\* A call advances the chain to s.
Wins(k, s) ==
  /\ call[k].pc \in {"rotate", "recover"}
  /\ s \in NewSecrets
  /\ call' = Won(k, s)
  /\ row' \in Session /\ row'.current = s /\ row'.grace = "open"
  /\ row'.previous \in {row.current, row.previous}
  /\ UNCHANGED << account, jar, faults >>

\* Everybody else's call is only marked as overtaken.
LEMMA WonCalls ==
  ASSUME Inv, NEW k \in Calls, NEW s \in Secrets, Wins(k, s)
  PROVE  /\ call' \in [Calls -> Exchange]
         /\ call'[k] = [call[k] EXCEPT !.pc = "finish", !.secret = s, !.age = "opener"]
         /\ \A j \in Calls \ {k} :
              /\ call'[j].owner = call[j].owner /\ call'[j].presented = call[j].presented
              /\ call'[j].secret = call[j].secret /\ call'[j].pc = call[j].pc
              /\ call'[j].waited = call[j].waited /\ call'[j].answer = call[j].answer
              /\ Active(j) => call'[j].age = "old"
  <1>1. call \in [Calls -> Exchange]
    BY DEF Inv, TypeOK
  <1>2. [call[k] EXCEPT !.pc = "finish", !.secret = s, !.age = "opener"] \in Exchange
    <2>1. call[k] \in Exchange /\ "finish" \in PCs
      BY <1>1 DEF PCs
    <2> QED BY <2>1 DEF Exchange
  <1>3. ASSUME NEW j \in Calls
        PROVE  /\ Overtaken(j) \in Exchange
               /\ Overtaken(j).owner = call[j].owner
               /\ Overtaken(j).presented = call[j].presented
               /\ Overtaken(j).secret = call[j].secret /\ Overtaken(j).pc = call[j].pc
               /\ Overtaken(j).waited = call[j].waited
               /\ Overtaken(j).answer = call[j].answer /\ Overtaken(j).age = "old"
    <2>1. PICK n \in 0 .. 2 : Overtaken(j) = [call[j] EXCEPT !.age = "old", !.overtaken = n]
      <3>1. call[j].overtaken \in 0 .. 2
        BY <1>1 DEF Exchange
      <3>2. (IF call[j].overtaken < 2 THEN call[j].overtaken + 1 ELSE call[j].overtaken) \in 0 .. 2
        BY <3>1
      <3> QED BY <3>2 DEF Overtaken
    <2>2. call[j] \in Exchange
      BY <1>1
    <2> QED BY <2>1, <2>2 DEF Exchange
  <1> QED BY <1>1, <1>2, <1>3 DEF Wins, Won

\* Nobody holds the new secret.
LEMMA NewSecretsFresh ==
  ASSUME NEW s \in NewSecrets
  PROVE  /\ s \in Secrets /\ s # row.current /\ s # row.previous
         /\ \A c \in Clients : jar[c] # s
         /\ \A k \in Calls : call[k].presented # s /\ call[k].secret # s
  BY DEF NewSecrets, Held

LEMMA WinsKeepsInv ==
  ASSUME Inv, NEW k \in Calls, NEW s \in NewSecrets, Wins(k, s),
         Timely => \A j \in Calls : call[j].secret = None
  PROVE  Inv'
  <1> DEFINE r == [call[k] EXCEPT !.pc = "finish", !.secret = s, !.age = "opener"]
  <1>1. s \in Secrets /\ s # None
    BY NewSecretsFresh, SessionAssumption
  <1>2. /\ r.pc = "finish" /\ r.secret = s /\ r.age = "opener" /\ r.owner = call[k].owner
        /\ r.presented = call[k].presented /\ r.waited = call[k].waited
        /\ r.answer = call[k].answer
    <2>1. call[k] \in Exchange
      BY DEF Inv, TypeOK
    <2> QED BY <2>1 DEF Exchange
  <1>3. call'[k] = r
    BY <1>1, WonCalls
  <1> HIDE DEF r
  <1>4. ASSUME NEW j \in Calls \ {k}
        PROVE  /\ call'[j].owner = call[j].owner /\ call'[j].presented = call[j].presented
               /\ call'[j].secret = call[j].secret /\ call'[j].pc = call[j].pc
               /\ call'[j].waited = call[j].waited /\ call'[j].answer = call[j].answer
    BY <1>1, WonCalls
  <1>5. /\ \A c \in Clients : jar[c] # s
        /\ \A j \in Calls : call[j].presented # s /\ call[j].secret # s
    BY NewSecretsFresh
  <1>6. TypeOK'
    BY <1>1, WonCalls DEF Wins, Inv, TypeOK
  <1>7. call[k].pc # "idle" /\ CallOK(call[k])
    BY DEF Inv, Wins
  <1>8. CallOK(call[k])'
    BY <1>1, <1>2, <1>3, <1>7 DEF CallOK, Holders, Wins
  <1>9. \A j \in Calls \ {k} : CallOK(call[j])'
    BY <1>4 DEF Inv, CallOK, Holders, Wins
  <1>10. Stale(call[k])'
    BY <1>2, <1>3 DEF Stale
  <1>11. \A j \in Calls \ {k} : Stale(call[j])'
    <2> SUFFICES ASSUME NEW j \in Calls \ {k} PROVE Stale(call[j])'
      OBVIOUS
    <2>1. call'[j].presented = call[j].presented /\ call'[j].pc = call[j].pc
      BY <1>4
    <2>2. call[j].presented # s
      BY <1>5
    <2>3. row'.current = s /\ row'.previous \in {row.current, row.previous}
      BY DEF Wins
    <2>4. Stale(call[j])
      BY DEF Inv
    <2> QED BY <2>1, <2>2, <2>3, <2>4 DEF Stale
  <1>12. Hidden(k)' /\ Pinned(k)'
    <2>1. Pinned(k)'
      BY <1>2, <1>3 DEF Pinned, Wins
    <2>2. \A j \in Calls : call'[j].presented = call[j].presented
      BY <1>4, <1>2, <1>3
    <2>3. \A j \in Calls \ {k} : call'[j].secret # s
      BY <1>4, <1>5
    <2>4. call'[k].secret = s /\ jar' = jar
      BY <1>2, <1>3 DEF Wins
    <2> QED BY <1>5, <2>1, <2>2, <2>3, <2>4 DEF Hidden
  <1>13. ASSUME NEW j \in Calls \ {k}, call'[j].secret # None
         PROVE  Hidden(j)' /\ (Timely => Pinned(j)')
    <2>1. call'[j].secret = call[j].secret /\ ~Timely
      BY <1>4, <1>13
    <2>2. Hidden(j)
      BY <1>13, <2>1 DEF Inv
    <2>3. \A i \in Calls : call'[i].presented = call[i].presented
      BY <1>4, <1>2, <1>3
    <2>4. call'[k].secret # call'[j].secret
      BY <1>2, <1>3, <1>5, <2>1
    <2>5. ASSUME NEW i \in Calls \ {j} PROVE call'[i].secret # call'[j].secret
      <3>1. CASE i = k
        BY <2>4, <3>1
      <3>2. CASE i # k
        <4>1. call'[i].secret = call[i].secret
          BY <1>4, <3>2
        <4> QED BY <2>1, <2>2, <4>1 DEF Hidden
      <3> QED BY <3>1, <3>2
    <2> QED BY <2>1, <2>2, <2>3, <2>5 DEF Hidden, Wins
  <1> QED BY <1>6, <1>8, <1>9, <1>10, <1>11, <1>12, <1>13 DEF Inv

LEMMA RotateWins ==
  ASSUME Inv, NEW k \in Calls, Rotate(k), CanRotate(k)
  PROVE  /\ \E s \in NewSecrets : Wins(k, s) /\ row'.previous = row.current
         /\ Timely => \A j \in Calls : call[j].secret = None
  <1>1. PICK s \in NewSecrets : row' = Rotated(s) /\ call' = Won(k, s)
    BY DEF Rotate
  <1>2. row' \in Session /\ row'.current = s /\ row'.grace = "open" /\ row'.previous = row.current
    <2>1. row \in Session /\ s \in Secrets /\ 0 \in 0 .. MaxReplays /\ 0 \in 0 .. MaxRecoveries
      BY NewSecretsFresh, SessionAssumption DEF Inv, TypeOK
    <2> QED BY <1>1, <2>1 DEF Rotated, Session
  <1>3. Wins(k, s)
    BY <1>1, <1>2 DEF Wins, Rotate
  <1>4. ASSUME Timely, NEW j \in Calls PROVE call[j].secret = None
    BY <1>4 DEF Inv, Hidden, Pinned, CanRotate
  <1> QED BY <1>2, <1>3, <1>4

LEMMA RecoverWins ==
  ASSUME Inv, NEW k \in Calls, Recover(k), CanRecover(k)
  PROVE  /\ \E s \in NewSecrets : Wins(k, s) /\ row'.previous = row.previous
         /\ Timely => \A j \in Calls : call[j].secret = None
  <1>1. PICK s \in NewSecrets : row' = Recovered(s) /\ call' = Won(k, s)
    BY DEF Recover
  <1>2. row' \in Session
    <2>1. row \in Session /\ s \in Secrets /\ 0 \in 0 .. MaxReplays
      BY NewSecretsFresh, SessionAssumption DEF Inv, TypeOK
    <2>2. row.recoveries + 1 \in 0 .. MaxRecoveries
      BY <2>1, SessionAssumption DEF CanRecover, Session
    <2> QED BY <1>1, <2>1, <2>2 DEF Recovered, Session
  <1>3. row'.current = s /\ row'.grace = "open" /\ row'.previous = row.previous
    BY <1>1 DEF Recovered, Inv, TypeOK, Session
  <1>4. Wins(k, s)
    BY <1>1, <1>2, <1>3 DEF Wins, Recover
  <1>5. ASSUME Timely, NEW j \in Calls PROVE call[j].secret = None
    BY <1>5 DEF Inv, Pinned, CanRecover
  <1> QED BY <1>3, <1>4, <1>5

\* A lost race is quiet.
LEMMA LostQuiet ==
  ASSUME Inv, NEW k \in Calls,
         (Rotate(k) /\ ~CanRotate(k)) \/ (Recover(k) /\ ~CanRecover(k))
  PROVE  Quiet(k)
  <1>1. UNCHANGED << row, account, jar >> /\ faults' \in 0 .. MaxFaults
    BY DEF Rotate, Recover, Inv, TypeOK
  <1>2. CASE Rotate(k) /\ ~CanRotate(k)
    <2>1. call[k].pc = "rotate" /\ call[k].secret = None /\ Goto(k, "reread")
      BY <1>2 DEF Rotate, Inv, CallOK
    <2>2. Stale([call[k] EXCEPT !.pc = "reread"])
      BY <1>2 DEF CanRotate, Stale, Inv, TypeOK, Exchange
    <2> QED BY <1>1, <2>1, <2>2, GotoQuiet DEF PCs
  <1>3. CASE Recover(k) /\ ~CanRecover(k)
    <2>1. call[k].pc = "recover" /\ call[k].secret = None /\ Goto(k, "rereadRecovery")
      BY <1>3 DEF Recover, Inv, CallOK
    <2>2. Stale([call[k] EXCEPT !.pc = "rereadRecovery"])
      BY <2>1 DEF Stale, Inv, TypeOK, Exchange
    <2> QED BY <1>1, <2>1, <2>2, GotoQuiet DEF PCs
  <1> QED BY <1>2, <1>3

\* Outside a call, only the window matters to the invariant.
LEMMA OutsideKeepsInv ==
  ASSUME Inv, CloseWindow \/ RevokeElsewhere \/ Expire \/ ChangeAccount PROVE Inv'
  <1>1. /\ TypeOK' /\ row'.current = row.current /\ row'.previous = row.previous
        /\ UNCHANGED << jar, call >> /\ (Live' => Live)
    BY DEF CloseWindow, RevokeElsewhere, Expire, ChangeAccount, Revoked, Live, Inv, TypeOK,
           Session, Accounts
  <1>2. \A k \in Calls : CallOK(call[k])' /\ Stale(call[k])' /\ (Hidden(k) => Hidden(k)')
    BY <1>1 DEF Inv, CallOK, Stale, Hidden, Holders
  <1>3. ASSUME Timely, NEW k \in Calls, call[k].secret # None PROVE Pinned(k)'
    <2>1. Pinned(k)
      BY <1>3 DEF Inv
    <2>2. ~CloseWindow
      BY <1>3, <2>1 DEF Pinned, CloseWindow
    <2>3. row'.grace = row.grace
      BY <2>2 DEF RevokeElsewhere, Expire, ChangeAccount, Revoked, Inv, TypeOK, Session
    <2> QED BY <1>1, <2>1, <2>3 DEF Pinned
  <1> QED BY <1>1, <1>2, <1>3 DEF Inv

\* The steps that are not quiet.
Moving(k) == \/ Deliver(k) /\ call[k].answer = "rotated"
             \/ Rotate(k) /\ CanRotate(k)
             \/ Recover(k) /\ CanRecover(k)

LEMMA QuietOrMoving ==
  ASSUME Inv, NEW k \in Calls, Step(k) \/ Crash(k) \/ GiveUp(k) \/ LoseResponse(k)
  PROVE  Quiet(k) \/ Moving(k)
  <1>1. CASE Read(k) \/ Reread(k) \/ RereadRecovery(k) \/ Finish(k) \/ Replay(k)
    BY <1>1, ReadQuiet, RereadQuiet, RereadRecoveryQuiet, FinishQuiet, ReplayQuiet
  <1>2. CASE Refuse(k) \/ Condemn(k) \/ LoseResponse(k) \/ Crash(k) \/ GiveUp(k)
    BY <1>2, RefuseQuiet, CondemnQuiet, EndQuiet, GiveUpQuiet
  <1>3. CASE Rotate(k)
    <2>1. CASE CanRotate(k)
      BY <1>3, <2>1 DEF Moving
    <2>2. CASE ~CanRotate(k)
      BY <1>3, <2>2, LostQuiet
    <2> QED BY <2>1, <2>2
  <1>4. CASE Recover(k)
    BY <1>4, LostQuiet DEF Moving
  <1>5. CASE Deliver(k)
    <2>1. CASE call[k].answer = "rotated"
      BY <1>5, <2>1 DEF Moving
    <2>2. CASE call[k].answer # "rotated"
      BY <1>5, <2>2, DeliverQuiet
    <2> QED BY <2>1, <2>2
  <1> QED BY <1>1, <1>2, <1>3, <1>4, <1>5 DEF Step

LEMMA NextKeepsInv ==
  ASSUME Inv, [Next]_vars PROVE Inv'
  <1>1. ASSUME NEW c \in Clients, NEW k \in Calls, Start(c, k) PROVE Inv'
    BY <1>1, StartKeepsInv
  <1>2. ASSUME NEW k \in Calls, Step(k) \/ Crash(k) \/ GiveUp(k) \/ LoseResponse(k)
        PROVE  Inv'
    BY <1>2, QuietOrMoving, QuietKeepsInv, DeliverKeepsInv, RotateWins, RecoverWins,
       WinsKeepsInv DEF Moving
  <1>3. CASE CloseWindow \/ RevokeElsewhere \/ Expire \/ ChangeAccount
    BY <1>3, OutsideKeepsInv
  <1>4. CASE UNCHANGED vars
    BY <1>4 DEF vars, Inv, TypeOK, CallOK, Stale, Live, Hidden, Pinned, Holders
  <1> QED BY <1>1, <1>2, <1>3, <1>4 DEF Next

-----------------------------------------------------------------------------
(* A browser alone, timely clocks: the cookie follows the chain.            *)

LEMMA InitFollowed ==
  ASSUME Init PROVE Followed
  <1>1. PICK s \in Secrets : row.current = s /\ row.previous = None
                           /\ \A c \in Holders : jar[c] = s
    BY DEF Init, Holders
  <1>2. \A k \in Calls : call[k].pc = "idle" /\ call[k].presented = None
    BY DEF Init, Idle
  <1> QED BY <1>1, <1>2, SessionAssumption DEF Followed, Covered, Shielded, Active

LEMMA StartKeepsFollowed ==
  ASSUME Alone, Timely, Inv, Followed, NEW c \in Clients, NEW k \in Calls, Start(c, k)
  PROVE  Followed'
  <1>1. UNCHANGED << row, account, jar, faults >> /\ c \in Holders /\ Holders' = Holders
    BY DEF Start, Holders
  <1>2. /\ call'[k].presented = jar[c] /\ call'[k].secret = None
        /\ (\E j \in Calls : call[j].age = "opener" /\ call[j].waited) => call'[k].age = "early"
        /\ \A j \in Calls \ {k} : call'[j] = call[j]
    BY DEF Start, Idle, Inv, TypeOK
  <1>3. \A d \in Holders : d = c
    BY <1>1 DEF Alone
  <1>4. \A j \in Calls, d \in Holders : call'[j].presented = row.current => jar[d] = row.current
    BY <1>2, <1>3 DEF Followed
  <1>5. Covered'
    <2> SUFFICES ASSUME NEW i \in Calls, NEW j \in Calls,
                        call'[i].secret # None, call'[i].waited, Active(j)'
                 PROVE  call'[j].age # "late"
      BY DEF Covered
    <2>1. i # k /\ call'[i] = call[i]
      BY <1>2
    <2>2. CASE j = k
      BY <1>2, <2>1, <2>2 DEF Inv, Pinned
    <2>3. CASE j # k
      BY <1>2, <2>1, <2>3 DEF Followed, Covered, Active
    <2> QED BY <2>2, <2>3
  <1>6. Shielded'
    <2> SUFFICES ASSUME NEW j \in Calls, NEW d \in Holders,
                        Active(j)', call'[j].presented = row.previous, jar[d] = row.current
                 PROVE  call'[j].age # "late" /\ row.grace = "open"
      BY <1>1 DEF Shielded
    <2>1. j # k
      BY <1>2, <1>3 DEF Followed
    <2> QED BY <1>2, <2>1 DEF Followed, Shielded, Active
  <1> QED BY <1>1, <1>4, <1>5, <1>6 DEF Followed

LEMMA DeliverKeepsFollowed ==
  ASSUME Alone, Timely, Inv, Followed, NEW k \in Calls, Deliver(k),
         call[k].answer = "rotated"
  PROVE  Followed'
  <1>1. /\ call[k].secret # None /\ call[k].waited /\ call[k].owner \in Holders
    BY DEF Inv, CallOK, Deliver
  <1>2. call[k].secret = row.current /\ row.grace = "open"
    BY <1>1 DEF Inv, Pinned
  <1>3. UNCHANGED << row, account, faults >> /\ jar' = [jar EXCEPT ![call[k].owner] = row.current]
    BY <1>2 DEF Deliver
  <1>4. row.current \in Secrets /\ jar \in [Clients -> Secrets \cup {None}]
    BY DEF Inv, TypeOK, Session
  <1>5. Holders' = Holders
    BY <1>1, <1>3, <1>4, SessionAssumption DEF Holders
  <1>6. \A c \in Holders : jar'[c] = row.current
    BY <1>1, <1>3, <1>4 DEF Alone, Holders
  <1>7. \A j \in Calls : call'[j] = IF j = k THEN Idle ELSE call[j]
    BY DEF Deliver, Inv, TypeOK
  <1>8. Idle.pc = "idle" /\ Idle.secret = None /\ Idle.presented = None
    BY DEF Idle
  <1>9. \A j \in Calls : Active(j)' => j # k /\ call'[j] = call[j] /\ Active(j)
    BY <1>7, <1>8 DEF Active
  <1>10. Covered'
    BY <1>7, <1>8, <1>9 DEF Followed, Covered
  <1>11. Shielded'
    BY <1>1, <1>2, <1>3, <1>9 DEF Followed, Covered, Shielded
  <1> QED BY <1>3, <1>6, <1>10, <1>11, <1>5 DEF Followed

\* What a call that advances the chain must know of the cookie.
LEMMA WinsKeepsFollowed ==
  ASSUME Inv, Followed, NEW k \in Calls, NEW s \in NewSecrets, Wins(k, s),
         \A j \in Calls : call[j].secret = None,
         \A c \in Holders : jar[c] = row'.previous
  PROVE  Followed'
  <1>1. /\ s \in Secrets /\ s # row'.previous /\ row'.current = s /\ jar' = jar
        /\ \A c \in Clients : jar[c] # s
        /\ \A j \in Calls : call[j].presented # s
    BY NewSecretsFresh DEF Wins
  <1>2. call'[k] = [call[k] EXCEPT !.pc = "finish", !.secret = s, !.age = "opener"]
    BY <1>1, WonCalls
  <1>3. \A j \in Calls : /\ call'[j].presented = call[j].presented
                         /\ Active(j)' => call'[j].age # "late"
    <2> TAKE j \in Calls
    <2>1. CASE j = k
      <3>1. call[k] \in Exchange
        BY DEF Inv, TypeOK
      <3>2. call'[k].presented = call[k].presented /\ call'[k].age = "opener"
        BY <1>2, <3>1 DEF Exchange
      <3> QED BY <2>1, <3>2
    <2>2. CASE j # k
      BY <1>1, <2>2, WonCalls DEF Active
    <2> QED BY <2>1, <2>2
  <1> QED BY <1>1, <1>3 DEF Followed, Covered, Shielded, Holders

LEMMA RotateKeepsFollowed ==
  ASSUME Timely, Inv, Followed, NEW k \in Calls, Rotate(k), CanRotate(k)
  PROVE  Followed'
  <1>1. \A c \in Holders : jar[c] = row.current
    BY DEF CanRotate, Followed
  <1> QED BY <1>1, RotateWins, WinsKeepsFollowed

LEMMA RecoverKeepsFollowed ==
  ASSUME Timely, Inv, Followed, NEW k \in Calls, Recover(k), CanRecover(k)
  PROVE  Followed' /\ \A c \in Holders : jar[c] # row.current
  <1>1. \A c \in Holders : jar[c] = row.previous /\ jar[c] # row.current
    BY DEF Recover, CanRecover, Followed, Shielded, Active
  <1> QED BY <1>1, RecoverWins, WinsKeepsFollowed

LEMMA OutsideKeepsFollowed ==
  ASSUME Timely, Inv, Followed, CloseWindow \/ RevokeElsewhere \/ Expire \/ ChangeAccount
  PROVE  Followed'
  <1>1. /\ row'.current = row.current /\ row'.previous = row.previous
        /\ UNCHANGED << jar, call >>
        /\ row'.grace = row.grace \/ \A k \in Calls : call[k].age = "late"
    BY DEF CloseWindow, RevokeElsewhere, Expire, ChangeAccount, Revoked, Inv, TypeOK, Session
  <1> QED BY <1>1 DEF Followed, Covered, Shielded, Active, Holders

LEMMA NextKeepsFollowed ==
  ASSUME Alone, Timely, Inv, Followed, [Next]_vars PROVE Followed'
  <1>1. ASSUME NEW c \in Clients, NEW k \in Calls, Start(c, k) PROVE Followed'
    BY <1>1, StartKeepsFollowed
  <1>2. ASSUME NEW k \in Calls, Step(k) \/ Crash(k) \/ GiveUp(k) \/ LoseResponse(k)
        PROVE  Followed'
    <2>1. CASE Quiet(k)
      BY <2>1, QuietKeepsFollowed
    <2>2. CASE Moving(k)
      BY <2>2, DeliverKeepsFollowed, RotateKeepsFollowed, RecoverKeepsFollowed DEF Moving
    <2> QED BY <1>2, <2>1, <2>2, QuietOrMoving
  <1>3. CASE CloseWindow \/ RevokeElsewhere \/ Expire \/ ChangeAccount
    BY <1>3, OutsideKeepsFollowed
  <1>4. CASE UNCHANGED vars
    BY <1>4 DEF vars, Followed, Covered, Shielded, Active, Holders
  <1> QED BY <1>1, <1>2, <1>3, <1>4 DEF Next

\* No step signs a browser in or out.
LEMMA HoldersFixed ==
  ASSUME Inv, [Next]_vars PROVE Holders' = Holders
  <1>1. ASSUME NEW k \in Calls, Deliver(k), call[k].answer = "rotated"
        PROVE  Holders' = Holders
    <2>1. /\ call[k].secret \in Secrets /\ call[k].owner \in Holders
          /\ jar' = [jar EXCEPT ![call[k].owner] = call[k].secret]
          /\ jar \in [Clients -> Secrets \cup {None}]
      BY <1>1 DEF Deliver, Inv, TypeOK, CallOK, Exchange
    <2> QED BY <2>1, SessionAssumption DEF Holders
  <1>2. ASSUME NEW k \in Calls, Quiet(k) \/ Rotate(k) \/ Recover(k) PROVE jar' = jar
    BY <1>2 DEF Quiet, Rotate, Recover
  <1>3. ASSUME NEW k \in Calls, Step(k) \/ Crash(k) \/ GiveUp(k) \/ LoseResponse(k)
        PROVE  Holders' = Holders
    BY <1>1, <1>2, <1>3, QuietOrMoving DEF Moving, Holders
  <1>4. CASE \E c \in Clients, k \in Calls : Start(c, k)
    BY <1>4 DEF Start, Holders
  <1>5. CASE CloseWindow \/ RevokeElsewhere \/ Expire \/ ChangeAccount \/ UNCHANGED vars
    BY <1>5 DEF CloseWindow, RevokeElsewhere, Expire, ChangeAccount, vars, Holders
  <1> QED BY <1>3, <1>4, <1>5 DEF Next

-----------------------------------------------------------------------------
(* Theorems.                                                                *)

THEOREM Invariance == Spec => []Inv
  <1>1. Inv /\ [Next]_vars => Inv'
    BY NextKeepsInv
  <1> QED BY InitInv, <1>1, PTL DEF Spec

\* Type correctness: every exchange, every retry and every failure keeps the
\* row, the cookies and the calls within their types.
THEOREM TypeCorrectness == Spec => []TypeOK
  <1>1. Inv => TypeOK
    BY DEF Inv
  <1> QED BY Invariance, <1>1, PTL

\* If calls end before a grace window closes, the server never hands out a
\* token that was replaced meanwhile: whatever rotateSession answers is, until
\* it is delivered or lost, the row's current secret.
THEOREM HandedOutIsCurrent == ASSUME Timely PROVE Spec => []HandsOutCurrent
  <1>1. Inv => HandsOutCurrent
    BY DEF Inv, CallOK, Pinned, HandsOutCurrent
  <1> QED BY Invariance, <1>1, PTL

\* revokeForReuse is only ever reached, by however many racing calls and
\* whatever the clocks do, with a secret that is neither the row's current one
\* nor its previous one.
THEOREM OnlyStaleRevokes == Spec => RevokedOnlyIfStale
  <1>1. Inv /\ [Next]_vars =>
          [\A k \in Calls :
             Condemn(k) => call[k].presented \notin {row.current, row.previous}]_vars
    BY DEF Inv, Stale, Condemn
  <1> QED BY Invariance, <1>1, PTL DEF Spec, RevokedOnlyIfStale

THEOREM Following == ASSUME Timely PROVE Spec => [](Alone => Followed)
  <1>1. Init => Followed
    BY InitFollowed
  <1>2. Inv /\ (Alone => Followed) /\ [Next]_vars => (Alone => Followed)'
    BY NextKeepsFollowed, HoldersFixed DEF Alone
  <1> QED BY Invariance, <1>1, <1>2, PTL DEF Spec

\* A browser alone on its session always holds the current or the previous
\* secret, whatever was lost, abandoned or raced: it can exchange or recover.
THEOREM CookieStaysUsable == ASSUME Timely PROVE Spec => []CookieUsable
  <1>1. (Alone => Followed) => CookieUsable
    BY DEF Followed, CookieUsable
  <1> QED BY Following, <1>1, PTL

\* Recovery past the grace window never discards the successor that a browser
\* alone on its session holds.
THEOREM RecoverySafe == ASSUME Timely PROVE Spec => RecoveryDiscardsUndelivered
  <1>1. Inv /\ (Alone => Followed) /\ [Next]_vars =>
          [row'.recoveries > row.recoveries /\ Alone
             => \A c \in Holders : jar[c] # row.current]_vars
    <2> SUFFICES ASSUME Inv, Followed, Next, row'.recoveries > row.recoveries
                 PROVE  \A c \in Holders : jar[c] # row.current
      BY DEF vars
    <2>1. row \in Session
      BY DEF Inv, TypeOK
    <2>2. row' # row
      BY <2>1 DEF Session
    <2>3. ASSUME NEW k \in Calls, Rotate(k) PROVE FALSE
      <3>1. row'.recoveries = 0
        BY <2>1, <2>2, <2>3 DEF Rotate, Rotated, Session
      <3> QED BY <2>1, <3>1 DEF Session
    <2>4. ASSUME NEW k \in Calls, Replay(k) PROVE FALSE
      BY <2>1, <2>2, <2>4 DEF Replay, Session
    <2>5. row' # Revoked
      BY <2>1 DEF Revoked, Session
    <2>6. ~CloseWindow /\ ~Expire
      BY <2>1 DEF CloseWindow, Expire, Session
    <2>7. PICK k \in Calls : Recover(k)
      BY <2>2, <2>3, <2>4, <2>5, <2>6 DEF Next, Step, Start, Read, Reread, RereadRecovery,
         Finish, Refuse, Condemn, Deliver, Crash, GiveUp, LoseResponse, RevokeElsewhere,
         ChangeAccount
    <2>8. CanRecover(k)
      BY <2>2, <2>7 DEF Recover
    <2> QED BY <2>7, <2>8, RecoverKeepsFollowed
  <1> QED BY Invariance, Following, <1>1, PTL DEF Spec, RecoveryDiscardsUndelivered
=============================================================================
