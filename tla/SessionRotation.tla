-------------------------- MODULE SessionRotation --------------------------
(***************************************************************************)
(* One sign-in session: the row of AuthSessionModel, the browsers that     *)
(* hold its refresh token in a cookie jar their tabs share, and the calls  *)
(* of /api/auth/refreshToken that exchange it (rotateSession.ts).          *)
(*                                                                         *)
(* A call is a sequence of awaited database calls, one action each; other  *)
(* calls run in between, its process may die and its response may be lost. *)
(* A new secret is any secret nobody holds: secrets only matter by who     *)
(* holds them, so a finite set of them serves any number of rotations.     *)
(*                                                                         *)
(* Clocks are replaced by what they order.  A call lives 60 s (the Lambda  *)
(* timeout of infra/web.ts), a browser waits 10 s of them, and the grace   *)
(* window stays open 120 s from the rotation's first read: so it is still  *)
(* open when the calls that were in flight when it opened have ended, and  *)
(* those begun before the browser stopped waiting for the rotation.        *)
(***************************************************************************)
EXTENDS Integers, FiniteSets

CONSTANTS
  Clients,        \* browsers
  Locks,          \* those that have Web Locks, so that their tabs take turns
  MaxHolders,     \* bound: browsers that hold the session's token
  Calls,          \* slots for exchanges in flight
  Secrets, None,  \* refresh secrets, and their absence
  MaxReplays, MaxRecoveries,
  Timely,         \* do calls end and windows close in the order above?
  Impersonated,   \* is it a session an admin opened as the user?
  Events,         \* what else may happen to the session or its user
  MaxFaults       \* bound: crashes, lost responses, timeouts, failed writes

ASSUME SessionAssumption ==
  /\ None \notin Secrets \cup Clients
  /\ Locks \subseteq Clients /\ MaxHolders \in Nat \ {0}
  /\ MaxReplays \in Nat /\ MaxRecoveries \in Nat /\ MaxFaults \in Nat
  /\ {Timely, Impersonated} \subseteq BOOLEAN
  /\ Events \subseteq {"revoke", "expire", "block", "delete", "reserve"}

VARIABLES
  row,      \* the AuthSession document
  account,  \* the user: usable, blocked, deleted or a system account
  jar,      \* the secret in each browser's cookie
  call,     \* each exchange, see Idle
  faults

vars == << row, account, jar, call, faults >>

PCs == {"idle", "read", "rotate", "reread", "recover", "rereadRecovery",
        "finish", "replay", "refuse", "condemn", "done"}
Accounts == {"usable", "blocked", "deleted", "system"}
Answers == {"none", "rotated", "coalesced", "rejected", "busy", "forbidden"}

\* age says when the call began relative to the grace window that was opened
\* last: it opened it, was in flight then, began while the browser waited for
\* the opener, or later.  overtaken counts, up to two, the times another call
\* advanced the chain since this one began; no action depends on it.
Idle == [owner |-> None, presented |-> None, secret |-> None, pc |-> "idle",
         waited |-> FALSE, user |-> "usable", answer |-> "none", age |-> "late",
         overtaken |-> 0]

Session ==
  [current : Secrets, previous : Secrets \cup {None}, grace : {"none", "open", "closed"},
   replays : 0 .. MaxReplays, recoveries : 0 .. MaxRecoveries,
   revoked : BOOLEAN, expired : BOOLEAN]
Exchange ==
  [owner : Clients \cup {None}, presented : Secrets \cup {None},
   secret : Secrets \cup {None}, pc : PCs, waited : BOOLEAN, user : Accounts,
   answer : Answers, age : {"opener", "old", "early", "late"}, overtaken : 0 .. 2]

TypeOK ==
  /\ row \in Session
  /\ account \in Accounts
  /\ jar \in [Clients -> Secrets \cup {None}]
  /\ call \in [Calls -> Exchange]
  /\ faults \in 0 .. MaxFaults

Init ==
  /\ \E s \in Secrets, holders \in SUBSET Clients :
       /\ Cardinality(holders) \in 1 .. MaxHolders
       /\ row = [current |-> s, previous |-> None, grace |-> "none", replays |-> 0,
                 recoveries |-> 0, revoked |-> FALSE, expired |-> FALSE]
       /\ jar = [c \in Clients |-> IF c \in holders THEN s ELSE None]
  /\ account = "usable"
  /\ call = [k \in Calls |-> Idle]
  /\ faults = 0

Live == ~row.revoked /\ ~row.expired
Active(k) == call[k].pc # "idle"
Holders == {c \in Clients : jar[c] # None}
Alone == \A c, d \in Holders : c = d

\* Everything a new secret must differ from.
Held == {row.current, row.previous}
          \cup {jar[c] : c \in Clients}
          \cup UNION {{call[k].presented, call[k].secret} : k \in Calls}

NewSecrets == Secrets \ Held

-----------------------------------------------------------------------------
(* The browser (refreshCoordinator.ts).                                     *)

\* An access token expired or a page was loaded.
Start(c, k) ==
  /\ ~Active(k) /\ c \in Holders
  /\ c \in Locks => \A j \in Calls : ~(call[j].owner = c /\ call[j].waited)
  /\ call' = [call EXCEPT ![k] = [Idle EXCEPT
       !.owner = c, !.presented = jar[c], !.pc = "read", !.waited = TRUE,
       !.age = IF \E j \in Calls : call[j].age = "opener" /\ call[j].waited
                 THEN "early" ELSE "late"]]
  /\ UNCHANGED << row, account, jar, faults >>

\* Only a rotated answer sets the cookie; no answer clears it.
Deliver(k) ==
  /\ call[k].pc = "done"
  /\ call' = [call EXCEPT ![k] = Idle]
  /\ jar' = IF call[k].answer = "rotated"
              THEN [jar EXCEPT ![call[k].owner] = call[k].secret] ELSE jar
  /\ UNCHANGED << row, account, faults >>

Fault == faults < MaxFaults /\ faults' = faults + 1

LoseResponse(k) ==
  /\ Fault
  /\ call[k].pc = "done"
  /\ call' = [call EXCEPT ![k] = Idle]
  /\ UNCHANGED << row, account, jar >>

\* The browser's timeout; the call runs on and nobody sees its answer.
GiveUp(k) ==
  /\ Fault
  /\ call[k].pc \notin {"idle", "done"} /\ call[k].waited
  /\ call' = [call EXCEPT ![k].waited = FALSE]
  /\ UNCHANGED << row, account, jar >>

-----------------------------------------------------------------------------
(* The call.                                                                *)

Goto(k, at) == call' = [call EXCEPT ![k].pc = at]

\* An answer nobody waits for is the end of the call.
Answered(k, a) ==
  IF call[k].waited THEN [call[k] EXCEPT !.pc = "done", !.answer = a] ELSE Idle
Reply(k, a) == call' = [call EXCEPT ![k] = Answered(k, a)]

\* Mutant: no recovery, a lost successor is theft.
BehindOrTheft(k, elapsed) ==
  IF call[k].presented = row.previous /\ row.grace = "open" THEN Goto(k, "finish")
  ELSE Goto(k, "condemn")
\* A secret that is not the current one: behind an open window a sibling has
\* rotated, behind a closed one the successor was lost, otherwise it is stale.
Behind(k, elapsed) ==
  \/ /\ call[k].presented = row.previous /\ row.grace = "open"
     /\ Goto(k, "finish")
  \/ /\ call[k].presented = row.previous /\ row.grace # "open"
     /\ elapsed
  \/ /\ call[k].presented # row.previous
     /\ Goto(k, "condemn")

Read(k) ==
  /\ call[k].pc = "read"
  /\ \/ ~Live /\ Reply(k, "rejected")
     \/ Live /\ call[k].presented = row.current /\ Goto(k, "rotate")
     \/ Live /\ call[k].presented # row.current /\ Behind(k, Goto(k, "recover"))
  /\ UNCHANGED << row, account, jar, faults >>

\* Whoever advances the chain opens a new window over the calls in flight.
Overtaken(j) == [call[j] EXCEPT !.age = "old",
                                !.overtaken = IF @ < 2 THEN @ + 1 ELSE @]
Won(k, s) ==
  [j \in Calls |->
     IF j = k THEN [call[k] EXCEPT !.pc = "finish", !.secret = s, !.age = "opener"]
     ELSE IF Active(j) THEN Overtaken(j) ELSE call[j]]

\* Mutant: rotate accepts the previous secret too.
CanRotateFromPrevious(k) == Live /\ call[k].presented \in {row.current, row.previous}
CanRotate(k) == Live /\ row.current = call[k].presented
\* Mutant: the previous secret stays pinned through a burst.
RotatedKeepsPrevious(s) ==
  [row EXCEPT !.current = s, !.grace = "open", !.replays = 0, !.recoveries = 0,
              !.previous = IF row.grace = "open" THEN @ ELSE row.current]
Rotated(s) == [row EXCEPT !.current = s, !.previous = row.current, !.grace = "open",
                          !.replays = 0, !.recoveries = 0]
Rotate(k) ==
  /\ call[k].pc = "rotate"
  /\ \/ /\ CanRotate(k)
        /\ \E s \in NewSecrets : row' = Rotated(s) /\ call' = Won(k, s)
     \/ ~CanRotate(k) /\ Goto(k, "reread") /\ UNCHANGED row
  /\ UNCHANGED << account, jar, faults >>

Reread(k) ==
  /\ call[k].pc = "reread"
  /\ \/ ~Live /\ Reply(k, "rejected")
     \/ Live /\ Behind(k, Goto(k, "recover"))
  /\ UNCHANGED << row, account, jar, faults >>

\* Mutants: no allowance; inside the window too; one recovery short.
CanRecoverAlways(k) ==
  Live /\ row.previous = call[k].presented /\ row.grace = "closed"
CanRecoverInWindow(k) ==
  Live /\ row.previous = call[k].presented /\ row.recoveries < MaxRecoveries
CanRecoverOneLess(k) ==
  /\ Live /\ row.previous = call[k].presented /\ row.grace = "closed"
  /\ row.recoveries + 1 < MaxRecoveries
CanRecover(k) ==
  /\ Live
  /\ row.previous = call[k].presented /\ row.grace = "closed"
  /\ row.recoveries < MaxRecoveries
\* Mutant: recovery shifts the chain as a rotation does.
RecoveredMovesPrevious(s) ==
  [row EXCEPT !.current = s, !.previous = row.current, !.grace = "open", !.replays = 0,
              !.recoveries = @ + 1]
Recovered(s) == [row EXCEPT !.current = s, !.grace = "open", !.replays = 0,
                            !.recoveries = @ + 1]
Recover(k) ==
  /\ call[k].pc = "recover"
  /\ \/ /\ CanRecover(k)
        /\ \E s \in NewSecrets : row' = Recovered(s) /\ call' = Won(k, s)
     \/ ~CanRecover(k) /\ Goto(k, "rereadRecovery") /\ UNCHANGED row
  /\ UNCHANGED << account, jar, faults >>

\* Mutant: a recovery lost to a sibling is taken for a spent allowance.
RereadRecoveryCapsAll(k) ==
  /\ call[k].pc = "rereadRecovery"
  /\ \/ ~Live /\ Reply(k, "rejected")
     \/ Live /\ call[k].presented = row.previous /\ Reply(k, "busy")
     \/ Live /\ call[k].presented # row.previous /\ Goto(k, "condemn")
  /\ UNCHANGED << row, account, jar, faults >>
RereadRecovery(k) ==
  /\ call[k].pc = "rereadRecovery"
  /\ \/ ~Live /\ Reply(k, "rejected")
     \/ Live /\ Behind(k, Reply(k, "busy"))
  /\ UNCHANGED << row, account, jar, faults >>

\* The user is read here; a system account and a blocked one are refused only
\* after the exchange, and the first keeps its session.
Success(k) == IF call[k].secret = None THEN "coalesced" ELSE "rotated"
Serve(k, user) ==
  \/ user = "blocked" /\ Goto(k, "refuse")
  \/ user = "system" /\ Reply(k, "forbidden")
  \/ user \notin {"blocked", "system"} /\ Reply(k, Success(k))
Finish(k) ==
  /\ call[k].pc = "finish"
  /\ IF account = "deleted" \/ (Impersonated /\ row.expired) THEN Reply(k, "rejected")
     ELSE IF call[k].secret = None
       THEN call' = [call EXCEPT ![k].pc = "replay", ![k].user = account]
       ELSE Serve(k, account)
  /\ UNCHANGED << row, account, jar, faults >>

\* The allowance: claimed, spent, or out of reach and then not enforced.
CanReplay == Live /\ row.replays < MaxReplays
Replay(k) ==
  /\ call[k].pc = "replay"
  /\ \/ /\ CanReplay
        /\ row' = [row EXCEPT !.replays = @ + 1]
        /\ Serve(k, call[k].user) /\ UNCHANGED faults
     \/ ~CanReplay /\ Reply(k, "busy") /\ UNCHANGED << row, faults >>
     \/ Fault /\ Serve(k, call[k].user) /\ UNCHANGED row
  /\ UNCHANGED << account, jar >>

Revoked == [row EXCEPT !.revoked = TRUE]

\* A blocked account's session ends; a revocation that fails is only logged.
Refuse(k) ==
  /\ call[k].pc = "refuse"
  /\ \E a \in {"rejected", "forbidden"} : Reply(k, a)
  /\ \/ row' = Revoked /\ UNCHANGED faults
     \/ Fault /\ UNCHANGED row
  /\ UNCHANGED << account, jar >>

\* Mutant: a stale secret is rejected and the session left alone.
CondemnOnlyRejects(k) ==
  /\ call[k].pc = "condemn" /\ Reply(k, "rejected")
  /\ UNCHANGED << row, account, jar, faults >>
Condemn(k) ==
  /\ call[k].pc = "condemn"
  /\ row' = Revoked /\ Reply(k, "rejected")
  /\ UNCHANGED << account, jar, faults >>

\* The process dies, or a database call throws, before or after it applied.
Crash(k) ==
  /\ Fault
  /\ call[k].pc \notin {"idle", "done"}
  /\ call' = [call EXCEPT ![k] = Idle]
  /\ UNCHANGED << row, account, jar >>

-----------------------------------------------------------------------------
(* Time, and what other parts of the system do to the session.              *)

CloseWindow ==
  /\ row.grace = "open"
  /\ Timely => \A k \in Calls : call[k].age = "late"
  /\ row' = [row EXCEPT !.grace = "closed"]
  /\ UNCHANGED << account, jar, call, faults >>

RevokeElsewhere ==
  /\ "revoke" \in Events /\ ~row.revoked
  /\ row' = Revoked
  /\ UNCHANGED << account, jar, call, faults >>

Expire ==
  /\ "expire" \in Events /\ ~row.expired
  /\ row' = [row EXCEPT !.expired = TRUE]
  /\ UNCHANGED << account, jar, call, faults >>

ChangeAccount ==
  /\ account = "usable"
  /\ \/ "block" \in Events /\ account' = "blocked"
     \/ "delete" \in Events /\ account' = "deleted"
     \/ "reserve" \in Events /\ account' = "system"
  /\ UNCHANGED << row, jar, call, faults >>

-----------------------------------------------------------------------------
Step(k) ==
  \/ Read(k) \/ Rotate(k) \/ Reread(k) \/ Recover(k) \/ RereadRecovery(k)
  \/ Finish(k) \/ Replay(k) \/ Refuse(k) \/ Condemn(k) \/ Deliver(k)

Next ==
  \/ \E c \in Clients, k \in Calls : Start(c, k)
  \/ \E k \in Calls : Step(k) \/ Crash(k) \/ GiveUp(k) \/ LoseResponse(k)
  \/ CloseWindow \/ RevokeElsewhere \/ Expire \/ ChangeAccount

Spec == Init /\ [][Next]_vars

\* Calls run or die, windows close, and a browser whose access token expired
\* exchanges again: the 401 handler or the next page load starts it.
Fairness ==
  /\ \A k \in Calls : WF_vars(Step(k))
  /\ \A c \in Clients : WF_vars(\E k \in Calls : Start(c, k))
  /\ WF_vars(CloseWindow)

FairSpec == Spec /\ Fairness

-----------------------------------------------------------------------------
(* What the rotation promises.                                              *)

\* The server never hands out a token that is not the row's current one: from
\* the moment a rotation is answered until its response is delivered or lost,
\* no other call has replaced the secret it carries.
HandsOutCurrent ==
  \A k \in Calls :
    (call[k].pc = "done" /\ call[k].answer = "rotated" /\ Live)
      => call[k].secret = row.current

\* A browser that is alone on its session is never stranded with a cookie the
\* row no longer knows, whatever responses were lost and however its tabs and
\* its abandoned calls interleave.
CookieUsable ==
  Live /\ Alone => \A c \in Holders : jar[c] \in {row.current, row.previous}

\* Recovery discards a successor that was never delivered: it never replaces
\* the secret a browser holds that is alone on its session.
RecoveryDiscardsUndelivered ==
  [][row'.recoveries > row.recoveries /\ Alone
       => \A c \in Holders : jar[c] # row.current]_vars

\* "Try again" for want of recovery allowance is said only when the allowance
\* is spent: the stall that would make a refused recovery ambiguous is out of
\* reach while calls die before a grace window closes.
CappedOnlyIfSpent ==
  [][\A k \in Calls :
       (call[k].pc = "rereadRecovery" /\ call[k].waited /\ call'[k].answer = "busy")
         => row.recoveries >= MaxRecoveries]_vars

\* A session is revoked for reuse only over a secret that is, when the
\* revocation is written, neither its current nor its previous one.
RevokedOnlyIfStale ==
  [][\A k \in Calls :
       Condemn(k) => call[k].presented \notin {row.current, row.previous}]_vars

\* A browser that is alone on its session and whose tabs take turns loses it
\* to reuse detection only if a call it gave up on was overtaken by two others.
CondemnedOnlyIfOvertakenTwice ==
  [][\A k \in Calls :
       (call[k].pc # "condemn" /\ call'[k].pc = "condemn" /\ Alone /\ Holders \subseteq Locks)
         => call[k].overtaken = 2]_vars

\* A browser alone on its session that lost up to MaxRecoveries responses gets
\* the chain back: it ends with the current secret, unless the session ended.
LostResponseRecovers ==
  \A c \in Clients :
    (Alone /\ c \in Holders /\ jar[c] # row.current) ~> (jar[c] = row.current \/ ~Live)

\* Browsers that go on exchanging copies of one token collide, and the collision
\* ends the session.
CollisionEndsSession == ~Alone ~> ~Live
=============================================================================
