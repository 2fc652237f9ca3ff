-------------------------- MODULE OfflineQueueProofs --------------------------
(* For any number of senders, operations and attempts: what the member was   *)
(* told is queued is in the queue until it is stored, and a success that was *)
(* shown is a stored submission.                                             *)
(*                                                                           *)
(* The queue forgets an operation on an "ok" only, so it is enough to know   *)
(* who can hold one: the key is done, or the attempt was answered, after the *)
(* submission was stored.  That an answer reaches the attempt that asked is  *)
(* what the handler's record of its sender is for.                           *)
EXTENDS OfflineQueue, TLAPS

\* An "ok", at the server or on its way, is about a stored submission.
SuccessesAreStored ==
    /\ \A o \in Operations : claim[o].state = "done" => o \in stored
    /\ \A s \in Senders, o \in Operations :
          attempt[s][o] # None /\ attempt[s][o].got = "ok" => o \in stored

\* Whoever is remembered by a handler still waits for it.
WaitersAreServed ==
    \A o \in Operations :
       claim[o].by # None =>
          /\ claim[o].state = "running"
          /\ attempt[claim[o].by][o] # None
          /\ attempt[claim[o].by][o].at = "served"

IInv == TypeOK /\ SuccessesAreStored /\ WaitersAreServed /\ QueuedWorkIsKept

-----------------------------------------------------------------------------
(* Lemmas.                                                                   *)

\* What the queue and the attempts are given is a record, never None.
LEMMA Shapes ==
    /\ \A n \in 0..MaxAttempts : Queued(n) \in Records /\ Attention(n) \in Records
    /\ \A n \in 0..MaxAttempts : \A error : Failed(n, error) \in Records
    /\ \A via \in {"direct", "claim"} :
          Sent(via) \in Attempts /\ Sent(via).at = "sent" /\ Sent(via).got = None
    /\ \A a \in Records \cup Attempts \cup Outcomes \cup Senders : a # None
<1>1. \A n \in 0..MaxAttempts : Queued(n) \in Records /\ Attention(n) \in Records
  BY DEF Queued, Attention, Records
<1>2. \A n \in 0..MaxAttempts : \A error : Failed(n, error) \in Records
  BY <1>1, QueueAssumption DEF Failed
<1>3. \A via \in {"direct", "claim"} :
         Sent(via) \in Attempts /\ Sent(via).at = "sent" /\ Sent(via).got = None
  BY QueueAssumption DEF Sent, Attempts
<1> QED BY <1>1, <1>2, <1>3, QueueAssumption

\* An answer changes one attempt, and of it where it stands and what it got.
LEMMA AnsweredIs ==
    ASSUME TypeOK, NEW s \in Senders, NEW o \in Operations, attempt[s][o] # None,
           NEW outcome \in Outcomes
    PROVE  LET after == Answered(s, o, outcome)
           IN  /\ after \in [Senders -> [Operations -> Attempts \cup {None}]]
               /\ after[s][o] # None
               /\ after[s][o].got = outcome
               /\ \A u \in Senders, p \in Operations :
                     u # s \/ p # o => after[u][p] = attempt[u][p]
<1> DEFINE new == [attempt[s][o] EXCEPT !.at = "answered", !.got = outcome]
<1>1. attempt[s][o] \in Attempts
  BY DEF TypeOK
<1>2. new \in Attempts /\ new.got = outcome
  BY <1>1 DEF Attempts
<1>3. Answered(s, o, outcome) = [attempt EXCEPT ![s][o] = new]
  BY <1>1 DEF Answered, TypeOK, Attempts
<1> HIDE DEF new
<1>4. new # None
  BY <1>2, Shapes
<1> QED BY <1>2, <1>3, <1>4 DEF TypeOK

LEMMA InitIsSound == Init => IInv
<1> SUFFICES ASSUME Init PROVE IInv
  OBVIOUS
<1>1. TypeOK
  BY QueueAssumption DEF Init, TypeOK
<1> QED
  BY <1>1 DEF Init, IInv, SuccessesAreStored, WaitersAreServed, QueuedWorkIsKept

\* A sender that does not wait for the handler moves on by itself.
LEMMA OneAttemptMoves ==
    ASSUME IInv, NEW s \in Senders, NEW o \in Operations,
           NEW a \in Attempts \cup {None},
           attempt[s][o] = None \/ attempt[s][o].at # "served",
           a = None \/ (a.got = "ok" => o \in stored),
           attempt' = [attempt EXCEPT ![s][o] = a],
           UNCHANGED <<claim, stored>>
    PROVE  /\ attempt' \in [Senders -> [Operations -> Attempts \cup {None}]]
           /\ SuccessesAreStored'
           /\ WaitersAreServed'
<1>1. attempt' \in [Senders -> [Operations -> Attempts \cup {None}]]
  BY DEF IInv, TypeOK
<1>2. /\ attempt'[s][o] = a
      /\ \A u \in Senders, p \in Operations :
            u # s \/ p # o => attempt'[u][p] = attempt[u][p]
  BY DEF IInv, TypeOK
<1>3. SuccessesAreStored'
  BY <1>2 DEF IInv, SuccessesAreStored
<1>4. WaitersAreServed'
  <2> SUFFICES ASSUME NEW p \in Operations, claim[p].by # None
               PROVE  /\ claim[p].state = "running"
                      /\ attempt'[claim[p].by][p] # None
                      /\ attempt'[claim[p].by][p].at = "served"
    BY DEF WaitersAreServed
  <2>1. /\ claim[p].by \in Senders
        /\ claim[p].state = "running"
        /\ attempt[claim[p].by][p] # None
        /\ attempt[claim[p].by][p].at = "served"
    BY DEF IInv, TypeOK, WaitersAreServed
  <2> QED BY <1>2, <2>1
<1> QED BY <1>1, <1>3, <1>4

LEMMA SubmitOfflineStep ==
    ASSUME IInv, NEW o \in Operations, SubmitOffline(o)
    PROVE  IInv'
<1> USE DEF SubmitOffline
<1>1. Queued(0) \in Records /\ Queued(0) # None
  BY Shapes, QueueAssumption
<1>2. TypeOK'
  BY <1>1 DEF IInv, TypeOK, Tell
<1>3. SuccessesAreStored' /\ WaitersAreServed'
  BY DEF IInv, SuccessesAreStored, WaitersAreServed
<1>4. QueuedWorkIsKept'
  BY <1>1 DEF IInv, TypeOK, QueuedWorkIsKept, Tell
<1> QED BY <1>2, <1>3, <1>4 DEF IInv

LEMMA SubmitOnlineStep ==
    ASSUME IInv, NEW s \in Senders, NEW o \in Operations, SubmitOnline(s, o)
    PROVE  IInv'
<1>1. Sent("direct") \in Attempts /\ Sent("direct").got = None /\ None # "ok"
  BY Shapes, QueueAssumption DEF Outcomes
<1>2. /\ attempt' \in [Senders -> [Operations -> Attempts \cup {None}]]
      /\ SuccessesAreStored' /\ WaitersAreServed'
  BY <1>1, OneAttemptMoves DEF SubmitOnline, Moved
<1>3. TypeOK'
  BY <1>2 DEF SubmitOnline, IInv, TypeOK, Tell
<1>4. QueuedWorkIsKept'
  BY DEF SubmitOnline, IInv, TypeOK, QueuedWorkIsKept, Tell
<1> QED BY <1>2, <1>3, <1>4 DEF IInv

LEMMA SettleDirectStep ==
    ASSUME IInv, NEW s \in Senders, NEW o \in Operations, SettleDirect(s, o)
    PROVE  IInv'
<1> DEFINE failing == [attempt[s][o] EXCEPT !.at = "failing"]
<1>1. /\ attempt[s][o] \in Attempts /\ attempt[s][o] # None
      /\ attempt[s][o].at = "answered"
      /\ UNCHANGED <<claim, stored, deaths>>
  BY DEF SettleDirect, At, IInv, TypeOK
<1>2. failing \in Attempts /\ failing.got = attempt[s][o].got
  BY <1>1 DEF Attempts
<1>3. Queued(0) \in Records /\ Queued(0) # None
  BY Shapes, QueueAssumption
<1>4. attempt' = [attempt EXCEPT ![s][o] = None]
        \/ attempt' = [attempt EXCEPT ![s][o] = failing]
  BY <1>1 DEF SettleDirect, Moved, IInv, TypeOK
<1>5. attempt[s][o].got = "ok" => o \in stored
  BY <1>1 DEF IInv, SuccessesAreStored
<1> HIDE DEF failing
<1>6. /\ attempt' \in [Senders -> [Operations -> Attempts \cup {None}]]
      /\ SuccessesAreStored' /\ WaitersAreServed'
  BY <1>1, <1>2, <1>4, <1>5, OneAttemptMoves
<1>7. record' = record \/ record' = [record EXCEPT ![o] = Queued(0)]
  BY DEF SettleDirect
<1>8. \/ told' = told
      \/ told' = [told EXCEPT ![o] = "refused"]
      \/ told' = [told EXCEPT ![o] = "queued"]
            /\ record' = [record EXCEPT ![o] = Queued(0)]
      \/ told' = [told EXCEPT ![o] = "success"] /\ o \in stored
  BY <1>5 DEF SettleDirect, Tell
<1>9. TypeOK'
  BY <1>1, <1>3, <1>6, <1>7, <1>8 DEF IInv, TypeOK
<1>10. QueuedWorkIsKept'
  BY <1>1, <1>3, <1>7, <1>8 DEF IInv, TypeOK, QueuedWorkIsKept
<1> QED BY <1>6, <1>9, <1>10 DEF IInv

LEMMA ClaimQueuedStep ==
    ASSUME IInv, NEW s \in Senders, ClaimQueued(s)
    PROVE  IInv'
<1> DEFINE claimed == { o \in Operations : Available(o) }
<1>1. /\ record' = [o \in Operations |->
                      IF o \in claimed
                      THEN [record[o] EXCEPT !.state = "sending", !.leased = TRUE]
                      ELSE record[o]]
      /\ attempt' = [attempt EXCEPT ![s] =
                       [o \in Operations |->
                          IF o \in claimed THEN Sent("claim") ELSE None]]
      /\ \A o \in Operations : attempt[s][o] = None
      /\ UNCHANGED <<claim, stored, told, deaths>>
  BY DEF ClaimQueued
<1>2. \A o \in claimed :
         /\ record[o] \in Records /\ record[o] # None
         /\ [record[o] EXCEPT !.state = "sending", !.leased = TRUE] \in Records
  BY DEF Available, IInv, TypeOK, Records
<1>3. Sent("claim") \in Attempts /\ Sent("claim").got = None /\ None # "ok"
  BY Shapes, QueueAssumption DEF Outcomes
<1>4. /\ record' \in [Operations -> Records \cup {None}]
      /\ \A o \in Operations : record[o] # None => record'[o] # None
  BY <1>1, <1>2, Shapes DEF IInv, TypeOK
<1>5. /\ attempt' \in [Senders -> [Operations -> Attempts \cup {None}]]
      /\ \A o \in Operations : attempt'[s][o] \in {None, Sent("claim")}
      /\ \A u \in Senders \ {s} : attempt'[u] = attempt[u]
  BY <1>1, <1>3 DEF IInv, TypeOK
<1>6. TypeOK'
  BY <1>1, <1>4, <1>5 DEF IInv, TypeOK
<1>7. SuccessesAreStored'
  BY <1>1, <1>3, <1>5 DEF IInv, SuccessesAreStored
<1>8. WaitersAreServed'
  <2> SUFFICES ASSUME NEW o \in Operations, claim[o].by # None
               PROVE  /\ claim[o].state = "running"
                      /\ attempt'[claim[o].by][o] # None
                      /\ attempt'[claim[o].by][o].at = "served"
    BY <1>1 DEF WaitersAreServed
  <2>1. claim[o].by \in Senders \ {s}
    BY <1>1 DEF IInv, TypeOK, WaitersAreServed
  <2> QED BY <1>5, <2>1 DEF IInv, WaitersAreServed
<1>9. QueuedWorkIsKept'
  BY <1>1, <1>4 DEF IInv, QueuedWorkIsKept
<1> QED BY <1>6, <1>7, <1>8, <1>9 DEF IInv

LEMMA LeaseExpiresStep ==
    ASSUME IInv, NEW o \in Operations, LeaseExpires(o)
    PROVE  IInv'
<1> DEFINE expired == [record[o] EXCEPT !.leased = FALSE]
<1>1. /\ record[o] \in Records
      /\ record' = [record EXCEPT ![o] = expired]
      /\ UNCHANGED <<attempt, claim, stored, told, deaths>>
  BY DEF LeaseExpires, IInv, TypeOK
<1>2. expired \in Records
  BY <1>1 DEF Records
<1> HIDE DEF expired
<1>3. expired # None
  BY <1>2, Shapes
<1>4. TypeOK'
  BY <1>1, <1>2 DEF IInv, TypeOK
<1>5. SuccessesAreStored' /\ WaitersAreServed'
  BY <1>1 DEF IInv, SuccessesAreStored, WaitersAreServed
<1>6. QueuedWorkIsKept'
  BY <1>1, <1>3 DEF IInv, TypeOK, QueuedWorkIsKept
<1> QED BY <1>4, <1>5, <1>6 DEF IInv

LEMMA AckQueuedStep ==
    ASSUME IInv, NEW s \in Senders, NEW o \in Operations, AckQueued(s, o)
    PROVE  IInv'
<1>1. /\ attempt[s][o] # None /\ attempt[s][o].at = "answered"
      /\ attempt[s][o].got = "ok"
      /\ record' = [record EXCEPT ![o] = None]
      /\ attempt' = [attempt EXCEPT ![s][o] = None]
      /\ UNCHANGED <<claim, stored, told, deaths>>
  BY DEF AckQueued, At, Moved
<1>2. o \in stored
  BY <1>1 DEF IInv, SuccessesAreStored
<1>3. /\ attempt' \in [Senders -> [Operations -> Attempts \cup {None}]]
      /\ SuccessesAreStored' /\ WaitersAreServed'
  BY <1>1, OneAttemptMoves
<1>4. TypeOK'
  BY <1>1, <1>3 DEF IInv, TypeOK
<1>5. QueuedWorkIsKept'
  BY <1>1, <1>2 DEF IInv, TypeOK, QueuedWorkIsKept
<1> QED BY <1>3, <1>4, <1>5 DEF IInv

LEMMA ReadFailedStep ==
    ASSUME IInv, NEW s \in Senders, NEW o \in Operations, ReadFailed(s, o)
    PROVE  IInv'
<1> DEFINE writing == [attempt[s][o] EXCEPT !.at = "writing",
                                            !.read = record[o].attempts]
<1>1. /\ attempt[s][o] \in Attempts /\ attempt[s][o] # None
      /\ attempt[s][o].at \in {"failing", "answered"}
      /\ UNCHANGED <<record, claim, stored, told, deaths>>
  BY DEF ReadFailed, At, IInv, TypeOK
<1>2. record[o] # None => record[o].attempts \in 0..MaxAttempts
  BY DEF IInv, TypeOK, Records
<1>3. record[o] # None =>
         /\ writing \in Attempts
         /\ writing.got = attempt[s][o].got
         /\ attempt' = [attempt EXCEPT ![s][o] = writing]
  BY <1>1, <1>2 DEF ReadFailed, Attempts, IInv, TypeOK
<1>4. record[o] = None => attempt' = [attempt EXCEPT ![s][o] = None]
  BY DEF ReadFailed, Moved
<1>5. attempt[s][o].got = "ok" => o \in stored
  BY <1>1 DEF IInv, SuccessesAreStored
<1> HIDE DEF writing
<1>6. /\ attempt' \in [Senders -> [Operations -> Attempts \cup {None}]]
      /\ SuccessesAreStored' /\ WaitersAreServed'
  BY <1>1, <1>3, <1>4, <1>5, OneAttemptMoves
<1>7. TypeOK' /\ QueuedWorkIsKept'
  BY <1>1, <1>6 DEF IInv, TypeOK, QueuedWorkIsKept
<1> QED BY <1>6, <1>7 DEF IInv

LEMMA WriteFailedStep ==
    ASSUME IInv, NEW s \in Senders, NEW o \in Operations, WriteFailed(s, o)
    PROVE  IInv'
<1> DEFINE written == Failed(attempt[s][o].read, attempt[s][o].got)
<1>1. /\ attempt[s][o] \in Attempts /\ attempt[s][o] # None
      /\ attempt[s][o].at = "writing"
      /\ record' = [record EXCEPT ![o] = written]
      /\ attempt' = [attempt EXCEPT ![s][o] = None]
      /\ told' = told \/ told' = [told EXCEPT ![o] = "queued"]
      /\ UNCHANGED <<claim, stored, deaths>>
  BY DEF WriteFailed, Moved, Tell, IInv, TypeOK
<1>2. written \in Records /\ written # None
  BY <1>1, Shapes DEF Attempts
<1> HIDE DEF written
<1>3. /\ attempt' \in [Senders -> [Operations -> Attempts \cup {None}]]
      /\ SuccessesAreStored' /\ WaitersAreServed'
  BY <1>1, OneAttemptMoves
<1>4. TypeOK'
  BY <1>1, <1>2, <1>3 DEF IInv, TypeOK
<1>5. QueuedWorkIsKept'
  BY <1>1, <1>2 DEF IInv, TypeOK, QueuedWorkIsKept
<1> QED BY <1>3, <1>4, <1>5 DEF IInv

LEMMA ServeStep ==
    ASSUME IInv, NEW s \in Senders, NEW o \in Operations, Serve(s, o)
    PROVE  IInv'
<1>1. /\ attempt[s][o] \in Attempts /\ attempt[s][o] # None
      /\ attempt[s][o].at = "sent"
      /\ UNCHANGED <<record, stored, told, deaths>>
  BY DEF Serve, IInv, TypeOK
<1>2. CASE claim' = claim
  <2>1. PICK outcome \in {"busy", "ok"} :
           /\ attempt' = Answered(s, o, outcome)
           /\ outcome = "ok" => claim[o].state = "done"
    BY <1>2 DEF Serve, IInv, TypeOK
  <2>2. outcome \in Outcomes /\ (outcome = "ok" => o \in stored)
    BY <2>1 DEF Outcomes, IInv, SuccessesAreStored
  <2>3. /\ attempt' \in [Senders -> [Operations -> Attempts \cup {None}]]
        /\ attempt'[s][o].got = outcome
        /\ \A u \in Senders, p \in Operations :
              u # s \/ p # o => attempt'[u][p] = attempt[u][p]
    BY <1>1, <2>1, <2>2, AnsweredIs DEF IInv
  <2>4. SuccessesAreStored'
    BY <1>1, <1>2, <2>2, <2>3 DEF IInv, SuccessesAreStored
  <2>5. WaitersAreServed'
    <3> SUFFICES ASSUME NEW p \in Operations, claim[p].by # None
                 PROVE  /\ claim[p].state = "running"
                        /\ attempt'[claim[p].by][p] # None
                        /\ attempt'[claim[p].by][p].at = "served"
      BY <1>2 DEF WaitersAreServed
    <3> QED BY <1>1, <2>3 DEF IInv, TypeOK, WaitersAreServed
  <2> QED BY <1>1, <1>2, <2>3, <2>4, <2>5 DEF IInv, TypeOK, QueuedWorkIsKept
<1>3. CASE claim' # claim
  <2> DEFINE served == [attempt[s][o] EXCEPT !.at = "served"]
  <2>1. /\ claim[o].state = "free"
        /\ claim' = [claim EXCEPT ![o] = [state |-> "running", by |-> s]]
        /\ attempt' = [attempt EXCEPT ![s][o] = served]
    BY <1>1, <1>3 DEF Serve, IInv, TypeOK, Answered, Attempts
  <2>2. served \in Attempts /\ served.at = "served" /\ served.got = attempt[s][o].got
    BY <1>1 DEF Attempts
  <2> HIDE DEF served
  <2>3. served # None
    BY <2>2, Shapes
  <2>4. TypeOK'
    BY <1>1, <2>1, <2>2 DEF IInv, TypeOK
  <2>5. SuccessesAreStored'
    BY <1>1, <2>1, <2>2 DEF IInv, TypeOK, SuccessesAreStored
  <2>6. WaitersAreServed'
    <3> SUFFICES ASSUME NEW p \in Operations, claim'[p].by # None
                 PROVE  /\ claim'[p].state = "running"
                        /\ attempt'[claim'[p].by][p] # None
                        /\ attempt'[claim'[p].by][p].at = "served"
      BY DEF WaitersAreServed
    <3>1. CASE p = o
      <4>1. claim'[o] = [state |-> "running", by |-> s] /\ attempt'[s][o] = served
        BY <2>1 DEF IInv, TypeOK
      <4> QED BY <2>2, <2>3, <3>1, <4>1
    <3>2. CASE p # o
      <4>1. claim'[p] = claim[p] /\ claim[p].by \in Senders
        BY <2>1, <3>2 DEF IInv, TypeOK
      <4>2. attempt'[claim[p].by][p] = attempt[claim[p].by][p]
        BY <2>1, <3>2, <4>1 DEF IInv, TypeOK
      <4> QED BY <4>1, <4>2 DEF IInv, WaitersAreServed
    <3> QED BY <3>1, <3>2
  <2> QED BY <1>1, <2>4, <2>5, <2>6 DEF IInv, QueuedWorkIsKept
<1> QED BY <1>2, <1>3

LEMMA StoreStep ==
    ASSUME IInv, NEW o \in Operations, Store(o)
    PROVE  IInv'
  BY DEF Store, IInv, TypeOK, SuccessesAreStored, WaitersAreServed, QueuedWorkIsKept

\* The handler of an operation ends, with an outcome for who still waits.
LEMMA HandlerEnds ==
    ASSUME IInv, NEW o \in Operations, claim[o].state = "running",
           NEW state \in {"free", "stuck", "done"}, Release(o, state),
           NEW outcome \in Outcomes, Reply(o, outcome),
           state = "done" \/ outcome = "ok" => o \in stored,
           UNCHANGED <<record, stored, told, deaths>>
    PROVE  IInv'
<1>1. /\ claim' \in [Operations -> [state : {"free", "running", "stuck", "done"},
                                     by : Senders \cup {None}]]
      /\ claim'[o].state = state /\ claim'[o].by = None
      /\ \A p \in Operations \ {o} : claim'[p] = claim[p]
  BY DEF Release, IInv, TypeOK
<1>2. /\ attempt' \in [Senders -> [Operations -> Attempts \cup {None}]]
      /\ \A s \in Senders : \/ attempt'[s][o] = attempt[s][o]
                             \/ attempt'[s][o].got = outcome
      /\ \A s \in Senders, p \in Operations \ {o} : attempt'[s][p] = attempt[s][p]
  <2>1. CASE claim[o].by = None
    BY <2>1 DEF Reply, IInv, TypeOK
  <2>2. CASE claim[o].by # None
    <3>1. PICK s \in Senders : s = claim[o].by
      BY <2>2 DEF IInv, TypeOK
    <3>2. attempt[s][o] # None /\ attempt' = Answered(s, o, outcome)
      BY <2>2, <3>1 DEF Reply, IInv, WaitersAreServed
    <3> QED BY <3>2, AnsweredIs DEF IInv
  <2> QED BY <2>1, <2>2
<1>3. SuccessesAreStored'
  BY <1>1, <1>2 DEF IInv, SuccessesAreStored
<1>4. WaitersAreServed'
  BY <1>1, <1>2 DEF IInv, TypeOK, WaitersAreServed
<1> QED BY <1>1, <1>2, <1>3, <1>4 DEF IInv, TypeOK, QueuedWorkIsKept

LEMMA FinishStep ==
    ASSUME IInv, NEW o \in Operations, Finish(o)
    PROVE  IInv'
  BY HandlerEnds DEF Finish, Running, Outcomes

LEMMA RejectStep ==
    ASSUME IInv, NEW o \in Operations, Reject(o)
    PROVE  IInv'
<1>1. PICK outcome \in {"conflict", "refused", "lost"} : Reply(o, outcome)
  BY DEF Reject
<1> QED BY <1>1, HandlerEnds DEF Reject, Running, Outcomes

LEMMA ServerDiesStep ==
    ASSUME IInv, NEW o \in Operations, ServerDies(o)
    PROVE  IInv'
  BY HandlerEnds DEF ServerDies, Running, Outcomes

\* A handler whose sender is gone goes on for nobody.
LEMMA ForgottenIs ==
    ASSUME TypeOK, NEW s \in Senders
    PROVE  /\ Forgotten(s) \in [Operations ->
                 [state : {"free", "running", "stuck", "done"},
                  by : Senders \cup {None}]]
           /\ \A o \in Operations :
                 /\ Forgotten(s)[o].state = claim[o].state
                 /\ Forgotten(s)[o].by \in {None, claim[o].by}
                 /\ Forgotten(s)[o].by # s
  BY QueueAssumption DEF Forgotten, TypeOK

LEMMA LoseStep ==
    ASSUME IInv, NEW s \in Senders, NEW o \in Operations, Lose(s, o)
    PROVE  IInv'
<1>1. /\ attempt[s][o] # None
      /\ attempt' = Answered(s, o, "lost")
      /\ claim' = [claim EXCEPT ![o] = Forgotten(s)[o]]
      /\ UNCHANGED <<record, stored, told, deaths>>
  BY DEF Lose, InFlight
<1>2. /\ attempt' \in [Senders -> [Operations -> Attempts \cup {None}]]
      /\ attempt'[s][o].got = "lost"
      /\ \A u \in Senders, p \in Operations :
            u # s \/ p # o => attempt'[u][p] = attempt[u][p]
  BY <1>1, AnsweredIs DEF IInv, Outcomes
<1>3. /\ claim' \in [Operations -> [state : {"free", "running", "stuck", "done"},
                                     by : Senders \cup {None}]]
      /\ \A p \in Operations : /\ claim'[p].state = claim[p].state
                               /\ claim'[p].by \in {None, claim[p].by}
      /\ claim'[o].by # s
  BY <1>1, ForgottenIs DEF IInv, TypeOK
<1>4. SuccessesAreStored'
  BY <1>1, <1>2, <1>3 DEF IInv, SuccessesAreStored
<1>5. WaitersAreServed'
  <2> SUFFICES ASSUME NEW p \in Operations, claim'[p].by # None
               PROVE  /\ claim'[p].state = "running"
                      /\ attempt'[claim'[p].by][p] # None
                      /\ attempt'[claim'[p].by][p].at = "served"
    BY DEF WaitersAreServed
  <2>1. /\ claim'[p].by = claim[p].by /\ claim[p].by \in Senders
        /\ claim[p].by # s \/ p # o
    BY <1>3 DEF IInv, TypeOK
  <2> QED BY <1>2, <1>3, <2>1 DEF IInv, WaitersAreServed
<1> QED BY <1>1, <1>2, <1>3, <1>4, <1>5 DEF IInv, TypeOK, QueuedWorkIsKept

LEMMA SenderDiesStep ==
    ASSUME IInv, NEW s \in Senders, SenderDies(s)
    PROVE  IInv'
<1>1. /\ attempt' = [attempt EXCEPT ![s] = [o \in Operations |-> None]]
      /\ claim' = Forgotten(s)
      /\ deaths' \in 0..MaxDeaths
      /\ UNCHANGED <<record, stored, told>>
  BY QueueAssumption DEF SenderDies, IInv, TypeOK
<1>2. /\ attempt' \in [Senders -> [Operations -> Attempts \cup {None}]]
      /\ \A o \in Operations : attempt'[s][o] = None
      /\ \A u \in Senders \ {s} : attempt'[u] = attempt[u]
  BY <1>1 DEF IInv, TypeOK
<1>3. TypeOK'
  BY <1>1, <1>2, ForgottenIs DEF IInv, TypeOK
<1>4. SuccessesAreStored'
  BY <1>1, <1>2, ForgottenIs DEF IInv, SuccessesAreStored
<1>5. WaitersAreServed'
  <2> SUFFICES ASSUME NEW o \in Operations, claim'[o].by # None
               PROVE  /\ claim'[o].state = "running"
                      /\ attempt'[claim'[o].by][o] # None
                      /\ attempt'[claim'[o].by][o].at = "served"
    BY DEF WaitersAreServed
  <2>1. /\ claim'[o].by = claim[o].by /\ claim[o].by \in Senders \ {s}
        /\ claim'[o].state = claim[o].state
    BY <1>1, ForgottenIs DEF IInv, TypeOK
  <2> QED BY <1>2, <2>1 DEF IInv, WaitersAreServed
<1> QED BY <1>1, <1>3, <1>4, <1>5 DEF IInv, QueuedWorkIsKept

-----------------------------------------------------------------------------
LEMMA StepPreserves == IInv /\ [Next]_vars => IInv'
<1> SUFFICES ASSUME IInv, [Next]_vars PROVE IInv'
  OBVIOUS
<1>1. ASSUME NEW o \in Operations, SubmitOffline(o) PROVE IInv'
  BY <1>1, SubmitOfflineStep
<1>2. ASSUME NEW o \in Operations, LeaseExpires(o) PROVE IInv'
  BY <1>2, LeaseExpiresStep
<1>3. ASSUME NEW o \in Operations, Handle(o) PROVE IInv'
  BY <1>3, StoreStep, FinishStep DEF Handle
<1>4. ASSUME NEW o \in Operations, Reject(o) \/ ServerDies(o) PROVE IInv'
  BY <1>4, RejectStep, ServerDiesStep
<1>5. ASSUME NEW s \in Senders, NEW o \in Operations, SubmitOnline(s, o)
      PROVE  IInv'
  BY <1>5, SubmitOnlineStep
<1>6. ASSUME NEW s \in Senders, NEW o \in Operations, Advance(s, o)
      PROVE  IInv'
  BY <1>6, SettleDirectStep, AckQueuedStep, ReadFailedStep, WriteFailedStep,
     ServeStep DEF Advance
<1>7. ASSUME NEW s \in Senders, NEW o \in Operations, Lose(s, o) PROVE IInv'
  BY <1>7, LoseStep
<1>8. ASSUME NEW s \in Senders, ClaimQueued(s) \/ SenderDies(s) PROVE IInv'
  BY <1>8, ClaimQueuedStep, SenderDiesStep
<1>9. CASE UNCHANGED vars
  BY <1>9 DEF vars, IInv, TypeOK, SuccessesAreStored, WaitersAreServed,
     QueuedWorkIsKept
<1> QED
  BY <1>1, <1>2, <1>3, <1>4, <1>5, <1>6, <1>7, <1>8, <1>9 DEF Next

\* An "ok" is about a stored submission, and reaches the attempt that waits.
THEOREM Invariance == Spec => []IInv
  BY InitIsSound, StepPreserves, PTL DEF Spec

\* The browser's queue, the attempts and the server's keys keep their types, and
\* no operation is tried more often than failQueued allows.
THEOREM QueueTypeCorrect == Spec => []TypeOK
<1>1. IInv => TypeOK
  BY DEF IInv
<1> QED BY <1>1, Invariance, PTL

\* Work the member was told is queued stays in the queue until it is stored,
\* and a success that was shown is stored, whatever is lost, claimed twice,
\* closed or crashed.
THEOREM QueuedWorkIsNeverLost == Spec => []QueuedWorkIsKept
<1>1. IInv => QueuedWorkIsKept
  BY DEF IInv
<1> QED BY <1>1, Invariance, PTL
=============================================================================
