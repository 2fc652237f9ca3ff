---------------------------- MODULE OfflineQueue ----------------------------
(****************************************************************************)
(* The durable submission queue of the browser: submit and flushQueue of    *)
(* WorkspacePage over the IndexedDB queue of cache.ts, against the server's *)
(* idempotency envelope (modelled in full by SubmissionService; here it is  *)
(* reduced to who holds the key and whether the submission is stored).      *)
(*                                                                          *)
(* A sender is one run of submit or flushQueue in one tab.  Every IndexedDB *)
(* transaction is a step: claimQueued is one, failQueued is a read followed *)
(* by a write.  Without Web Locks the account lease is a read and a write   *)
(* of its own and lapses after 30 seconds, so it is taken to exclude nobody.*)
(*                                                                          *)
(* The insert of a submission is taken as its column list means it; as it   *)
(* is written the driver refuses it (SubmissionService, InsertBinds), and   *)
(* every accepted operation ends as Release.                                *)
(****************************************************************************)
EXTENDS Naturals

CONSTANTS
    Senders,
    Operations,    \* operationId, also the Idempotency-Key
    MaxAttempts,   \* 8 in failQueued
    MaxDeaths,     \* how many times a tab is closed or the browser killed
    WebLocks,      \* navigator.locks is available
    None

Outcomes == {"ok", "lost", "busy", "conflict", "refused"}

\* The records of the queue store, and a sender's attempts.
Records == [state : {"queued", "sending", "attention"},
            attempts : 0..MaxAttempts, leased : BOOLEAN]

Attempts == [via : {"direct", "claim"},
             at : {"sent", "served", "answered", "failing", "writing"},
             got : Outcomes \cup {None}, read : 0..MaxAttempts]

ASSUME QueueAssumption ==
    /\ MaxAttempts \in Nat
    /\ MaxDeaths \in Nat
    /\ WebLocks \in BOOLEAN
    /\ None \notin Senders \cup Outcomes \cup Records \cup Attempts

VARIABLES
    record,   \* the queue store: [state, attempts, leased] or None
    attempt,  \* attempt[s][o]: [via, at, got, read] or None
    claim,    \* the server's idempotency record: its state and the sender
              \* that still waits for the handler
    stored,   \* the operations whose submission is committed
    told,     \* what the member was last told about the operation
    deaths

vars == <<record, attempt, claim, stored, told, deaths>>

Init ==
    /\ record = [o \in Operations |-> None]
    /\ attempt = [s \in Senders |-> [o \in Operations |-> None]]
    /\ claim = [o \in Operations |-> [state |-> "free", by |-> None]]
    /\ stored = {}
    /\ told = [o \in Operations |-> "nothing"]
    /\ deaths = 0

Sent(via) == [via |-> via, at |-> "sent", got |-> None, read |-> 0]

At(s, o, via, step) ==
    /\ attempt[s][o] # None
    /\ attempt[s][o].via = via
    /\ attempt[s][o].at = step

\* The attempts after that of s for o has moved to a step, or ended (None).
Moved(s, o, a) == [attempt EXCEPT ![s][o] = a]
Answered(s, o, outcome) ==
    [attempt EXCEPT ![s][o].at = "answered", ![s][o].got = outcome]

\* The sender that waits for the handler, if it still does, gets its outcome.
Reply(o, outcome) ==
    attempt' = IF claim[o].by = None THEN attempt
               ELSE Answered(claim[o].by, o, outcome)

Tell(o, what) == told' = [told EXCEPT ![o] = what]

Queued(n)    == [state |-> "queued", attempts |-> n, leased |-> FALSE]
Attention(n) == [state |-> "attention", attempts |-> n, leased |-> FALSE]

-----------------------------------------------------------------------------
(* submit: the direct attempt.                                             *)

\* navigator.onLine is false.
SubmitOffline(o) ==
    /\ told[o] = "nothing"
    /\ record' = [record EXCEPT ![o] = Queued(0)]
    /\ Tell(o, "queued")
    /\ UNCHANGED <<attempt, claim, stored, deaths>>

SubmitOnline(s, o) ==
    /\ told[o] = "nothing"
    /\ attempt[s][o] = None
    /\ attempt' = Moved(s, o, Sent("direct"))
    /\ Tell(o, "submitting")
    /\ UNCHANGED <<record, claim, stored, deaths>>

\* A success opens the result; a retryable failure queues the operation; a 409
\* queues it and then marks it; any other refusal is shown and not queued.
SettleDirect(s, o) ==
    /\ At(s, o, "direct", "answered")
    /\ LET got == attempt[s][o].got
       IN  \/ /\ got = "ok"
              /\ Tell(o, "success")
              /\ attempt' = Moved(s, o, None)
              /\ UNCHANGED record
           \/ /\ got = "lost"
              /\ record' = [record EXCEPT ![o] = Queued(0)]
              /\ Tell(o, "queued")
              /\ attempt' = Moved(s, o, None)
           \/ /\ got \in {"conflict", "busy"}
              /\ record' = [record EXCEPT ![o] = Queued(0)]
              /\ attempt' = [attempt EXCEPT ![s][o].at = "failing"]
              /\ UNCHANGED told
           \/ /\ got = "refused"
              /\ Tell(o, "refused")
              /\ attempt' = Moved(s, o, None)
              /\ UNCHANGED record
    /\ UNCHANGED <<claim, stored, deaths>>

-----------------------------------------------------------------------------
(* flushQueue.                                                             *)

Available(o) ==
    /\ record[o] # None
    /\ \/ record[o].state = "queued"
       \/ record[o].state = "sending" /\ ~ record[o].leased

Flushing(s) ==
    \E o \in Operations : attempt[s][o] # None /\ attempt[s][o].via = "claim"

\* claimQueued: one transaction takes every operation that is available.
ClaimQueued(s) ==
    LET claimed == { o \in Operations : Available(o) }
    IN  /\ claimed # {}
        /\ \A o \in Operations : attempt[s][o] = None
        /\ WebLocks => \A u \in Senders : ~ Flushing(u)
        /\ record' = [o \in Operations |->
                        IF o \in claimed
                        THEN [record[o] EXCEPT !.state = "sending", !.leased = TRUE]
                        ELSE record[o]]
        /\ attempt' = [attempt EXCEPT ![s] =
                         [o \in Operations |->
                            IF o \in claimed THEN Sent("claim") ELSE None]]
        /\ UNCHANGED <<claim, stored, told, deaths>>

LeaseExpires(o) ==
    /\ record[o] # None
    /\ record[o].state = "sending" /\ record[o].leased
    /\ record' = [record EXCEPT ![o].leased = FALSE]
    /\ UNCHANGED <<attempt, claim, stored, told, deaths>>

\* Mutant: the record is dropped whatever the answer.
AckAnyAnswer(s, o) ==
    /\ At(s, o, "claim", "answered")
    /\ record' = [record EXCEPT ![o] = None]
    /\ attempt' = Moved(s, o, None)
    /\ UNCHANGED <<claim, stored, told, deaths>>

\* ackQueued
AckQueued(s, o) ==
    /\ At(s, o, "claim", "answered")
    /\ attempt[s][o].got = "ok"
    /\ record' = [record EXCEPT ![o] = None]
    /\ attempt' = Moved(s, o, None)
    /\ UNCHANGED <<claim, stored, told, deaths>>

\* failQueued, its read: a record that is gone is left alone.
ReadFailed(s, o) ==
    /\ \/ At(s, o, "direct", "failing")
       \/ At(s, o, "claim", "answered") /\ attempt[s][o].got # "ok"
    /\ attempt' = IF record[o] = None
                  THEN Moved(s, o, None)
                  ELSE [attempt EXCEPT ![s][o].at = "writing",
                                       ![s][o].read = record[o].attempts]
    /\ UNCHANGED <<record, claim, stored, told, deaths>>

\* Mutant: the number of attempts is not carried over.
FailedForEver(n, error) ==
    IF error = "lost" THEN Queued(n) ELSE Attention(n)

\* Mutant: one attempt too many.
FailedOnceMore(n, error) ==
    IF error = "lost" /\ n <= MaxAttempts THEN Queued(n + 1)
    ELSE Attention(n)

Failed(n, error) ==
    IF error = "lost" /\ n < MaxAttempts THEN Queued(n + 1)
    ELSE Attention(n)

\* failQueued, its write: what was read is written back, whatever the record
\* has become.
WriteFailed(s, o) ==
    /\ attempt[s][o] # None
    /\ attempt[s][o].at = "writing"
    /\ record' = [record EXCEPT ![o] = Failed(attempt[s][o].read, attempt[s][o].got)]
    /\ attempt' = Moved(s, o, None)
    /\ IF attempt[s][o].via = "direct" THEN Tell(o, "queued") ELSE UNCHANGED told
    /\ UNCHANGED <<claim, stored, deaths>>

-----------------------------------------------------------------------------
(* The server and the network.                                             *)

InFlight(s, o) == attempt[s][o] # None /\ attempt[s][o].at \in {"sent", "served"}

\* The envelope claims the key, refuses a key in use, or replays.
Serve(s, o) ==
    /\ attempt[s][o] # None
    /\ attempt[s][o].at = "sent"
    /\ \/ /\ claim[o].state = "free"
          /\ claim' = [claim EXCEPT ![o] = [state |-> "running", by |-> s]]
          /\ attempt' = [attempt EXCEPT ![s][o].at = "served"]
       \/ /\ claim[o].state \in {"running", "stuck"}
          /\ attempt' = Answered(s, o, "busy")
          /\ UNCHANGED claim
       \/ /\ claim[o].state = "done"
          /\ attempt' = Answered(s, o, "ok")
          /\ UNCHANGED claim
    /\ UNCHANGED <<record, stored, told, deaths>>

Running(o) == claim[o].state = "running"

Store(o) ==
    /\ Running(o) /\ o \notin stored
    /\ stored' = stored \cup {o}
    /\ UNCHANGED <<record, attempt, claim, told, deaths>>

Release(o, state) == claim' = [claim EXCEPT ![o] = [state |-> state, by |-> None]]

Finish(o) ==
    /\ Running(o) /\ o \in stored
    /\ Release(o, "done")
    /\ Reply(o, "ok")
    /\ UNCHANGED <<record, stored, told, deaths>>

\* The handler raises: a refusal of something not stored, or a fault at any time.
Reject(o) ==
    /\ Running(o)
    /\ Release(o, "free")
    /\ \/ o \notin stored /\ (Reply(o, "conflict") \/ Reply(o, "refused"))
       \/ Reply(o, "lost")
    /\ UNCHANGED <<record, stored, told, deaths>>

\* The API process dies: its claim stays.
ServerDies(o) ==
    /\ Running(o)
    /\ Release(o, "stuck")
    /\ Reply(o, "lost")
    /\ UNCHANGED <<record, stored, told, deaths>>

Forgotten(s) ==
    [o \in Operations |-> IF claim[o].by = s THEN [claim[o] EXCEPT !.by = None]
                          ELSE claim[o]]

\* The connection fails or the gateway's 15 seconds are over; the handler goes
\* on if it has started.
Lose(s, o) ==
    /\ InFlight(s, o)
    /\ attempt' = Answered(s, o, "lost")
    /\ claim' = [claim EXCEPT ![o] = Forgotten(s)[o]]
    /\ UNCHANGED <<record, stored, told, deaths>>

\* The tab is closed; what it has in IndexedDB survives.
SenderDies(s) ==
    /\ deaths < MaxDeaths
    /\ deaths' = deaths + 1
    /\ \E o \in Operations : attempt[s][o] # None
    /\ attempt' = [attempt EXCEPT ![s] = [o \in Operations |-> None]]
    /\ claim' = Forgotten(s)
    /\ UNCHANGED <<record, stored, told>>

-----------------------------------------------------------------------------
Advance(s, o) ==
    \/ SettleDirect(s, o)
    \/ AckQueued(s, o)
    \/ ReadFailed(s, o)
    \/ WriteFailed(s, o)
    \/ Serve(s, o)

Handle(o) == Store(o) \/ Finish(o)

Next ==
    \/ \E o \in Operations :
          \/ SubmitOffline(o)
          \/ LeaseExpires(o)
          \/ Handle(o)
          \/ Reject(o)
          \/ ServerDies(o)
    \/ \E s \in Senders, o \in Operations :
          \/ SubmitOnline(s, o)
          \/ Advance(s, o)
          \/ Lose(s, o)
    \/ \E s \in Senders :
          \/ ClaimQueued(s)
          \/ SenderDies(s)

\* The timer flushes every 30 seconds, leases run out, and what has started
\* goes on.  Nobody has to submit, and nothing has to fail.
Fairness ==
    /\ \A s \in Senders : WF_vars(ClaimQueued(s))
    /\ \A s \in Senders, o \in Operations : WF_vars(Advance(s, o))
    /\ \A o \in Operations : WF_vars(LeaseExpires(o)) /\ WF_vars(Handle(o))

Spec == Init /\ [][Next]_vars /\ Fairness

-----------------------------------------------------------------------------
(* Properties.                                                             *)

\* The types of the stores and of the attempts, with the bound on attempts.
TypeOK ==
    /\ record \in [Operations -> Records \cup {None}]
    /\ attempt \in [Senders -> [Operations -> Attempts \cup {None}]]
    /\ claim \in [Operations -> [state : {"free", "running", "stuck", "done"},
                                 by : Senders \cup {None}]]
    /\ stored \subseteq Operations
    /\ told \in [Operations -> {"nothing", "submitting", "queued", "success",
                                "refused"}]
    /\ deaths \in 0..MaxDeaths

\* Work that the member was told is queued is in the queue until the server
\* has stored it, and a success that was shown is a stored submission: no
\* answer, closed tab or crash loses it.
QueuedWorkIsKept ==
    \A o \in Operations :
       /\ told[o] = "queued" => record[o] # None \/ o \in stored
       /\ told[o] = "success" => o \in stored

\* An operation does not stay in the queue: it is sent until the server has
\* it, or ends up where the member sees it.
QueueSettles ==
    \A o \in Operations :
       (record[o] # None /\ record[o].state # "attention")
          ~> (record[o] = None \/ record[o].state = "attention")
=============================================================================
