-------------------------------- MODULE Notify --------------------------------
(***************************************************************************)
(* The reaction to form.submission.received: actions.handle_submission_    *)
(* received calling notifications.notify_submission_received behind the    *)
(* cooldown of one form (the two cache keys carry the form's id, so forms  *)
(* do not meet).                                                           *)
(*                                                                         *)
(* The outbox delivers each event at least once: a handler that raises or  *)
(* dies is called again, and so may be one that returned.  The cache       *)
(* executes each call atomically and drops a key at its expiry; a handler  *)
(* makes up to three calls, and other handlers run in between.             *)
(***************************************************************************)
EXTENDS Integers, Sequences, FiniteSets

CONSTANTS
    Submissions,   \* the stored responses; each has one event in the outbox
    Handlers,      \* deliveries that can be in progress at the same time
    Cooldown,      \* NOTIFY_COOLDOWN_SECONDS, in ticks; 0 switches the gate off
    FormRows,      \* what a delivery may find: a form with notify targets or not
    Prompt,        \* assume that a handler is done before its window ends
    MaxDeliveries, \* bound: deliveries of one event
    MaxTime        \* bound: the clock

ASSUME NotifyAssumption ==
    /\ IsFiniteSet(Handlers)
    /\ Cooldown \in Nat /\ MaxDeliveries \in Nat /\ MaxTime \in Nat
    /\ Prompt \in BOOLEAN /\ FormRows \subseteq BOOLEAN

VARIABLES
    due,        \* the responses whose event is not acknowledged
    attempts,   \* how often event s was delivered
    handed,     \* how often any event was (history)
    gate,       \* cache: notify:<form>, the time it expires
    pending,    \* cache: notify_pending:<form>, the count and the time it expires
    handler,    \* what each delivery is doing
    letters,    \* the letters requested, in order
    announced,  \* what their counts add up to (history)
    now         \* the clock

vars == <<due, attempts, handed, gate, pending, handler, letters, announced, now>>

Waiting == [step |-> "waiting"]

(* `won' is when it won the gate, `held' what it read from pending.        *)
Delivery == [step : {"loaded", "lost", "missed", "won", "dropping", "sending"},
             sub : Submissions, targets : BOOLEAN, won : Nat, held : Nat]

NotifyTypeOK ==
    /\ due \subseteq Submissions
    /\ attempts \in [Submissions -> 0..MaxDeliveries]
    /\ handed \in Nat
    /\ gate \in Nat
    /\ pending \in [count : Nat, until : Nat]
    /\ handler \in [Handlers -> Delivery \cup {Waiting}]
    /\ letters \in Seq([won : Nat, count : Nat])
    /\ announced \in Nat
    /\ now \in 0..MaxTime

(* cache.get: 0 for an absent or expired key.                              *)
Held == IF now < pending.until THEN pending.count ELSE 0

Init ==
    /\ due = Submissions
    /\ attempts = [s \in Submissions |-> 0]
    /\ handed = 0
    /\ gate = 0
    /\ pending = [count |-> 0, until |-> 0]
    /\ handler = [h \in Handlers |-> Waiting]
    /\ letters = << >>
    /\ announced = 0
    /\ now = 0

(* While handlers are prompt, the clock does not leave one behind.         *)
Tick ==
    /\ now < MaxTime
    /\ Prompt => \A h \in Handlers :
          handler[h].step \in {"won", "dropping", "sending"} => now + 1 < handler[h].won + Cooldown
    /\ now' = now + 1
    /\ UNCHANGED <<due, attempts, handed, gate, pending, handler, letters, announced>>

(* The handler loads the form's row.  When the event was emitted, and when *)
(* the author edited the destinations or the trash purge took the form,    *)
(* makes no difference but for what a delivery finds.                      *)
Deliver(h, s) ==
    /\ handler[h] = Waiting
    /\ s \in due /\ attempts[s] < MaxDeliveries
    /\ \A g \in Handlers : handler[g] # Waiting => handler[g].sub # s
    /\ attempts' = [attempts EXCEPT ![s] = @ + 1]
    /\ handed' = handed + 1
    /\ \E targets \in FormRows :
          handler' = [handler EXCEPT ![h] =
             [step |-> "loaded", sub |-> s, targets |-> targets, won |-> 0, held |-> 0]]
    /\ UNCHANGED <<due, gate, pending, letters, announced, now>>

GoTo(h, step) == handler' = [handler EXCEPT ![h].step = step]

(* The handler returns; the acknowledgement may be lost.                   *)
Return(h) ==
    LET s == handler[h].sub IN
    /\ handler' = [handler EXCEPT ![h] = Waiting]
    /\ \/ due' = due \ {s}
       \/ attempts[s] < MaxDeliveries /\ due' = due
    /\ UNCHANGED <<attempts, handed>>
-----------------------------------------------------------------------------
(* Mutant of SkipQuietly: a missing form raises, and the event with it.    *)
RaiseOnMissing(h) ==
    /\ handler[h].step = "loaded"
    /\ ~handler[h].targets
    /\ handler' = [handler EXCEPT ![h] = Waiting]
    /\ UNCHANGED <<due, attempts, handed, gate, pending, letters, announced, now>>

(* The form is gone, or names no destination: nothing to do.               *)
SkipQuietly(h) ==
    /\ handler[h].step = "loaded"
    /\ ~handler[h].targets
    /\ Return(h)
    /\ UNCHANGED <<gate, pending, letters, announced, now>>

GateOpen == Cooldown = 0 \/ now >= gate

(* cache.add(gate_key, 1, cooldown) wins.                                  *)
WinGate(h) ==
    /\ handler[h].step = "loaded" /\ handler[h].targets
    /\ GateOpen
    /\ gate' = IF Cooldown = 0 THEN gate ELSE now + Cooldown
    /\ handler' = [handler EXCEPT ![h].step = "won", ![h].won = now]
    /\ UNCHANGED <<due, attempts, handed, pending, letters, announced, now>>

LoseGate(h) ==
    /\ handler[h].step = "loaded" /\ handler[h].targets
    /\ ~GateOpen
    /\ GoTo(h, "lost")
    /\ UNCHANGED <<due, attempts, handed, gate, pending, letters, announced, now>>

(* cache.incr keeps the expiry; it raises ValueError when there is no key. *)
IncrPending(h) ==
    /\ handler[h].step = "lost" /\ Held > 0
    /\ pending' = [pending EXCEPT !.count = @ + 1]
    /\ Return(h)
    /\ UNCHANGED <<gate, letters, announced, now>>

MissPending(h) ==
    /\ handler[h].step = "lost" /\ Held = 0
    /\ GoTo(h, "missed")
    /\ UNCHANGED <<due, attempts, handed, gate, pending, letters, announced, now>>

SetPending(h) ==
    /\ handler[h].step = "missed"
    /\ pending' = [count |-> 1, until |-> now + 4 * Cooldown]
    /\ Return(h)
    /\ UNCHANGED <<gate, letters, announced, now>>

(* The winner reads what was held ...                                      *)
GetPending(h) ==
    /\ handler[h].step = "won"
    /\ handler' = [handler EXCEPT ![h].held = Held,
                                  ![h].step = IF Held > 0 THEN "dropping" ELSE "sending"]
    /\ UNCHANGED <<due, attempts, handed, gate, pending, letters, announced, now>>

(* Mutant of DeletePending: decr by one too many instead of delete.        *)
SubtractPending(h) ==
    /\ handler[h].step = "dropping"
    /\ pending' = [pending EXCEPT !.count = (@ - handler[h].held) - 1]
    /\ GoTo(h, "sending")
    /\ UNCHANGED <<due, attempts, handed, gate, letters, announced, now>>

(* Mutant of DeletePending: the cooldown key goes with the count.          *)
DeleteBothKeys(h) ==
    /\ handler[h].step = "dropping"
    /\ pending' = [count |-> 0, until |-> 0]
    /\ gate' = 0
    /\ GoTo(h, "sending")
    /\ UNCHANGED <<due, attempts, handed, letters, announced, now>>

(* Mutant of DeletePending: the count stays.                               *)
KeepPending(h) ==
    /\ handler[h].step = "dropping"
    /\ GoTo(h, "sending")
    /\ UNCHANGED <<due, attempts, handed, gate, pending, letters, announced, now>>

(* ... deletes the key, in another call, ...                               *)
DeletePending(h) ==
    /\ handler[h].step = "dropping"
    /\ pending' = [count |-> 0, until |-> 0]
    /\ GoTo(h, "sending")
    /\ UNCHANGED <<due, attempts, handed, gate, letters, announced, now>>

(* ... and requests one letter for itself and for those it read.           *)
SendLetter(h) ==
    /\ handler[h].step = "sending"
    /\ letters' = Append(letters, [won |-> handler[h].won, count |-> 1 + handler[h].held])
    /\ announced' = announced + 1 + handler[h].held
    /\ Return(h)
    /\ UNCHANGED <<gate, pending, now>>

(* A cache call raises or the process dies; the event is delivered again.  *)
Crash(h) ==
    /\ handler[h] # Waiting
    /\ attempts[handler[h].sub] < MaxDeliveries
    /\ handler' = [handler EXCEPT ![h] = Waiting]
    /\ UNCHANGED <<due, attempts, handed, gate, pending, letters, announced, now>>

Handle(h) ==
    \/ SkipQuietly(h)
    \/ WinGate(h)
    \/ LoseGate(h)
    \/ IncrPending(h)
    \/ MissPending(h)
    \/ SetPending(h)
    \/ GetPending(h)
    \/ DeletePending(h)
    \/ SendLetter(h)

Next ==
    \/ Tick
    \/ \E h \in Handlers, s \in Submissions : Deliver(h, s)
    \/ \E h \in Handlers : Handle(h) \/ Crash(h)

Spec == Init /\ [][Next]_vars

(* The relay of the outbox comes back to every due event, and a handler    *)
(* that runs goes on; nothing obliges the process to crash.                *)
Fairness ==
    /\ \A h \in Handlers : WF_vars(Handle(h))
    /\ \A s \in Submissions : SF_vars(\E h \in Handlers : Deliver(h, s))

FairSpec == Spec /\ Fairness
-----------------------------------------------------------------------------
(***************************************************************************)
(* Properties                                                              *)
(***************************************************************************)

(* "nothing floods": of any two letters, the later one won the gate a      *)
(* whole cooldown after the earlier one, whatever was redelivered.         *)
LettersSpaced ==
    \A i, j \in DOMAIN letters : i # j =>
       \/ letters[i].won + Cooldown <= letters[j].won
       \/ letters[j].won + Cooldown <= letters[i].won

(* A letter never claims more responses than were handed to the notifier:  *)
(* the held count is not spoken twice, as long as the handler that read it *)
(* is done before the next window opens.                                   *)
NoOvercount == announced + Held <= handed

(* No submission holds up the outbox: its event is acknowledged, whatever  *)
(* became of the form and of its destinations.                             *)
EventuallyAcknowledged ==
    \A s \in Submissions : s \in due ~> s \notin due

(* "nothing is lost": when every event has been handled, each response is  *)
(* announced or held for the next letter.  (The code loses some.)          *)
NothingLost ==
    (\A h \in Handlers : handler[h] = Waiting) =>
        announced + Held >= Cardinality(Submissions \ due)
=============================================================================
