----------------------------- MODULE NotifyProofs -----------------------------
(***************************************************************************)
(* What the letters about new responses say, for any number of responses,  *)
(* handlers and redeliveries and any cooldown.                             *)
(***************************************************************************)
EXTENDS Notify, FiniteSetTheorems, SequenceTheorems, TLAPS

Winner(h) == handler[h].step \in {"won", "dropping", "sending"}

Busy == {h \in Handlers : handler[h] # Waiting}

(***************************************************************************)
(* Steps of one handler                                                    *)
(***************************************************************************)
LEMMA WaitingIsNoDelivery ==
    /\ Waiting \notin Delivery /\ Waiting.step = "waiting"
    /\ \A d \in Delivery : d.step # "waiting"
BY DEF Waiting, Delivery

LEMMA HandlerType ==
    ASSUME NotifyTypeOK, NEW h \in Handlers
    PROVE  /\ handler[h] \in Delivery \cup {Waiting}
           /\ handler[h].step # "waiting" => handler[h] \in Delivery /\ handler[h] # Waiting
<1>1. handler[h] \in Delivery \cup {Waiting}
  BY DEF NotifyTypeOK
<1> QED BY <1>1, WaitingIsNoDelivery

(* What a delivery becomes when it goes on to its next step.               *)
LEMMA StepType ==
    ASSUME NEW d \in Delivery,
           NEW step \in {"loaded", "lost", "missed", "won", "dropping", "sending"},
           NEW won \in Nat, NEW held \in Nat
    PROVE  /\ [d EXCEPT !.step = step] \in Delivery
           /\ [d EXCEPT !.step = step, !.won = won] \in Delivery
           /\ [d EXCEPT !.held = held, !.step = step] \in Delivery
           /\ d.sub \in Submissions /\ d.won \in Nat /\ d.held \in Nat
BY DEF Delivery

Others(h) ==
    /\ handler' \in [Handlers -> Delivery \cup {Waiting}]
    /\ \A g \in Handlers : g # h => handler'[g] = handler[g]

Moves(h, step, won, held) ==
    /\ Others(h) /\ handler'[h] \in Delivery
    /\ handler'[h].step = step /\ handler'[h].won = won /\ handler'[h].held = held

Rests(h) == Others(h) /\ handler'[h] = Waiting

LEMMA Steps ==
    ASSUME NotifyTypeOK, NEW h \in Handlers
    PROVE  /\ \A s \in Submissions : Deliver(h, s) => Moves(h, "loaded", 0, 0)
           /\ WinGate(h) => Moves(h, "won", now, handler[h].held)
           /\ LoseGate(h) => Moves(h, "lost", handler[h].won, handler[h].held)
           /\ MissPending(h) => Moves(h, "missed", handler[h].won, handler[h].held)
           /\ GetPending(h) => Moves(h, IF Held > 0 THEN "dropping" ELSE "sending",
                                     handler[h].won, Held)
           /\ DeletePending(h) => Moves(h, "sending", handler[h].won, handler[h].held)
           /\ Return(h) \/ Crash(h) => Rests(h)
<1>1. handler \in [Handlers -> Delivery \cup {Waiting}]
      /\ FormRows \subseteq BOOLEAN /\ now \in Nat /\ Held \in Nat
  BY NotifyAssumption DEF NotifyTypeOK, Held
<1>2. ASSUME NEW s \in Submissions, Deliver(h, s) PROVE Moves(h, "loaded", 0, 0)
  <2>1. PICK targets \in FormRows :
           handler' = [handler EXCEPT ![h] =
              [step |-> "loaded", sub |-> s, targets |-> targets, won |-> 0, held |-> 0]]
    BY <1>2 DEF Deliver
  <2> DEFINE d == [step |-> "loaded", sub |-> s, targets |-> targets, won |-> 0, held |-> 0]
  <2>2. d \in Delivery /\ d.step = "loaded" /\ d.won = 0 /\ d.held = 0
    BY <1>1 DEF Delivery
  <2> HIDE DEF d
  <2>3. handler' = [handler EXCEPT ![h] = d]
    BY <2>1 DEF d
  <2> QED BY <1>1, <2>2, <2>3 DEF Moves, Others
<1>3. handler[h].step # "waiting" => handler[h] \in Delivery
  BY HandlerType
<1>4. WinGate(h) => Moves(h, "won", now, handler[h].held)
  <2> SUFFICES ASSUME WinGate(h) PROVE Moves(h, "won", now, handler[h].held)
    OBVIOUS
  <2> DEFINE d == [handler[h] EXCEPT !.step = "won", !.won = now]
  <2>1. handler[h] \in Delivery
    BY <1>3 DEF WinGate
  <2>2. d \in Delivery /\ d.step = "won" /\ d.won = now /\ d.held = handler[h].held
    BY <1>1, <2>1 DEF Delivery
  <2>3. handler' = [handler EXCEPT ![h] = d]
    BY <1>1, <2>1 DEF WinGate, Delivery
  <2> HIDE DEF d
  <2> QED BY <1>1, <2>2, <2>3 DEF Moves, Others
<1>5. LoseGate(h) => Moves(h, "lost", handler[h].won, handler[h].held)
  BY <1>1, <1>3 DEF LoseGate, GoTo, Moves, Others, Delivery
<1>6. MissPending(h) => Moves(h, "missed", handler[h].won, handler[h].held)
  BY <1>1, <1>3 DEF MissPending, GoTo, Moves, Others, Delivery
<1>7. GetPending(h) => Moves(h, IF Held > 0 THEN "dropping" ELSE "sending", handler[h].won, Held)
  BY <1>1, <1>3 DEF GetPending, Moves, Others, Delivery
<1>8. DeletePending(h) => Moves(h, "sending", handler[h].won, handler[h].held)
  BY <1>1, <1>3 DEF DeletePending, GoTo, Moves, Others, Delivery
<1>9. Return(h) \/ Crash(h) => Rests(h)
  BY <1>1 DEF Return, Crash, Rests, Others
<1> QED BY <1>2, <1>4, <1>5, <1>6, <1>7, <1>8, <1>9

(* A step of a handler is one of a delivery in progress.                   *)
LEMMA HandlingIsBusy ==
    ASSUME NotifyTypeOK, NEW h \in Handlers, Handle(h) \/ Crash(h)
    PROVE  handler[h] \in Delivery /\ handler[h] # Waiting
BY HandlerType, WaitingIsNoDelivery
   DEF Handle, SkipQuietly, WinGate, LoseGate, IncrPending, MissPending, SetPending,
       GetPending, DeletePending, SendLetter, Crash
-----------------------------------------------------------------------------
(***************************************************************************)
(* Types                                                                   *)
(***************************************************************************)
LEMMA TypeInit == Init => NotifyTypeOK
BY NotifyAssumption DEF Init, NotifyTypeOK

LEMMA HandleType ==
    ASSUME NotifyTypeOK, NEW h \in Handlers, Handle(h) \/ Crash(h)
    PROVE  NotifyTypeOK'
<1>1. handler[h] \in Delivery /\ handler[h].won \in Nat /\ handler[h].held \in Nat
  BY HandlingIsBusy DEF Delivery
<1>2. /\ Cooldown \in Nat /\ now \in Nat /\ gate \in Nat /\ announced \in Nat
      /\ pending \in [count : Nat, until : Nat]
      /\ letters \in Seq([won : Nat, count : Nat])
  BY NotifyAssumption DEF NotifyTypeOK
<1>3. handler' \in [Handlers -> Delivery \cup {Waiting}]
  BY Steps DEF Handle, SkipQuietly, IncrPending, SetPending, SendLetter, Moves, Rests, Others
<1>4. due' \subseteq Submissions /\ UNCHANGED <<attempts, handed, now>>
  BY DEF Handle, SkipQuietly, WinGate, LoseGate, IncrPending, MissPending, SetPending,
         GetPending, DeletePending, SendLetter, Crash, Return, NotifyTypeOK
<1>5. gate' \in Nat
  BY <1>2 DEF Handle, SkipQuietly, WinGate, LoseGate, IncrPending, MissPending, SetPending,
              GetPending, DeletePending, SendLetter, Crash
<1>6. pending' \in [count : Nat, until : Nat]
  <2>1. CASE IncrPending(h)
    <3>1. pending' = [pending EXCEPT !.count = pending.count + 1] /\ pending.count + 1 \in Nat
      BY <1>2, <2>1 DEF IncrPending
    <3> QED BY <1>2, <3>1
  <2>2. CASE SetPending(h)
    <3>1. now + 4 * Cooldown \in Nat
      BY <1>2
    <3> QED BY <2>2, <3>1 DEF SetPending
  <2>3. CASE DeletePending(h)
    BY <2>3 DEF DeletePending
  <2>4. CASE pending' = pending
    BY <1>2, <2>4
  <2> QED BY <2>1, <2>2, <2>3, <2>4
          DEF Handle, SkipQuietly, WinGate, LoseGate, MissPending, GetPending, SendLetter, Crash
<1>7. letters' \in Seq([won : Nat, count : Nat]) /\ announced' \in Nat
  <2>1. CASE SendLetter(h)
    <3> DEFINE e == [won |-> handler[h].won, count |-> 1 + handler[h].held]
    <3>1. e \in [won : Nat, count : Nat]
      BY <1>1
    <3> HIDE DEF e
    <3>2. letters' = Append(letters, e) /\ announced' = announced + 1 + handler[h].held
      BY <2>1 DEF SendLetter, e
    <3> QED BY <1>1, <1>2, <3>1, <3>2
  <2>2. CASE UNCHANGED <<letters, announced>>
    BY <1>2, <2>2
  <2> QED BY <2>1, <2>2
          DEF Handle, SkipQuietly, WinGate, LoseGate, IncrPending, MissPending, SetPending,
              GetPending, DeletePending, Crash
<1> QED BY <1>3, <1>4, <1>5, <1>6, <1>7 DEF NotifyTypeOK

LEMMA TypeNext == NotifyTypeOK /\ [Next]_vars => NotifyTypeOK'
<1> SUFFICES ASSUME NotifyTypeOK, [Next]_vars PROVE NotifyTypeOK'
  OBVIOUS
<1>1. CASE Tick
  BY <1>1, NotifyAssumption DEF Tick, NotifyTypeOK
<1>2. ASSUME NEW h \in Handlers, NEW s \in Submissions, Deliver(h, s) PROVE NotifyTypeOK'
  <2>1. handler' \in [Handlers -> Delivery \cup {Waiting}]
    BY <1>2, Steps DEF Moves, Others
  <2>2. attempts' \in [Submissions -> 0..MaxDeliveries] /\ handed' \in Nat
    BY <1>2, NotifyAssumption DEF Deliver, NotifyTypeOK
  <2> QED BY <1>2, <2>1, <2>2 DEF Deliver, NotifyTypeOK
<1>3. ASSUME NEW h \in Handlers, Handle(h) \/ Crash(h) PROVE NotifyTypeOK'
  BY <1>3, HandleType
<1>4. CASE UNCHANGED vars
  BY <1>4 DEF vars, NotifyTypeOK
<1> QED BY <1>1, <1>2, <1>3, <1>4 DEF Next
-----------------------------------------------------------------------------
(***************************************************************************)
(* The cooldown                                                            *)
(*                                                                         *)
(* Every letter, and every handler that may still send one, won the gate   *)
(* when it was open and shut it for a whole cooldown: so the times they    *)
(* won it are that far apart, and the last of them is that far from the    *)
(* gate's expiry.  Without the handlers in progress this is not inductive. *)
(***************************************************************************)
Apart(a, b) == a + Cooldown <= b \/ b + Cooldown <= a

WinsApart ==
    /\ \A i \in DOMAIN letters : letters[i].won + Cooldown <= gate
    /\ \A h \in Handlers : Winner(h) =>
          /\ handler[h].won + Cooldown <= gate
          /\ \A i \in DOMAIN letters : Apart(letters[i].won, handler[h].won)
          /\ \A g \in Handlers : Winner(g) /\ g # h => Apart(handler[g].won, handler[h].won)
    /\ LettersSpaced

SpacedInv == Cooldown > 0 => WinsApart

LEMMA LosersKeepWins ==
    ASSUME WinsApart, letters' = letters, gate' = gate,
           \A h \in Handlers : Winner(h)' => Winner(h) /\ handler'[h].won = handler[h].won
    PROVE  WinsApart'
BY DEF WinsApart, LettersSpaced

LEMMA ElementType ==
    ASSUME NEW S, NEW q \in Seq(S), NEW i \in DOMAIN q
    PROVE  q[i] \in S
OBVIOUS

LEMMA WinKeepsApart ==
    ASSUME NotifyTypeOK, Cooldown > 0, WinsApart, NEW h \in Handlers, WinGate(h)
    PROVE  WinsApart'
<1>1. Moves(h, "won", now, handler[h].held)
  BY Steps
<1>2. /\ letters' = letters /\ gate' = now + Cooldown /\ now >= gate
      /\ now \in Nat /\ gate \in Nat /\ Cooldown \in Nat
  BY NotifyAssumption DEF WinGate, GateOpen, NotifyTypeOK
<1>3. \A i \in DOMAIN letters : letters[i].won \in Nat
  <2>1. letters \in Seq([won : Nat, count : Nat])
    BY DEF NotifyTypeOK
  <2>2. \A i \in DOMAIN letters : letters[i] \in [won : Nat, count : Nat]
    BY <2>1, ElementType
  <2> QED BY <2>2
<1>4. handler'[h].won = now /\ \A g \in Handlers : g # h => handler'[g] = handler[g]
  BY <1>1 DEF Moves, Others
<1>5. \A g \in Handlers : Winner(g) => handler[g].won \in Nat
  BY HandlerType DEF Winner, Delivery
<1>6. LettersSpaced'
  BY <1>2 DEF WinsApart, LettersSpaced
<1>7. \A i \in DOMAIN letters : letters[i].won + Cooldown <= now
  BY <1>2, <1>3 DEF WinsApart
<1>8. \A g \in Handlers : g # h /\ Winner(g)' => Winner(g) /\ handler[g].won + Cooldown <= now
  BY <1>2, <1>4, <1>5 DEF WinsApart, Winner
<1>9. ASSUME NEW g \in Handlers, Winner(g)'
      PROVE  /\ handler'[g].won + Cooldown <= gate'
             /\ \A i \in DOMAIN letters' : Apart(letters'[i].won, handler'[g].won)
             /\ \A f \in Handlers : Winner(f)' /\ f # g => Apart(handler'[f].won, handler'[g].won)
  <2>1. CASE g = h
    BY <1>2, <1>4, <1>7, <1>8, <2>1 DEF Apart
  <2>2. CASE g # h
    <3>1. Winner(g) /\ handler'[g] = handler[g] /\ handler[g].won + Cooldown <= now
          /\ handler[g].won \in Nat
      BY <1>4, <1>5, <1>8, <1>9, <2>2
    <3>2. \A f \in Handlers : f # h /\ Winner(f)' => Winner(f) /\ handler'[f] = handler[f]
      BY <1>4, <1>8
    <3> QED BY <1>2, <1>4, <3>1, <3>2 DEF WinsApart, Apart
  <2> QED BY <2>1, <2>2
<1>10. \A i \in DOMAIN letters' : letters'[i].won + Cooldown <= gate'
  BY <1>2, <1>3, <1>7
<1> QED BY <1>6, <1>9, <1>10 DEF WinsApart

LEMMA LetterKeepsApart ==
    ASSUME NotifyTypeOK, WinsApart, NEW h \in Handlers, SendLetter(h)
    PROVE  WinsApart'
<1> DEFINE e == [won |-> handler[h].won, count |-> 1 + handler[h].held]
<1>1. Rests(h) /\ Winner(h)
  BY Steps DEF SendLetter, Winner
<1>2. letters' = Append(letters, e) /\ gate' = gate
  BY DEF SendLetter
<1>3. e \in [won : Nat, count : Nat] /\ e.won = handler[h].won
  BY <1>1, HandlerType DEF Winner, Delivery
<1> HIDE DEF e
<1>4. /\ DOMAIN letters' = DOMAIN letters \cup {Len(letters) + 1}
      /\ letters'[Len(letters) + 1] = e
      /\ \A i \in DOMAIN letters : letters'[i] = letters[i]
  BY <1>2, <1>3 DEF NotifyTypeOK
<1>5. \A g \in Handlers : Winner(g)' => Winner(g) /\ g # h /\ handler'[g] = handler[g]
  BY <1>1, WaitingIsNoDelivery DEF Rests, Others, Winner
<1>6. \A i \in DOMAIN letters' : letters'[i].won + Cooldown <= gate'
  BY <1>1, <1>2, <1>3, <1>4 DEF WinsApart
<1>7. \A g \in Handlers : Winner(g)' =>
          /\ handler'[g].won + Cooldown <= gate'
          /\ \A i \in DOMAIN letters' : Apart(letters'[i].won, handler'[g].won)
          /\ \A f \in Handlers : Winner(f)' /\ f # g => Apart(handler'[f].won, handler'[g].won)
  BY <1>1, <1>2, <1>3, <1>4, <1>5 DEF WinsApart, Apart
<1>8. LettersSpaced'
  <2> SUFFICES ASSUME NEW i \in DOMAIN letters', NEW j \in DOMAIN letters', i # j
               PROVE  Apart(letters'[i].won, letters'[j].won)
    BY DEF LettersSpaced, Apart
  <2>1. \A k \in DOMAIN letters : Apart(letters[k].won, handler[h].won)
    BY <1>1 DEF WinsApart
  <2>2. CASE i \in DOMAIN letters /\ j \in DOMAIN letters
    BY <1>4, <2>2 DEF WinsApart, LettersSpaced, Apart
  <2>3. CASE i \in DOMAIN letters /\ j = Len(letters) + 1
    BY <1>3, <1>4, <2>1, <2>3
  <2>4. CASE j \in DOMAIN letters /\ i = Len(letters) + 1
    BY <1>3, <1>4, <2>1, <2>4 DEF Apart
  <2> QED BY <1>4, <2>2, <2>3, <2>4
<1> QED BY <1>6, <1>7, <1>8 DEF WinsApart

LEMMA SpacedNext == NotifyTypeOK /\ SpacedInv /\ [Next]_vars => SpacedInv'
<1> SUFFICES ASSUME NotifyTypeOK, Cooldown > 0, WinsApart, [Next]_vars PROVE WinsApart'
  BY DEF SpacedInv
<1>1. CASE Tick \/ UNCHANGED vars
  BY <1>1, LosersKeepWins DEF Tick, vars, Winner
<1>2. ASSUME NEW h \in Handlers, NEW s \in Submissions, Deliver(h, s) PROVE WinsApart'
  <2>1. letters' = letters /\ gate' = gate /\ Moves(h, "loaded", 0, 0)
    BY <1>2, Steps DEF Deliver
  <2> QED BY <2>1, LosersKeepWins DEF Moves, Others, Winner
<1>3. ASSUME NEW h \in Handlers, Handle(h) \/ Crash(h) PROVE WinsApart'
  <2>1. CASE WinGate(h)
    BY <2>1, WinKeepsApart
  <2>2. CASE SendLetter(h)
    BY <2>2, LetterKeepsApart
  <2>3. CASE LoseGate(h) \/ MissPending(h)
    <3>1. letters' = letters /\ gate' = gate
      BY <2>3 DEF LoseGate, MissPending
    <3>2. Others(h) /\ ~Winner(h)'
      BY <2>3, Steps DEF Moves, Winner
    <3> QED BY <3>1, <3>2, LosersKeepWins DEF Others, Winner
  <2>4. CASE GetPending(h) \/ DeletePending(h)
    <3>1. letters' = letters /\ gate' = gate /\ Winner(h)
      BY <2>4 DEF GetPending, DeletePending, Winner
    <3>2. Others(h) /\ handler'[h].won = handler[h].won
      BY <2>4, Steps DEF Moves
    <3> QED BY <3>1, <3>2, LosersKeepWins DEF Others, Winner
  <2>5. CASE SkipQuietly(h) \/ IncrPending(h) \/ SetPending(h) \/ Crash(h)
    <3>1. letters' = letters /\ gate' = gate
      BY <2>5 DEF SkipQuietly, IncrPending, SetPending, Crash
    <3>2. Rests(h)
      BY <2>5, Steps DEF SkipQuietly, IncrPending, SetPending
    <3>3. Others(h) /\ ~Winner(h)'
      BY <3>2, WaitingIsNoDelivery DEF Rests, Winner
    <3> QED BY <3>1, <3>3, LosersKeepWins DEF Others, Winner
  <2> QED BY <1>3, <2>1, <2>2, <2>3, <2>4, <2>5 DEF Handle
<1> QED BY <1>1, <1>2, <1>3 DEF Next
-----------------------------------------------------------------------------
(***************************************************************************)
(* The count                                                               *)
(*                                                                         *)
(* A delivery pays for one response in one letter.  What is announced and  *)
(* held, with what the deliveries in progress may still add, never exceeds *)
(* the deliveries there were: a handler that is dropping has read a count  *)
(* that is still held, one that is sending has a count nobody else holds.  *)
(* This takes that no two handlers are between the gate and the letter.    *)
(***************************************************************************)
Sole ==
    /\ \A h \in Handlers : Winner(h) => handler[h].won + Cooldown <= gate
                                      /\ now < handler[h].won + Cooldown
    /\ \A h, g \in Handlers : Winner(h) /\ Winner(g) => h = g

(* Without a cooldown nobody loses the gate, and nothing is ever held.     *)
NothingHeld ==
    /\ pending.until = 0
    /\ \A h \in Handlers : /\ handler[h].step \notin {"lost", "missed", "dropping"}
                           /\ handler[h].step = "sending" => handler[h].held = 0

Budget ==
    /\ announced + Held + Cardinality(Busy) <= handed
    /\ \A h \in Handlers : handler[h].step = "dropping" =>
          announced + handler[h].held + Cardinality(Busy) <= handed
    /\ \A h \in Handlers : handler[h].step = "sending" =>
          announced + Held + handler[h].held + Cardinality(Busy) <= handed

CountInv ==
    /\ Cooldown > 0 => Sole
    /\ Cooldown = 0 => NothingHeld
    /\ Budget

LEMMA CountTypes ==
    ASSUME NotifyTypeOK
    PROVE  /\ IsFiniteSet(Busy) /\ Cardinality(Busy) \in Nat
           /\ Held \in Nat /\ announced \in Nat /\ handed \in Nat /\ now \in Nat
           /\ gate \in Nat /\ Cooldown \in Nat
           /\ \A h \in Handlers : handler[h].step # "waiting" =>
                 handler[h].won \in Nat /\ handler[h].held \in Nat
<1>1. Busy \in SUBSET Handlers
  BY DEF Busy
<1>2. IsFiniteSet(Busy) /\ Cardinality(Busy) \in Nat
  BY <1>1, NotifyAssumption, FS_Subset, FS_CardinalityType
<1>3. \A h \in Handlers : handler[h].step # "waiting" =>
                 handler[h].won \in Nat /\ handler[h].held \in Nat
  BY HandlerType DEF Delivery
<1>4. Held \in Nat /\ announced \in Nat /\ handed \in Nat /\ now \in Nat
      /\ gate \in Nat /\ Cooldown \in Nat
  BY NotifyAssumption DEF NotifyTypeOK, Held
<1> QED BY <1>2, <1>3, <1>4

LEMMA HeldType == NotifyTypeOK' => Held' \in Nat
BY DEF NotifyTypeOK, Held

LEMMA BusyCount ==
    ASSUME NotifyTypeOK, NEW h \in Handlers
    PROVE  /\ \A step, won, held : Moves(h, step, won, held) =>
                 Cardinality(Busy') = IF handler[h] = Waiting THEN Cardinality(Busy) + 1
                                                             ELSE Cardinality(Busy)
           /\ Rests(h) /\ handler[h] # Waiting => Cardinality(Busy') = Cardinality(Busy) - 1
<1>1. ASSUME NEW step, NEW won, NEW held, Moves(h, step, won, held)
      PROVE  Cardinality(Busy') = IF handler[h] = Waiting THEN Cardinality(Busy) + 1
                                                          ELSE Cardinality(Busy)
  <2>1. handler'[h] # Waiting /\ \A g \in Handlers : g # h => handler'[g] = handler[g]
    BY <1>1, WaitingIsNoDelivery DEF Moves, Others
  <2>2. Busy' = Busy \cup {h}
    BY <2>1 DEF Busy
  <2>3. h \in Busy <=> handler[h] # Waiting
    BY DEF Busy
  <2> QED BY <2>2, <2>3, CountTypes, FS_AddElement
<1>2. ASSUME Rests(h), handler[h] # Waiting
      PROVE  Cardinality(Busy') = Cardinality(Busy) - 1
  <2>1. Busy' = Busy \ {h} /\ h \in Busy
    BY <1>2 DEF Busy, Rests, Others
  <2> QED BY <2>1, CountTypes, FS_RemoveElement
<1> QED BY <1>1, <1>2

(* A handler that returns or dies has paid, or paid for nothing.           *)
LEMMA RestKeepsBudget ==
    ASSUME NotifyTypeOK, NotifyTypeOK', Budget, NEW h \in Handlers, handler[h] # Waiting, Rests(h),
           UNCHANGED <<announced, handed>>, Held' <= Held + 1
    PROVE  Budget'
<1>1. Cardinality(Busy') = Cardinality(Busy) - 1
  BY BusyCount
<1>2. \A g \in Handlers : handler'[g].step # "waiting" => handler'[g] = handler[g]
  BY WaitingIsNoDelivery DEF Rests, Others
<1>3. /\ Cardinality(Busy) \in Nat /\ Held \in Nat /\ Held' \in Nat
      /\ announced \in Nat /\ handed \in Nat
  BY CountTypes, HeldType
<1>4. \A g \in Handlers : handler'[g].step # "waiting" => handler[g].held \in Nat
  BY <1>2, CountTypes
<1> QED BY <1>1, <1>2, <1>3, <1>4 DEF Budget

(* A handler on its way to the gate, or from it with empty hands.          *)
LEMMA MoveKeepsBudget ==
    ASSUME NotifyTypeOK, Budget, NEW h \in Handlers, handler[h] # Waiting,
           NEW step \in {"lost", "missed", "won"}, NEW won, NEW held, Moves(h, step, won, held),
           UNCHANGED <<announced, handed, pending, now>>
    PROVE  Budget'
<1>1. Cardinality(Busy') = Cardinality(Busy) /\ Held' = Held
  BY BusyCount DEF Held
<1>2. \A g \in Handlers : handler'[g].step \in {"dropping", "sending"} => handler'[g] = handler[g]
  BY DEF Moves, Others
<1> QED BY <1>1, <1>2 DEF Budget

LEMMA BudgetStep ==
    ASSUME NotifyTypeOK, NotifyTypeOK', CountInv, NEW h \in Handlers, Handle(h) \/ Crash(h)
    PROVE  Budget'
<1>1. handler[h] # Waiting /\ handler[h].step # "waiting" /\ Budget
  BY HandlingIsBusy, WaitingIsNoDelivery DEF CountInv
<1>2. /\ Cardinality(Busy) \in Nat /\ Held \in Nat /\ Held' \in Nat
      /\ announced \in Nat /\ handed \in Nat
      /\ handler[h].held \in Nat /\ now \in Nat /\ Cooldown \in Nat
      /\ \A g \in Handlers : handler[g].step # "waiting" => handler[g].held \in Nat
  BY <1>1, CountTypes, HeldType
<1>3. CASE SkipQuietly(h) \/ Crash(h)
  <2>1. Rests(h)
    BY <1>3, Steps DEF SkipQuietly
  <2>2. UNCHANGED <<announced, handed>> /\ Held' <= Held + 1
    BY <1>2, <1>3 DEF SkipQuietly, Return, Crash, Held
  <2> QED BY <1>1, <2>1, <2>2, RestKeepsBudget
<1>4. CASE IncrPending(h)
  <2>1. Held' = Held + 1
    BY <1>4 DEF IncrPending, Held, NotifyTypeOK
  <2>2. UNCHANGED <<announced, handed>> /\ Return(h)
    BY <1>4 DEF IncrPending, Return
  <2>3. Held' <= Held + 1
    BY <1>2, <2>1
  <2> QED BY <1>1, <2>2, <2>3, Steps, RestKeepsBudget
<1>5. CASE SetPending(h)
  <2>1. Held' <= Held + 1
    BY <1>2, <1>5 DEF SetPending, Held
  <2>2. UNCHANGED <<announced, handed>> /\ Rests(h)
    BY <1>5, Steps DEF SetPending, Return
  <2> QED BY <1>1, <2>1, <2>2, RestKeepsBudget
<1>6. CASE WinGate(h) \/ LoseGate(h) \/ MissPending(h)
  BY <1>1, <1>6, Steps, MoveKeepsBudget DEF WinGate, LoseGate, MissPending
<1>7. CASE GetPending(h)
  <2> DEFINE next == IF Held > 0 THEN "dropping" ELSE "sending"
  <2>1. Moves(h, next, handler[h].won, Held)
    BY <1>7, Steps
  <2>2. UNCHANGED <<announced, handed>> /\ Held' = Held
    BY <1>7 DEF GetPending, Held
  <2>3. Cardinality(Busy') = Cardinality(Busy)
    BY <1>1, <2>1, BusyCount
  <2>4. /\ handler'[h].step = next /\ handler'[h].held = Held
        /\ \A g \in Handlers : g # h => handler'[g] = handler[g]
    BY <2>1 DEF Moves, Others
  <2>5. handler'[h].step = "sending" => handler'[h].held = 0
    BY <1>2, <2>4
  <2> QED BY <1>1, <1>2, <2>2, <2>3, <2>4, <2>5 DEF Budget
<1>8. CASE DeletePending(h)
  <2>1. Moves(h, "sending", handler[h].won, handler[h].held) /\ handler[h].step = "dropping"
    BY <1>8, Steps DEF DeletePending
  <2>2. UNCHANGED <<announced, handed>> /\ Held' = 0
    BY <1>2, <1>8 DEF DeletePending, Held
  <2>3. Cardinality(Busy') = Cardinality(Busy)
    BY <1>1, <2>1, BusyCount
  <2>4. /\ handler'[h].step = "sending" /\ handler'[h].held = handler[h].held
        /\ \A g \in Handlers : g # h => handler'[g] = handler[g]
    BY <2>1 DEF Moves, Others
  <2>5. announced + handler[h].held + Cardinality(Busy) <= handed
    BY <1>1, <2>1 DEF Budget
  <2>6. ASSUME NEW g \in Handlers, g # h
        PROVE  /\ handler[g].step = "dropping" =>
                     announced + handler[g].held + Cardinality(Busy) <= handed
               /\ handler[g].step = "sending" =>
                     announced + 0 + handler[g].held + Cardinality(Busy) <= handed
    BY <1>1, <1>2 DEF Budget
  <2>7. announced + 0 + Cardinality(Busy) <= handed
    BY <1>1, <1>2 DEF Budget
  <2> QED BY <1>2, <2>2, <2>3, <2>4, <2>5, <2>6, <2>7 DEF Budget
<1>9. CASE SendLetter(h)
  <2>1. Rests(h) /\ handler[h].step = "sending" /\ Winner(h)
    BY <1>9, Steps DEF SendLetter, Winner
  <2>2. /\ announced' = announced + 1 + handler[h].held /\ handed' = handed /\ Held' = Held
    BY <1>9 DEF SendLetter, Return, Held
  <2>3. Cardinality(Busy') = Cardinality(Busy) - 1
    BY <1>1, <2>1, BusyCount
  <2>4. announced + Held + handler[h].held + Cardinality(Busy) <= handed
    BY <1>1, <2>1 DEF Budget
  <2>5. ASSUME NEW g \in Handlers, handler'[g].step \in {"dropping", "sending"}
        PROVE  handler'[g].step = "sending" /\ handler'[g].held = 0 /\ handler[h].held = 0
    <3>1. g # h /\ handler'[g] = handler[g]
      BY <2>1, <2>5, WaitingIsNoDelivery DEF Rests, Others
    <3>2. Winner(g)
      BY <2>5, <3>1 DEF Winner
    <3>3. Cooldown = 0
      BY <1>2, <2>1, <3>1, <3>2 DEF CountInv, Sole
    <3> QED BY <2>1, <2>5, <3>1, <3>3 DEF CountInv, NothingHeld
  <2> QED BY <1>2, <2>2, <2>3, <2>4, <2>5 DEF Budget
<1> QED BY <1>3, <1>4, <1>5, <1>6, <1>7, <1>8, <1>9 DEF Handle

LEMMA SoleStep ==
    ASSUME Prompt, Cooldown > 0, NotifyTypeOK, Sole, [Next]_vars
    PROVE  Sole'
<1>1. /\ now \in Nat /\ gate \in Nat /\ Cooldown \in Nat
      /\ \A h \in Handlers : Winner(h) => handler[h].won \in Nat
  BY CountTypes DEF Winner
<1>2. ASSUME UNCHANGED <<gate, now>>,
             \A h \in Handlers : Winner(h)' => Winner(h) /\ handler'[h].won = handler[h].won
      PROVE  Sole'
  BY <1>2 DEF Sole
<1>3. CASE Tick
  BY <1>1, <1>3 DEF Tick, Sole, Winner
<1>4. CASE UNCHANGED vars
  BY <1>2, <1>4 DEF vars, Winner
<1>5. ASSUME NEW h \in Handlers, NEW s \in Submissions, Deliver(h, s) PROVE Sole'
  <2>1. UNCHANGED <<gate, now>> /\ Moves(h, "loaded", 0, 0)
    BY <1>5, Steps DEF Deliver
  <2> QED BY <1>2, <2>1 DEF Moves, Others, Winner
<1>6. ASSUME NEW h \in Handlers, Handle(h) \/ Crash(h) PROVE Sole'
  <2>1. CASE WinGate(h)
    <3>1. /\ gate' = now + Cooldown /\ now' = now /\ now >= gate
          /\ Others(h) /\ handler'[h].won = now
      <4>1. Moves(h, "won", now, handler[h].held)
        BY <2>1, Steps
      <4>2. gate' = now + Cooldown /\ now' = now /\ now >= gate
        BY <1>1, <2>1 DEF WinGate, GateOpen
      <4> QED BY <4>1, <4>2 DEF Moves
    <3>2. \A g \in Handlers : ~Winner(g)
      BY <1>1, <3>1 DEF Sole
    <3>3. \A g \in Handlers : Winner(g)' => g = h
      BY <3>1, <3>2 DEF Others, Winner
    <3> QED BY <1>1, <3>1, <3>3 DEF Sole
  <2>2. CASE LoseGate(h) \/ MissPending(h)
    <3>1. UNCHANGED <<gate, now>>
      BY <2>2 DEF LoseGate, MissPending
    <3>2. Others(h) /\ ~Winner(h)'
      BY <2>2, Steps DEF Moves, Winner
    <3> QED BY <1>2, <3>1, <3>2 DEF Others, Winner
  <2>3. CASE GetPending(h) \/ DeletePending(h)
    <3>1. UNCHANGED <<gate, now>> /\ Winner(h)
      BY <2>3 DEF GetPending, DeletePending, Winner
    <3>2. Others(h) /\ handler'[h].won = handler[h].won
      BY <2>3, Steps DEF Moves
    <3> QED BY <1>2, <3>1, <3>2 DEF Others, Winner
  <2>4. CASE SkipQuietly(h) \/ IncrPending(h) \/ SetPending(h) \/ SendLetter(h) \/ Crash(h)
    <3>1. UNCHANGED <<gate, now>>
      BY <2>4 DEF SkipQuietly, IncrPending, SetPending, SendLetter, Crash
    <3>2. Rests(h)
      BY <2>4, Steps DEF SkipQuietly, IncrPending, SetPending, SendLetter
    <3>3. Others(h) /\ ~Winner(h)'
      BY <3>2, WaitingIsNoDelivery DEF Rests, Winner
    <3> QED BY <1>2, <3>1, <3>3 DEF Others, Winner
  <2> QED BY <1>6, <2>1, <2>2, <2>3, <2>4 DEF Handle
<1> QED BY <1>3, <1>4, <1>5, <1>6 DEF Next

LEMMA NothingHeldStep ==
    ASSUME Cooldown = 0, NotifyTypeOK, NothingHeld, [Next]_vars
    PROVE  NothingHeld'
<1>1. Held = 0 /\ GateOpen
  BY CountTypes DEF NothingHeld, Held, GateOpen
<1>2. ASSUME pending' = pending, NEW h \in Handlers, Others(h),
             handler'[h].step \in {"waiting", "loaded", "won"}
                \/ (handler'[h].step = "sending" /\ handler'[h].held = 0)
      PROVE  NothingHeld'
  BY <1>2 DEF NothingHeld, Others
<1>3. CASE Tick \/ UNCHANGED vars
  BY <1>3 DEF Tick, vars, NothingHeld
<1>4. ASSUME NEW h \in Handlers, NEW s \in Submissions, Deliver(h, s) PROVE NothingHeld'
  <2>1. pending' = pending /\ Moves(h, "loaded", 0, 0)
    BY <1>4, Steps DEF Deliver
  <2> QED BY <1>2, <2>1 DEF Moves
<1>5. ASSUME NEW h \in Handlers, Handle(h) \/ Crash(h) PROVE NothingHeld'
  <2>1. ~LoseGate(h) /\ ~IncrPending(h) /\ ~MissPending(h) /\ ~SetPending(h) /\ ~DeletePending(h)
    BY <1>1 DEF NothingHeld, LoseGate, IncrPending, MissPending, SetPending, DeletePending
  <2>2. CASE WinGate(h)
    <3>1. pending' = pending /\ Moves(h, "won", now, handler[h].held)
      BY <2>2, Steps DEF WinGate
    <3> QED BY <1>2, <3>1 DEF Moves
  <2>3. CASE GetPending(h)
    <3>1. pending' = pending /\ Moves(h, "sending", handler[h].won, 0)
      <4>1. Moves(h, IF Held > 0 THEN "dropping" ELSE "sending", handler[h].won, Held)
        BY <2>3, Steps
      <4>2. ~(Held > 0)
        BY <1>1
      <4> QED BY <1>1, <2>3, <4>1, <4>2 DEF GetPending
    <3> QED BY <1>2, <3>1 DEF Moves
  <2>4. CASE SkipQuietly(h) \/ SendLetter(h) \/ Crash(h)
    <3>1. pending' = pending
      BY <2>4 DEF SkipQuietly, SendLetter, Crash
    <3>2. Rests(h)
      BY <2>4, Steps DEF SkipQuietly, SendLetter
    <3> QED BY <1>2, <3>1, <3>2, WaitingIsNoDelivery DEF Rests
  <2> QED BY <1>5, <2>1, <2>2, <2>3, <2>4 DEF Handle
<1> QED BY <1>3, <1>4, <1>5 DEF Next

LEMMA CountNext ==
    ASSUME Prompt
    PROVE  NotifyTypeOK /\ NotifyTypeOK' /\ CountInv /\ [Next]_vars => CountInv'
<1> SUFFICES ASSUME NotifyTypeOK, NotifyTypeOK', CountInv, [Next]_vars PROVE CountInv'
  OBVIOUS
<1>1. (Cooldown > 0 => Sole') /\ (Cooldown = 0 => NothingHeld')
  BY SoleStep, NothingHeldStep DEF CountInv
<1>2. Budget'
  <2>1. Budget /\ Cardinality(Busy) \in Nat /\ Held \in Nat /\ Held' \in Nat
        /\ announced \in Nat /\ handed \in Nat
        /\ \A h \in Handlers : handler[h].step # "waiting" => handler[h].held \in Nat
    BY CountTypes, HeldType DEF CountInv
  <2>2. CASE Tick \/ UNCHANGED vars
    <3>1. UNCHANGED <<announced, handed, handler>> /\ Held' <= Held
      BY <2>1, <2>2 DEF Tick, vars, Held, NotifyTypeOK
    <3>2. Cardinality(Busy') = Cardinality(Busy)
      BY <3>1 DEF Busy
    <3> QED BY <2>1, <3>1, <3>2 DEF Budget
  <2>3. ASSUME NEW h \in Handlers, NEW s \in Submissions, Deliver(h, s) PROVE Budget'
    <3>1. Moves(h, "loaded", 0, 0) /\ handler[h] = Waiting
      BY <2>3, Steps DEF Deliver
    <3>2. announced' = announced /\ handed' = handed + 1 /\ Held' = Held
      BY <2>3 DEF Deliver, Held
    <3>3. Cardinality(Busy') = Cardinality(Busy) + 1
      BY <3>1, BusyCount
    <3>4. \A g \in Handlers : handler'[g].step \in {"dropping", "sending"} => handler'[g] = handler[g]
      BY <3>1 DEF Moves, Others
    <3>5. \A g \in Handlers : handler'[g].step \in {"dropping", "sending"} => handler[g].held \in Nat
      BY <2>1, <3>4
    <3> QED BY <2>1, <3>2, <3>3, <3>4, <3>5 DEF Budget
  <2>4. ASSUME NEW h \in Handlers, Handle(h) \/ Crash(h) PROVE Budget'
    BY <2>4, BudgetStep
  <2> QED BY <2>2, <2>3, <2>4 DEF Next
<1> QED BY <1>1, <1>2 DEF CountInv
-----------------------------------------------------------------------------
(***************************************************************************)
(* The theorems                                                            *)
(***************************************************************************)
LEMMA SpacedAndCountedInit == Init => SpacedInv /\ CountInv
<1> SUFFICES ASSUME Init PROVE SpacedInv /\ CountInv
  OBVIOUS
<1>1. \A h \in Handlers : handler[h] = Waiting /\ handler[h].step = "waiting"
  BY WaitingIsNoDelivery DEF Init
<1>2. Busy = {} /\ Held = 0 /\ Cardinality({}) = 0
  BY <1>1, FS_EmptySet DEF Busy, Held, Init
<1>3. DOMAIN letters = {}
  BY DEF Init
<1>4. SpacedInv
  BY <1>1, <1>3 DEF SpacedInv, WinsApart, LettersSpaced, Winner
<1>5. CountInv
  BY <1>1, <1>2 DEF Init, CountInv, Sole, NothingHeld, Budget, Winner
<1> QED BY <1>4, <1>5

(* No race of deliveries leaves a count the cache could not hold or a      *)
(* delivery in no known step.                                              *)
THEOREM NotifyTypeCorrect == Spec => []NotifyTypeOK
BY TypeInit, TypeNext, PTL DEF Spec

(* "Nothing floods": however many handlers run and whatever is delivered   *)
(* again, slow handlers included, two letters are a cooldown apart.        *)
THEOREM NothingFloods == Spec => []LettersSpaced
<1>1. NotifyTypeOK /\ SpacedInv => LettersSpaced
  <2> SUFFICES ASSUME NotifyTypeOK, Cooldown = 0, NEW i \in DOMAIN letters, NEW j \in DOMAIN letters
               PROVE  \/ letters[i].won + Cooldown <= letters[j].won
                      \/ letters[j].won + Cooldown <= letters[i].won
    BY NotifyAssumption DEF SpacedInv, WinsApart, LettersSpaced
  <2>1. letters \in Seq([won : Nat, count : Nat])
    BY DEF NotifyTypeOK
  <2>2. letters[i] \in [won : Nat, count : Nat] /\ letters[j] \in [won : Nat, count : Nat]
    BY <2>1, ElementType
  <2> QED BY <2>2
<1> QED BY <1>1, NotifyTypeCorrect, SpacedAndCountedInit, SpacedNext, PTL DEF Spec

(* While handlers are done before their window ends, no response is        *)
(* announced twice for one delivery of its event.                          *)
THEOREM PromptNeverOvercounts ==
    ASSUME Prompt
    PROVE  Spec => []NoOvercount
<1>1. NotifyTypeOK /\ CountInv => NoOvercount
  BY CountTypes DEF CountInv, Budget, NoOvercount
<1> QED BY <1>1, NotifyTypeCorrect, SpacedAndCountedInit, CountNext, PTL DEF Spec
=============================================================================
