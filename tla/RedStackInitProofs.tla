------------------------- MODULE RedStackInitProofs -------------------------
(***************************************************************************)
(* Proofs about the start-up of RedStackInit for every set of failing      *)
(* calls: the type invariant, and that a failed red_stack_init has        *)
(* removed the event source and destroyed the pipe and the stack object   *)
(* (CallbacksReleased), through the inductive invariant InitInv that ties *)
(* each of them to the value of phase that the cleanup switch undoes it   *)
(* for.  The stack's hardware registration is not among them: it is never *)
(* undone (RollbackExact).                                                  *)
(***************************************************************************)
EXTENDS RedStackInit, TLAPS

USE FailingAssumption

-----------------------------------------------------------------------------
(* The table of calls entry by entry: the value of phase after each call *)
(* and the resource it leaves.                                           *)
LEMMA CallsTable ==
    /\ Len(Calls) = 15
    /\ Calls[1].after = 1 /\ Calls[1].res = {"stack"}
    /\ Calls[2].after = 2 /\ Calls[2].res = {"hardware"}
    /\ Calls[3].after = 3 /\ Calls[3].res = {"pipe"}
    /\ Calls[4].after = 3 /\ Calls[4].res = {"source"}
    /\ Calls[5].after = 3 /\ Calls[5].res = {"queue"}
    /\ Calls[6].after = 3 /\ Calls[6].res = {"gpio"}
    /\ Calls[7].after = 3 /\ Calls[7].res = {}
    /\ Calls[8].after = 3 /\ Calls[8].res = {"fd"}
    /\ Calls[9].after = 3 /\ Calls[9].res = {}
    /\ Calls[10].after = 3 /\ Calls[10].res = {}
    /\ Calls[11].after = 3 /\ Calls[11].res = {}
    /\ Calls[12].after = 3 /\ Calls[12].res = {}
    /\ Calls[13].after = 3 /\ Calls[13].res = {"semaphore"}
    /\ Calls[14].after = 3 /\ Calls[14].res = {"mutex"}
    /\ Calls[15].after = 4 /\ Calls[15].res = {"thread"}
<1>1. Len(Calls) = 15
  BY DEF Calls
<1>2. Calls[1].after = 1 /\ Calls[1].res = {"stack"}
  BY Zenon DEF Calls
<1>3. Calls[2].after = 2 /\ Calls[2].res = {"hardware"}
  BY Zenon DEF Calls
<1>4. Calls[3].after = 3 /\ Calls[3].res = {"pipe"}
  BY Zenon DEF Calls
<1>5. Calls[4].after = 3 /\ Calls[4].res = {"source"}
  BY Zenon DEF Calls
<1>6. Calls[5].after = 3 /\ Calls[5].res = {"queue"}
  BY Zenon DEF Calls
<1>7. Calls[6].after = 3 /\ Calls[6].res = {"gpio"}
  BY Zenon DEF Calls
<1>8. Calls[7].after = 3 /\ Calls[7].res = {}
  BY Zenon DEF Calls
<1>9. Calls[8].after = 3 /\ Calls[8].res = {"fd"}
  BY Zenon DEF Calls
<1>10. Calls[9].after = 3 /\ Calls[9].res = {}
  BY Zenon DEF Calls
<1>11. Calls[10].after = 3 /\ Calls[10].res = {}
  BY Zenon DEF Calls
<1>12. Calls[11].after = 3 /\ Calls[11].res = {}
  BY Zenon DEF Calls
<1>13. Calls[12].after = 3 /\ Calls[12].res = {}
  BY Zenon DEF Calls
<1>14. Calls[13].after = 3 /\ Calls[13].res = {"semaphore"}
  BY Zenon DEF Calls
<1>15. Calls[14].after = 3 /\ Calls[14].res = {"mutex"}
  BY Zenon DEF Calls
<1>16. Calls[15].after = 4 /\ Calls[15].res = {"thread"}
  BY Zenon DEF Calls
<1> QED
  BY <1>1, <1>2, <1>3, <1>4, <1>5, <1>6, <1>7, <1>8, <1>9, <1>10, <1>11, <1>12, <1>13, <1>14, <1>15, <1>16

(* What the table of calls says, call by call: the phase a call leaves is  *)
(* in 0 .. 4 and never decreases along the table, only the last call       *)
(* (thread_create) leaves phase 4, and each callback resource is made by a *)
(* call after which phase is at least the case of the switch that undoes  *)
(* it.                                                                     *)
LEMMA CallsFacts ==
    ASSUME NEW k \in 1 .. Len(Calls)
    PROVE  /\ Calls[k].after \in 0 .. 4
           /\ Calls[k].res \subseteq Resources
           /\ k < Len(Calls) => Calls[k].after <= Calls[k + 1].after
           /\ Calls[k].after = 4 => k = Len(Calls)
           /\ "stack" \in Calls[k].res => Calls[k].after >= 1
           /\ "pipe" \in Calls[k].res => Calls[k].after >= 3
           /\ "source" \in Calls[k].res => Calls[k].after >= 3
           /\ "thread" \in Calls[k].res => Calls[k].after = 4
<1>1. Calls[k].res \subseteq Resources
  BY DEF Resources
<1>2. k \in {1, 2, 3, 4, 5, 6, 7, 8, 9, 10, 11, 12, 13, 14, 15}
  BY CallsTable
<1> QED
  BY <1>1, <1>2, CallsTable
-----------------------------------------------------------------------------
(* The inductive invariant.  CallbacksReleased alone is not inductive: the *)
(* cleanup switch undoes a resource only when phase has reached the case   *)
(* for it, so each callback resource in held has to be tied to phase, and  *)
(* while calls are made phase must not exceed the value the next call     *)
(* gives it (phase only grows along the table).  The two conjuncts about   *)
(* the calls already made and about what thread_create finds in place are  *)
(* what the SPI thread relies on in RedStackLifecycle.                      *)
ThreadNeeds == {"queue", "mutex", "semaphore", "pipe"}

InitInv ==
    /\ InitTypeOK
    /\ initPc = "call" => /\ phase <= Calls[step].after
                          /\ \A k \in 1 .. step - 1 : Calls[k].res \subseteq held
    /\ "stack" \in held => phase >= 1
    /\ "pipe" \in held => phase >= 3
    /\ "source" \in held => phase >= 3
    /\ "thread" \in held => phase = 4 /\ ThreadNeeds \subseteq held
    /\ initPc = "failed" => phase # 4 /\ held \cap Undo(phase) = {}

(* What the cleanup switch undoes for each value of phase: nothing for 0  *)
(* and 4, the stack from case 1 on, the pipe and the event source in case *)
(* 3, and nothing but these three.                                         *)
LEMMA UndoFacts ==
    ASSUME NEW p \in 0 .. 4
    PROVE  /\ Undo(p) \subseteq {"stack", "pipe", "source"}
           /\ p \in {0, 4} => Undo(p) = {}
           /\ p \in 1 .. 3 => "stack" \in Undo(p)
           /\ p = 3 => {"pipe", "source"} \subseteq Undo(p)
<1>1. CASE p = 0  BY <1>1 DEF Undo
<1>2. CASE p = 1  BY <1>2 DEF Undo, Rollback
<1>3. CASE p = 2  BY <1>3 DEF Undo, Rollback
<1>4. CASE p = 3  BY <1>4 DEF Undo, Rollback
<1>5. CASE p = 4  BY <1>5 DEF Undo
<1> QED  BY <1>1, <1>2, <1>3, <1>4, <1>5

(* red_stack_init starts in a state of the invariant.                      *)
LEMMA InitInvInit == InitInit => InitInv
BY CallsTable DEF InitInit, InitInv, InitTypeOK

(* The invariant gives the type invariant and CallbacksReleased.           *)
LEMMA InitInvSafe == InitInv => InitTypeOK /\ CallbacksReleased
<1> SUFFICES ASSUME InitInv, initPc = "failed"
             PROVE  held \cap {"source", "pipe", "stack", "thread"} = {}
  BY DEF InitInv, CallbacksReleased
<1>1. phase \in 0 .. 3 /\ held \cap Undo(phase) = {}
  BY DEF InitInv, InitTypeOK
<1> QED  BY <1>1, UndoFacts DEF InitInv

(* A call that succeeds keeps the invariant: phase only grows along the   *)
(* table, so what was tied to phase stays tied, and thread_create comes   *)
(* after the calls that make the queue, the pipe, the semaphore and the   *)
(* mutex.                                                                  *)
LEMMA CallSucceedsInv == InitInv /\ CallSucceeds => InitInv'
<1> SUFFICES ASSUME InitInv, CallSucceeds PROVE InitInv'
  OBVIOUS
<1>1. /\ initPc = "call"
      /\ step \in 1 .. Len(Calls)
      /\ phase <= Calls[step].after
      /\ \A k \in 1 .. step - 1 : Calls[k].res \subseteq held
  BY DEF InitInv, InitTypeOK, CallSucceeds
<1>2. /\ held' = held \cup Calls[step].res
      /\ phase' = Calls[step].after
  BY DEF CallSucceeds
<1>3. /\ Calls[step].after \in 0 .. 4
      /\ Calls[step].res \subseteq Resources
      /\ step < Len(Calls) => Calls[step].after <= Calls[step + 1].after
      /\ Calls[step].after = 4 => step = Len(Calls)
      /\ "stack" \in Calls[step].res => Calls[step].after >= 1
      /\ "pipe" \in Calls[step].res => Calls[step].after >= 3
      /\ "source" \in Calls[step].res => Calls[step].after >= 3
      /\ "thread" \in Calls[step].res => Calls[step].after = 4
  BY <1>1, CallsFacts
<1>4. phase \in 0 .. 4 /\ held \subseteq Resources
  BY DEF InitInv, InitTypeOK
<1>5. InitTypeOK'
  BY <1>1, <1>2, <1>3, <1>4 DEF CallSucceeds, InitTypeOK
<1>6. /\ "stack" \in held' => phase' >= 1
      /\ "pipe" \in held' => phase' >= 3
      /\ "source" \in held' => phase' >= 3
  BY <1>1, <1>2, <1>3, <1>4 DEF InitInv
<1>7. "thread" \in held' => phase' = 4 /\ ThreadNeeds \subseteq held'
  <2> SUFFICES ASSUME "thread" \in held' PROVE phase' = 4 /\ ThreadNeeds \subseteq held'
    OBVIOUS
  <2>1. Calls[step].after = 4
    BY <1>1, <1>2, <1>3, <1>4 DEF InitInv
  <2>2. step = 15
    BY <2>1, <1>3, CallsTable
  <2>3. ThreadNeeds \subseteq held
    <3>1. CASE "thread" \in held
      BY <3>1 DEF InitInv
    <3>2. CASE "thread" \notin held
      <4>1. \A k \in {3, 5, 13, 14} : Calls[k].res \subseteq held
        BY <1>1, <2>2, SMTT(30)
      <4> QED  BY <4>1, CallsTable DEF ThreadNeeds
    <3> QED  BY <3>1, <3>2
  <2> QED  BY <2>1, <2>3, <1>2
<1>8. initPc' = "call" => /\ phase' <= Calls[step'].after
                          /\ \A k \in 1 .. step' - 1 : Calls[k].res \subseteq held'
  BY <1>1, <1>2, <1>3, CallsTable DEF CallSucceeds
<1>9. initPc' # "failed"
  BY DEF CallSucceeds
<1> QED  BY <1>5, <1>6, <1>7, <1>8, <1>9 DEF InitInv

(* A failed call jumps to cleanup and changes nothing else.                *)
LEMMA CallFailsInv == InitInv /\ CallFails => InitInv'
BY DEF InitInv, InitTypeOK, CallFails

(* The cleanup switch undoes every callback resource held: by the         *)
(* invariant each one was made in a case at or below phase, and the cases *)
(* fall through.  On phase 4 it undoes nothing and returns 0.             *)
LEMMA CleanupInv == InitInv /\ Cleanup => InitInv'
<1> SUFFICES ASSUME InitInv, Cleanup PROVE InitInv'
  OBVIOUS
<1>1. phase \in 0 .. 4 /\ held' = held \ Undo(phase) /\ UNCHANGED <<step, phase>>
  BY DEF InitInv, InitTypeOK, Cleanup
<1>2. phase = 4 => held' = held
  BY <1>1, UndoFacts
<1>3. InitTypeOK'
  BY <1>1 DEF InitInv, InitTypeOK, Cleanup
<1>4. initPc' # "call"
  BY DEF Cleanup
<1>5. initPc' = "failed" => phase' # 4 /\ held' \cap Undo(phase') = {}
  BY <1>1 DEF Cleanup
<1> QED  BY <1>1, <1>2, <1>3, <1>4, <1>5 DEF InitInv

(* Every step of red_stack_init keeps the invariant.                      *)
LEMMA InitInvStep == InitInv /\ [InitNext]_initVars => InitInv'
BY CallSucceedsInv, CallFailsInv, CleanupInv DEF InitNext, initVars, InitInv, InitTypeOK

-----------------------------------------------------------------------------
(* The start-up keeps its variables in their types for every set of       *)
(* failing calls: step stays in the table and phase in 0 .. 4.             *)
THEOREM InitTypeCorrect == InitSpec => []InitTypeOK
<1>1. InitInv => InitTypeOK
  BY InitInvSafe
<1> QED  BY InitInvInit, InitInvStep, <1>1, PTL DEF InitSpec

(* Whichever call of red_stack_init or red_stack_init_spi fails, the      *)
(* fall-through cleanup switch has removed the event source and destroyed *)
(* the pipe and the stack object when red_stack_init returns -1.          *)
THEOREM CallbacksReleasedCorrect == InitSpec => []CallbacksReleased
<1>1. InitInv => CallbacksReleased
  BY InitInvSafe
<1> QED  BY InitInvInit, InitInvStep, <1>1, PTL DEF InitSpec

=============================================================================
