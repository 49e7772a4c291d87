----------------------------- MODULE RedStackInit -----------------------------
(***************************************************************************)
(* The start-up of the RED Brick SPI stack: red_stack_init and the         *)
(* red_stack_init_spi it calls (src/brickd/red_stack.c).  Both run on the  *)
(* brickd main thread before the event loop starts, so the model is a      *)
(* single sequential process: one step per call that acquires something    *)
(* or can fail, then the cleanup switch.  A resource is the name of what a *)
(* successful call leaves behind; held is the set of those not yet undone. *)
(* Each call whose result the code tests may fail when it is in Failing.   *)
(***************************************************************************)
EXTENDS Naturals, Sequences

CONSTANT Failing   \* the calls whose failure a run explores

(* The calls in the order the code makes them, the resource each leaves   *)
(* when it succeeds, the value of phase after it (after), and whether the *)
(* code tests its result.  The slave loop (lines 555-568) resets the slave *)
(* table and cannot fail; mutex_create and thread_create are not tested.   *)
Calls == <<
    [name |-> "stack_create",       res |-> {"stack"},     after |-> 1, checked |-> TRUE],
    [name |-> "hardware_add_stack", res |-> {"hardware"},  after |-> 2, checked |-> TRUE],
    [name |-> "pipe_create",        res |-> {"pipe"},      after |-> 3, checked |-> TRUE],
    [name |-> "event_add_source",   res |-> {"source"},    after |-> 3, checked |-> TRUE],
    [name |-> "queue_create",       res |-> {"queue"},     after |-> 3, checked |-> TRUE],
    [name |-> "gpio_init",          res |-> {"gpio"},      after |-> 3, checked |-> TRUE],
    [name |-> "init_slaves",        res |-> {},            after |-> 3, checked |-> FALSE],
    [name |-> "open",               res |-> {"fd"},        after |-> 3, checked |-> TRUE],
    [name |-> "ioctl_mode",         res |-> {},            after |-> 3, checked |-> TRUE],
    [name |-> "ioctl_speed",        res |-> {},            after |-> 3, checked |-> TRUE],
    [name |-> "ioctl_bits",         res |-> {},            after |-> 3, checked |-> TRUE],
    [name |-> "ioctl_lsb",          res |-> {},            after |-> 3, checked |-> TRUE],
    [name |-> "semaphore_create",   res |-> {"semaphore"}, after |-> 3, checked |-> TRUE],
    [name |-> "mutex_create",       res |-> {"mutex"},     after |-> 3, checked |-> FALSE],
    [name |-> "thread_create",      res |-> {"thread"},    after |-> 4, checked |-> FALSE]
  >>

Resources == UNION {Calls[k].res : k \in 1 .. Len(Calls)}

ASSUME FailingAssumption ==
    Failing \subseteq {Calls[k].name : k \in {j \in 1 .. Len(Calls) : Calls[j].checked}}

(* What the cleanup switch undoes for a value of phase: the cases fall     *)
(* through, 3 removes the event source, 2 destroys the pipe, 1 destroys    *)
(* the stack; 0 and 4 undo nothing.                                        *)
Rollback == <<"stack", "pipe", "source">>

UndoLastCaseOnly(p) == IF p \in 1 .. 3 THEN {Rollback[p]} ELSE {}

Undo(p) == IF p \in 1 .. 3 THEN {Rollback[k] : k \in 1 .. p} ELSE {}

VARIABLES
    initPc,  \* "call" (making Calls[step]), "cleanup", "ok" or "failed"
    step,    \* index in Calls of the next call
    phase,   \* the local phase of red_stack_init
    held     \* resources acquired and not undone

initVars == <<initPc, step, phase, held>>

InitInit ==
    /\ initPc = "call"
    /\ step = 1
    /\ phase = 0
    /\ held = {}

(* Mutant of CallSucceeds: the index moves past the last call.             *)
CallSucceedsPastEnd ==
    /\ initPc = "call"
    /\ held' = held \cup Calls[step].res
    /\ phase' = Calls[step].after
    /\ step' = step + 1
    /\ initPc' = IF step = Len(Calls) THEN "cleanup" ELSE "call"

(* The next call succeeds: its resource is held and phase takes the value *)
(* the code gives it; after the last call red_stack_init_spi returned 0    *)
(* and the code falls into the cleanup label with phase 4.                 *)
CallSucceeds ==
    /\ initPc = "call"
    /\ held' = held \cup Calls[step].res
    /\ phase' = Calls[step].after
    /\ IF step = Len(Calls)
       THEN initPc' = "cleanup" /\ UNCHANGED step
       ELSE initPc' = "call" /\ step' = step + 1

(* The next call fails: log_error, return -1 from red_stack_init_spi or    *)
(* goto cleanup in red_stack_init; phase keeps its value.                  *)
CallFails ==
    /\ initPc = "call"
    /\ Calls[step].name \in Failing
    /\ initPc' = "cleanup"
    /\ UNCHANGED <<step, phase, held>>

(* The cleanup label: the switch on phase, then return phase == 4 ? 0 : -1.*)
Cleanup ==
    /\ initPc = "cleanup"
    /\ held' = held \ Undo(phase)
    /\ initPc' = IF phase = 4 THEN "ok" ELSE "failed"
    /\ UNCHANGED <<step, phase>>

InitNext == CallSucceeds \/ CallFails \/ Cleanup

InitSpec == InitInit /\ [][InitNext]_initVars

-----------------------------------------------------------------------------
InitTypeOK ==
    /\ initPc \in {"call", "cleanup", "ok", "failed"}
    /\ step \in 1 .. Len(Calls)
    /\ phase \in 0 .. 4
    /\ held \subseteq Resources

(* After red_stack_init failed, the fall-through cleanup switch has       *)
(* released the three resources it is responsible for, whichever tested   *)
(* call failed: the event source of the notification pipe is removed, the *)
(* pipe and the base stack object are destroyed.  This is not "nothing can *)
(* call back": the stack's entry in the hardware stack array (line 696) is *)
(* never removed, which RollbackExact reports.                             *)
CallbacksReleased ==
    initPc = "failed" => held \cap {"source", "pipe", "stack"} = {}

(* Spec 7: a startup failure "cleans up resources acquired so far", by a  *)
(* phased rollback: the cleanup switch undoes only what was done (it never *)
(* removes an event source, destroys a pipe or a stack that was not made), *)
(* and after red_stack_init returned -1 nothing it or red_stack_init_spi   *)
(* acquired is left; in particular the base stack is no longer in the      *)
(* hardware stack array, which would keep dispatching to the destroyed     *)
(* stack.                                                                   *)
RollbackExact ==
    /\ [][initPc = "cleanup" => Undo(phase) \subseteq held]_initVars
    /\ [](initPc = "failed" => held = {})
=============================================================================
