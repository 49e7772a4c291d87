--------------------------- MODULE RedStackLifecycle ---------------------------
(***************************************************************************)
(* The SPI stack from red_stack_init to red_stack_exit: the start-up of    *)
(* RedStackInit composed with the two threads of RedStackSpi.  The SPI     *)
(* thread exists once thread_create (the last call of red_stack_init_spi)  *)
(* has run; the event thread calls into the stack only after              *)
(* red_stack_init returned 0 (brickd starts its event loop after the       *)
(* init functions).  red_stack_exit also closes the spidev descriptor,     *)
(* after thread_join and thread_destroy when the thread was joined.        *)
(***************************************************************************)
EXTENDS RedStackSpi, RedStackInit

lifeVars == <<vars, initVars>>

LifeInit == Init /\ InitInit

(* red_stack_init on the main thread; the threads do not exist yet.        *)
StartUp == InitNext /\ UNCHANGED vars

(* Mutant of SpiRuns: the thread runs before red_stack_init_spi has made  *)
(* what it uses, as if thread_create came first.                           *)
SpiRunsEarly == SpiThread /\ UNCHANGED initVars

(* A step of red_stack_spi_thread, once thread_create has started it.      *)
SpiRuns == "thread" \in held /\ SpiThread /\ UNCHANGED initVars

(* red_stack_dispatch_to_spi and red_stack_dispatch_from_spi, called by    *)
(* the event loop once red_stack_init has returned 0.                      *)
EventRuns ==
    /\ initPc = "ok"
    /\ (\E u \in {0} \cup Uid : DispatchToSpi(u)) \/ DispatchFromSpi
    /\ UNCHANGED initVars

(* red_stack_exit: clear the running flag and join, or, if the flag was    *)
(* not set, close(_red_stack_spi_fd) at once.                               *)
ExitCloses ==
    /\ initPc = "ok"
    /\ Exit
    /\ held' = IF evtPc' = "exited" THEN held \ {"fd"} ELSE held
    /\ UNCHANGED <<initPc, step, phase>>

(* thread_join returned: thread_destroy, then close(_red_stack_spi_fd).    *)
JoinCloses ==
    /\ Join
    /\ held' = held \ {"thread", "fd"}
    /\ UNCHANGED <<initPc, step, phase>>

LifeNext == StartUp \/ SpiRuns \/ EventRuns \/ ExitCloses \/ JoinCloses

LifeSpec == LifeInit /\ [][LifeNext]_lifeVars

(* The main thread runs red_stack_init to its end; the threads are         *)
(* scheduled as in FairSpec.                                               *)
LifeFairSpec ==
    /\ LifeSpec
    /\ WF_lifeVars(StartUp)
    /\ WF_lifeVars(SpiRuns)
    /\ WF_lifeVars(EventRuns /\ DispatchFromSpi)
    /\ WF_lifeVars(JoinCloses)

-----------------------------------------------------------------------------
(* Every step of red_stack_spi_thread happens while what it uses exists:  *)
(* the queue and its mutex that it peeks, the semaphore it waits on and    *)
(* the pipe it writes the notification byte into.                          *)
ThreadUsesLiveResources ==
    [][~UNCHANGED <<spiPc, disc, status, cycle, rxCount>>
         => {"queue", "mutex", "semaphore", "pipe"} \subseteq held]_lifeVars
=============================================================================
