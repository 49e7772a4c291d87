----------------------- MODULE RedStackLifecycleProofs -----------------------
(***************************************************************************)
(* Proofs about RedStackLifecycle, the start-up composed with the SPI and  *)
(* event threads, for every value of the constants: the properties of the *)
(* lifecycle run.  The invariant LifeInv is InitInv of RedStackInitProofs  *)
(* and the fact that red_stack_exit only runs after red_stack_init         *)
(* returned 0; with it every step of the SPI thread finds the queue, its   *)
(* mutex, the semaphore and the pipe in place (ThreadUsesLiveResources).   *)
(***************************************************************************)
EXTENDS RedStackLifecycle, RedStackInitProofs, TLAPS

(* The SPI thread's own variables: a step that changes one of them is a    *)
(* step of red_stack_spi_thread.                                            *)
spiVars == <<spiPc, disc, status, cycle, rxCount>>

(* The inductive invariant: InitInv, and the event thread is past its    *)
(* loop (red_stack_exit has run) only once red_stack_init returned 0, so  *)
(* thread_join and the close that follows never meet a start-up that is   *)
(* still making calls.                                                     *)
LifeInv ==
    /\ InitInv
    /\ evtPc # "loop" => initPc = "ok"

-----------------------------------------------------------------------------
(* A step of red_stack_spi_thread leaves the event thread where it is.     *)
LEMMA SpiThreadKeepsEvt == SpiThread => evtPc' = evtPc
BY DEF SpiThread, DiscoverSend, DiscoverRecv, Tick, TickOn, AcquirePermit,
       StopThread

(* The event thread's dispatch calls, red_stack_exit and thread_join leave *)
(* the SPI thread's variables alone.                                        *)
LEMMA EventKeepsSpi ==
    /\ \A u \in {0} \cup Uid : DispatchToSpi(u) => UNCHANGED spiVars
    /\ DispatchFromSpi => UNCHANGED spiVars
    /\ Exit => UNCHANGED spiVars
    /\ Join => UNCHANGED spiVars
BY DEF DispatchToSpi, DispatchFromSpi, Exit, Join, spiVars

(* Once red_stack_init returned 0, closing the descriptor and destroying   *)
(* the thread keep InitInv: nothing the invariant ties to phase goes.      *)
LEMMA ReleaseKeepsInitInv ==
    ASSUME InitInv, initPc = "ok", UNCHANGED <<initPc, step, phase>>,
           held' \subseteq held, held \ {"thread", "fd"} \subseteq held'
    PROVE  InitInv'
<1>1. InitTypeOK'
  BY DEF InitInv, InitTypeOK
<1>2. "thread" \in held' => phase' = 4 /\ ThreadNeeds \subseteq held'
  BY DEF InitInv, ThreadNeeds
<1> QED  BY <1>1, <1>2 DEF InitInv

-----------------------------------------------------------------------------
LEMMA LifeInvInit == LifeInit => LifeInv
BY InitInvInit DEF LifeInit, Init, LifeInv

LEMMA LifeInvStep == LifeInv /\ [LifeNext]_lifeVars => LifeInv'
<1> SUFFICES ASSUME LifeInv, [LifeNext]_lifeVars PROVE LifeInv'
  OBVIOUS
<1>1. CASE StartUp
  <2>1. initPc \in {"call", "cleanup"}
    BY <1>1 DEF StartUp, InitNext, CallSucceeds, CallFails, Cleanup
  <2>2. InitInv'
    BY <1>1, InitInvStep DEF StartUp, LifeInv
  <2> QED  BY <1>1, <2>1, <2>2 DEF StartUp, vars, LifeInv
<1>2. CASE SpiRuns
  BY <1>2, SpiThreadKeepsEvt DEF SpiRuns, initVars, LifeInv, InitInv, InitTypeOK,
                                 ThreadNeeds
<1>3. CASE EventRuns
  BY <1>3 DEF EventRuns, DispatchToSpi, DispatchFromSpi, initVars, LifeInv,
              InitInv, InitTypeOK, ThreadNeeds
<1>4. CASE ExitCloses
  <2>1. InitInv'
    BY <1>4, ReleaseKeepsInitInv DEF ExitCloses, LifeInv
  <2> QED  BY <1>4, <2>1 DEF ExitCloses, LifeInv
<1>5. CASE JoinCloses
  <2>1. initPc = "ok"
    BY <1>5 DEF JoinCloses, Join, LifeInv
  <2>2. /\ held' = held \ {"thread", "fd"}
        /\ UNCHANGED <<initPc, step, phase>>
    BY <1>5 DEF JoinCloses
  <2>3. InitInv'
    BY <2>1, <2>2, ReleaseKeepsInitInv DEF LifeInv
  <2> QED  BY <1>5, <2>1, <2>3 DEF JoinCloses, LifeInv
<1>6. CASE UNCHANGED lifeVars
  BY <1>6 DEF lifeVars, vars, initVars, LifeInv, InitInv, InitTypeOK, ThreadNeeds
<1> QED  BY <1>1, <1>2, <1>3, <1>4, <1>5, <1>6 DEF LifeNext

-----------------------------------------------------------------------------
(* For every number of slots, UIDs and bounds, and every set of failing    *)
(* calls, the start-up keeps its variables in their types while the        *)
(* threads run and red_stack_exit closes the descriptor.                   *)
THEOREM LifeInitTypeCorrect == LifeSpec => []InitTypeOK
<1>1. LifeInv => InitTypeOK
  BY DEF LifeInv, InitInv
<1> QED  BY LifeInvInit, LifeInvStep, <1>1, PTL DEF LifeSpec

(* In the composed system, whatever the threads do, red_stack_init        *)
(* returning -1 has removed the event source and destroyed the pipe and   *)
(* the stack object (the hardware registration excepted, RollbackExact).  *)
THEOREM LifeCallbacksReleasedCorrect == LifeSpec => []CallbacksReleased
<1>1. LifeInv => CallbacksReleased
  BY InitInvSafe DEF LifeInv
<1> QED  BY LifeInvInit, LifeInvStep, <1>1, PTL DEF LifeSpec

(* Every step of red_stack_spi_thread, in any interleaving with start-up, *)
(* the dispatch calls and red_stack_exit, happens while the queue, its    *)
(* mutex, the semaphore and the notification pipe exist: thread_create is *)
(* the last call of red_stack_init_spi, and shutdown destroys only the     *)
(* thread and the descriptor.                                               *)
THEOREM ThreadUsesLiveResourcesCorrect == LifeSpec => ThreadUsesLiveResources
<1>1. LifeInv /\ [LifeNext]_lifeVars
        => [~UNCHANGED spiVars => {"queue", "mutex", "semaphore", "pipe"} \subseteq held]_lifeVars
  <2> SUFFICES ASSUME LifeInv, [LifeNext]_lifeVars, ~UNCHANGED spiVars
               PROVE  ThreadNeeds \subseteq held
    BY DEF ThreadNeeds
  <2>1. ~StartUp
    BY DEF StartUp, vars, spiVars
  <2>2. ~EventRuns /\ ~ExitCloses /\ ~JoinCloses
    BY EventKeepsSpi DEF EventRuns, ExitCloses, JoinCloses
  <2>3. ~UNCHANGED lifeVars
    BY DEF lifeVars, vars, spiVars
  <2>4. SpiRuns
    BY <2>1, <2>2, <2>3 DEF LifeNext
  <2> QED  BY <2>4 DEF SpiRuns, LifeInv, InitInv
<1> QED  BY LifeInvInit, LifeInvStep, <1>1, PTL DEF LifeSpec, ThreadUsesLiveResources, spiVars
=============================================================================
