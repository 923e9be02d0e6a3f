------------------------------ MODULE CpuMiner ------------------------------
(***************************************************************************)
(* The CPU miner: RPC clients that start, stop, resize and query it or     *)
(* mine a given number of blocks, the controller, the workers and the      *)
(* speed monitor.  Every one is a goroutine; the channels are unbuffered.  *)
(*                                                                         *)
(* A caller may wait on a channel or a wait group while it holds the       *)
(* miner's mutex.  A block is abstracted to the block it extends and the   *)
(* height its coinbase states.                                             *)
(***************************************************************************)
EXTENDS Integers, FiniteSets

CONSTANTS
    Caller,         \* RPC clients
    Worker,         \* worker goroutines, numbered from 1
    MaxTip,         \* bound on the height of the chain
    MaxBlocks       \* bound on the blocks that a call to generate asks for

Free == "free"
Setting == Worker

VARIABLES
    minerLock,      \* who holds the mutex
    numWorkers, started, discreteMining,
    quitClosed,     \* the channel quit is closed
    monitor,        \* the speed monitor runs
    controller,     \* miningWorkerController: "none", "launch", "run", "drain"
    worker,         \* the goroutines generateBlocks
    caller,         \* the calls in progress
    submitLock,     \* submitBlockLock is held
    tip,            \* height of the best chain
    moved           \* a block of another miner came

minerVars == <<minerLock, numWorkers, started, discreteMining, quitClosed, monitor,
               controller, worker, caller, submitLock, tip, moved>>
state == <<numWorkers, started, discreteMining, quitClosed, monitor, controller>>

NoCaller == [op |-> "none", pc |-> "idle"]
NoWorker == [pc |-> "none", quit |-> FALSE, height |-> 0, prev |-> 0]

MinerTypeOK ==
    /\ minerLock \in Caller \cup {Free} /\ submitLock \in BOOLEAN
    /\ numWorkers \in Setting
    /\ {started, discreteMining, quitClosed, monitor, moved} \subseteq BOOLEAN
    /\ controller \in {"none", "launch", "run", "drain"}
    /\ worker \in [Worker -> [pc : {"none", "top", "template", "solve", "submit"},
                              quit : BOOLEAN, height : 0..MaxTip + 1, prev : 0..MaxTip]]
    /\ \A c \in Caller : caller[c].op \in {"none", "setgenerate", "stop", "query", "generate"}
    /\ tip \in 0..MaxTip

MinerInit ==
    /\ minerLock = Free /\ submitLock = FALSE
    /\ numWorkers = 1
    /\ started = FALSE /\ discreteMining = FALSE /\ quitClosed = FALSE /\ monitor = FALSE
    /\ controller = "none"
    /\ worker = [w \in Worker |-> NoWorker]
    /\ caller = [c \in Caller |-> NoCaller]
    /\ tip = 0 /\ moved = FALSE

Active == {w \in Worker : worker[w].pc # "none"}
Running == {w \in Active : ~worker[w].quit}
At(c, op, pc) == caller[c].op = op /\ caller[c].pc = pc

-----------------------------------------------------------------------------
(***************************************************************************)
(* The calls                                                               *)
(***************************************************************************)
Request(c, r) ==
    /\ caller[c] = NoCaller
    /\ caller' = [caller EXCEPT ![c] = r]
    /\ UNCHANGED <<minerLock, state, worker, submitLock, tip, moved>>

Acquire(c) == minerLock = Free /\ minerLock' = c
Goto(c, pc) == caller' = [caller EXCEPT ![c].pc = pc]
Return(c) == caller' = [caller EXCEPT ![c] = NoCaller]

\* SetNumWorkers: the controller is told while the mutex is held.
SetNumWorkers(c) ==
    /\ At(c, "setgenerate", "set")
    /\ minerLock = Free
    /\ numWorkers' = caller[c].n
    /\ IF started THEN minerLock' = c /\ Goto(c, "send") ELSE UNCHANGED minerLock /\ Goto(c, "start")
    /\ UNCHANGED <<started, discreteMining, quitClosed, monitor, controller, worker, submitLock, tip, moved>>

\* Start: nothing changes when it is started already.
Start(c) ==
    /\ At(c, "setgenerate", "start")
    /\ minerLock = Free
    /\ IF started \/ discreteMining THEN UNCHANGED state
       ELSE /\ quitClosed' = FALSE /\ monitor' = TRUE /\ controller' = "launch" /\ started' = TRUE
            /\ UNCHANGED <<numWorkers, discreteMining>>
    /\ Return(c)
    /\ UNCHANGED <<minerLock, worker, submitLock, tip, moved>>

\* Seeded fault: the workers are told to stop, and not waited for.
Stop_nowait(c) ==
    /\ At(c, "stop", "stop")
    /\ minerLock = Free
    /\ IF ~started \/ discreteMining THEN UNCHANGED <<started, quitClosed>>
       ELSE quitClosed' = TRUE /\ started' = FALSE
    /\ Return(c)
    /\ UNCHANGED <<minerLock, numWorkers, discreteMining, monitor, controller, worker, submitLock, tip, moved>>

\* Stop: the mutex is held until the controller and the monitor are done.
Stop(c) ==
    /\ At(c, "stop", "stop")
    /\ Acquire(c)
    /\ IF ~started \/ discreteMining THEN Goto(c, "unlock") /\ UNCHANGED quitClosed
       ELSE quitClosed' = TRUE /\ Goto(c, "wait")
    /\ UNCHANGED <<numWorkers, started, discreteMining, monitor, controller, worker, submitLock, tip, moved>>

Stopped(c) ==
    /\ At(c, "stop", "wait")
    /\ controller = "none" /\ ~monitor
    /\ started' = FALSE
    /\ Goto(c, "unlock")
    /\ UNCHANGED <<minerLock, numWorkers, discreteMining, quitClosed, monitor, controller, worker,
                   submitLock, tip, moved>>

Unlock(c) ==
    /\ At(c, "stop", "unlock")
    /\ minerLock' = Free
    /\ Return(c)
    /\ UNCHANGED <<state, worker, submitLock, tip, moved>>

\* HashesPerSecond: the monitor answers while the mutex is held.
HashesPerSecond(c) ==
    \/ /\ At(c, "query", "query") /\ Acquire(c)
       /\ Goto(c, "receive")
       /\ UNCHANGED <<state, worker, submitLock, tip, moved>>
    \/ /\ At(c, "query", "receive")
       /\ started => monitor
       /\ minerLock' = Free
       /\ Return(c)
       /\ UNCHANGED <<state, worker, submitLock, tip, moved>>

\* GenerateNBlocks: refused while anything is mined; else one loop in the
\* caller's own goroutine, without the mutex until the last block is solved.
GenerateNBlocks(c) ==
    /\ At(c, "generate", "generate")
    /\ minerLock = Free
    /\ IF started \/ discreteMining THEN Return(c) /\ UNCHANGED state
       ELSE /\ started' = TRUE /\ discreteMining' = TRUE /\ monitor' = TRUE
            /\ Goto(c, "poll")
            /\ UNCHANGED <<numWorkers, quitClosed, controller>>
    /\ UNCHANGED <<minerLock, worker, submitLock, tip, moved>>

\* The select on updateNumWorkers with a default: whoever waits there goes on.
Waiting(d) == At(d, "setgenerate", "send")
GeneratePoll(c) ==
    /\ At(c, "generate", "poll")
    /\ LET freed == {d \in Caller : Waiting(d)}
       IN  /\ caller' = [d \in Caller |-> IF d = c THEN [caller[c] EXCEPT !.pc = "height"]
                                          ELSE IF d \in freed THEN [caller[d] EXCEPT !.pc = "start"]
                                          ELSE caller[d]]
           /\ minerLock' = IF freed # {} THEN Free ELSE minerLock
    /\ UNCHANGED <<state, worker, submitLock, tip, moved>>

NextHeight == tip + 1

\* The height is read, and then the template is made, under submitBlockLock.
\* That may fail when the chain moves meanwhile.
GenerateTemplate(c) ==
    \/ /\ At(c, "generate", "height") /\ ~submitLock
       /\ submitLock' = TRUE
       /\ caller' = [caller EXCEPT ![c] = [@ EXCEPT !.pc = "template", !.height = NextHeight]]
       /\ UNCHANGED <<minerLock, state, worker, tip, moved>>
    \/ /\ At(c, "generate", "template")
       /\ submitLock' = FALSE
       /\ \/ caller' = [caller EXCEPT ![c] = [@ EXCEPT !.pc = "solve", !.prev = tip]]
          \/ caller[c].height # tip + 1 /\ Goto(c, "poll")
       /\ UNCHANGED <<minerLock, state, worker, tip, moved>>

\* solveBlock finds a solution, or gives up because the template is stale.
GenerateSolve(c) ==
    /\ At(c, "generate", "solve")
    /\ \/ Goto(c, "submit")
       \/ caller[c].prev # tip /\ Goto(c, "poll")
    /\ UNCHANGED <<minerLock, state, worker, submitLock, tip, moved>>

\* submitBlock accepts a block that extends the tip, with the height of the
\* coinbase checked by ProcessBlock.
Accepted(b) == b.prev = tip /\ b.height = b.prev + 1

\* The hash of a solved block is listed whatever submitBlock says.
GenerateSubmit(c) ==
    /\ At(c, "generate", "submit") /\ ~submitLock
    /\ tip' = IF Accepted(caller[c]) /\ tip < MaxTip THEN tip + 1 ELSE tip
    /\ caller' = [caller EXCEPT ![c] =
                     [@ EXCEPT !.n = @ - 1, !.pc = IF caller[c].n = 1 THEN "last" ELSE "poll",
                               !.refused = @ \/ ~Accepted(caller[c])]]
    /\ UNCHANGED <<minerLock, state, worker, submitLock, moved>>

\* After the last block the mutex is taken, and the monitor stopped.
GenerateFinish(c) ==
    \/ /\ At(c, "generate", "last") /\ Acquire(c)
       /\ monitor' = FALSE
       /\ Goto(c, "finish")
       /\ UNCHANGED <<numWorkers, started, discreteMining, quitClosed, controller, worker, submitLock, tip, moved>>
    \/ /\ At(c, "generate", "finish")
       /\ started' = FALSE /\ discreteMining' = FALSE
       /\ minerLock' = Free
       /\ Return(c)
       /\ UNCHANGED <<numWorkers, quitClosed, monitor, controller, worker, submitLock, tip, moved>>

-----------------------------------------------------------------------------
(***************************************************************************)
(* The controller and the workers                                          *)
(***************************************************************************)
launchWorkers(S) == worker' = [w \in Worker |-> IF w \in S THEN [NoWorker EXCEPT !.pc = "top"] ELSE worker[w]]

ControllerLaunch ==
    /\ controller = "launch"
    /\ launchWorkers(1..numWorkers)
    /\ controller' = "run"
    /\ UNCHANGED <<minerLock, numWorkers, started, discreteMining, quitClosed, monitor, caller, submitLock, tip, moved>>

\* The workers that run after an update: new ones are launched, or the last ones
\* are told to quit.
Resized == 1..numWorkers

\* The bound on the goroutines makes an update wait for a worker that is quitting.
ControllerUpdate ==
    /\ controller = "run"
    /\ \E c \in Caller :
          /\ Waiting(c)
          /\ Goto(c, "start")
          /\ minerLock' = Free
    /\ Resized \cap Active \subseteq Running
    /\ worker' = [w \in Worker |->
                     IF w \in Resized \ Running THEN [NoWorker EXCEPT !.pc = "top"]
                     ELSE IF w \in Running \ Resized THEN [worker[w] EXCEPT !.quit = TRUE]
                     ELSE worker[w]]
    /\ UNCHANGED <<state, submitLock, tip, moved>>

\* quit is closed: every worker is told, then waited for.
ControllerQuit ==
    /\ controller = "run" /\ quitClosed
    /\ worker' = [w \in Worker |-> [worker[w] EXCEPT !.quit = worker[w].pc # "none"]]
    /\ controller' = "drain"
    /\ UNCHANGED <<minerLock, numWorkers, started, discreteMining, quitClosed, monitor, caller, submitLock, tip, moved>>

ControllerDone ==
    /\ controller = "drain" /\ Active = {}
    /\ controller' = "none" /\ monitor' = FALSE
    /\ UNCHANGED <<minerLock, numWorkers, started, discreteMining, quitClosed, worker, caller, submitLock, tip, moved>>

WorkerQuit(w) ==
    /\ worker[w].quit /\ worker[w].pc \in {"top", "solve"}
    /\ worker' = [worker EXCEPT ![w] = NoWorker]
    /\ UNCHANGED <<minerLock, state, caller, submitLock, tip, moved>>

\* generateBlocks, as GenerateNBlocks does it.
WorkerTemplate(w) ==
    \/ /\ worker[w].pc = "top" /\ ~worker[w].quit /\ ~submitLock
       /\ submitLock' = TRUE
       /\ worker' = [worker EXCEPT ![w] = [@ EXCEPT !.pc = "template", !.height = NextHeight]]
       /\ UNCHANGED <<minerLock, state, caller, tip, moved>>
    \/ /\ worker[w].pc = "template"
       /\ submitLock' = FALSE
       /\ \/ worker' = [worker EXCEPT ![w] = [@ EXCEPT !.pc = "solve", !.prev = tip]]
          \/ worker[w].height # tip + 1 /\ worker' = [worker EXCEPT ![w].pc = "top"]
       /\ UNCHANGED <<minerLock, state, caller, tip, moved>>

\* A solution is reported to the monitor before the block is submitted.
WorkerSolve(w) ==
    /\ worker[w].pc = "solve"
    /\ \/ monitor /\ worker' = [worker EXCEPT ![w].pc = "submit"]
       \/ worker[w].prev # tip /\ worker' = [worker EXCEPT ![w].pc = "top"]
    /\ UNCHANGED <<minerLock, state, caller, submitLock, tip, moved>>

WorkerSubmit(w) ==
    /\ worker[w].pc = "submit" /\ ~submitLock
    /\ tip' = IF Accepted(worker[w]) /\ tip < MaxTip THEN tip + 1 ELSE tip
    /\ worker' = [worker EXCEPT ![w] = [NoWorker EXCEPT !.pc = "top", !.quit = worker[w].quit]]
    /\ UNCHANGED <<minerLock, state, caller, submitLock, moved>>

\* A block of another miner becomes the best block at any time.
NetworkBlock ==
    /\ tip < MaxTip
    /\ tip' = tip + 1 /\ moved' = TRUE
    /\ UNCHANGED <<minerLock, state, worker, caller, submitLock>>

Requests ==
    {[op |-> "setgenerate", pc |-> "set", n |-> n] : n \in Setting}
    \cup {[op |-> "stop", pc |-> "stop"], [op |-> "query", pc |-> "query"]}
    \cup {[op |-> "generate", pc |-> "generate", n |-> n, height |-> 0, prev |-> 0, refused |-> FALSE] :
             n \in 1..MaxBlocks}

CallStep(c) ==
    \/ SetNumWorkers(c) \/ Start(c) \/ Stop(c) \/ Stopped(c) \/ Unlock(c) \/ HashesPerSecond(c)
    \/ GenerateNBlocks(c) \/ GeneratePoll(c) \/ GenerateTemplate(c)
    \/ GenerateSolve(c) \/ GenerateSubmit(c) \/ GenerateFinish(c)
ControllerStep == ControllerLaunch \/ ControllerUpdate \/ ControllerQuit \/ ControllerDone
WorkerStep(w) == WorkerQuit(w) \/ WorkerTemplate(w) \/ WorkerSolve(w) \/ WorkerSubmit(w)

MinerNext ==
    \/ \E c \in Caller, r \in Requests : Request(c, r)
    \/ \E c \in Caller : CallStep(c)
    \/ ControllerStep
    \/ \E w \in Worker : WorkerStep(w)
    \/ NetworkBlock

\* The scheduler runs every goroutine that can run, and a mutex is handed to a
\* caller that keeps waiting for it.
MinerFairness ==
    /\ \A c \in Caller : SF_minerVars(CallStep(c))
    /\ WF_minerVars(ControllerStep)
    /\ \A w \in Worker : SF_minerVars(WorkerStep(w))

-----------------------------------------------------------------------------
(***************************************************************************)
(* Properties                                                              *)
(***************************************************************************)

\* When the miner is not started, nothing of an earlier start runs any more: no
\* worker, no controller and no monitor, so that a restart never has two sets
\* of workers (Stop waits for all of them).
StopLeavesNothing == ~started => Active = {} /\ controller = "none" /\ ~monitor

\* The workers are as many as were asked for last, whenever no update is on its
\* way: also when the setting changes while the controller is being launched.
WorkersFollowSetting ==
    controller = "run" /\ ~quitClosed /\ (\A c \in Caller : ~Waiting(c)) =>
        Cardinality(Running) = numWorkers

\* A call to resize is being answered by nobody: the goroutine that mines a
\* number of blocks has solved its last one and wants the mutex.
Stuck == \E c, d \in Caller : Waiting(c) /\ At(d, "generate", "last")

\* Every call returns, unless a resize meets the end of a call to generate.
CallsReturn == \A c \in Caller : (caller[c].op # "none") ~> (caller[c].op = "none" \/ Stuck)

\* What the comments say: the functions are safe for concurrent access, and
\* updateNumWorkers is read in case someone sets the number while blocks are
\* generated.
NeverStuck == ~Stuck

\* A hash that generate lists is that of a block that was accepted, unless a
\* block of another miner came meanwhile.
GeneratedAreAccepted == \A c \in Caller : caller[c].op = "generate" /\ caller[c].refused => moved
=============================================================================
