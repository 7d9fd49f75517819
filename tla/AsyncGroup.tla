----------------------------- MODULE AsyncGroup -----------------------------
(***************************************************************************)
(* The groups of pkg/util/async/async.go with which the operator runs its  *)
(* calls to the API server, the agents and the storage services side by    *)
(* side.  A launcher goroutine puts a token into the buffered channel      *)
(* concurCh before it starts a worker, a worker sends one value to the     *)
(* buffered channel stopCh, and Wait receives the values and takes a token *)
(* out of concurCh for each one.  Workers are told apart only by what they *)
(* send, so they are counted.                                              *)
(***************************************************************************)
EXTENDS Naturals

CONSTANTS Concurrency,   \* concurrency of NewGroup
          MaxWorkers,    \* bound on the workers added to the group
          Expires        \* whether the context of the group may be done

ASSUME ConcurrencyAssumption == Concurrency \in Nat
ASSUME WorkersAssumption == MaxWorkers \in Nat
ASSUME ExpiresAssumption == Expires \in BOOLEAN

VARIABLES workers,    \* len(g.workers)
          tokens,     \* len(concurCh)
          starting,   \* launcher is between `concurCh <-` and `go worker`
          launched,   \* workers started
          running,    \* workers started that have not sent their value
          stopOk,     \* values in stopCh that are no error
          stopErr,    \* values in stopCh that are errors
          res, errs,  \* local variables of Wait
          phase,      \* where Wait is: "add", "select", "release", "returned"
          result      \* what Wait returned

vars == <<workers, tokens, starting, launched, running, stopOk, stopErr,
          res, errs, phase, result>>

launcher == <<tokens, starting, launched, running>>
received == <<stopOk, stopErr, res, errs>>

Init == /\ workers = 0 /\ tokens = 0 /\ starting = 0 /\ launched = 0
        /\ running = 0 /\ stopOk = 0 /\ stopErr = 0 /\ res = 0 /\ errs = 0
        /\ phase = "add" /\ result = "none"

Add == /\ phase = "add" /\ workers < MaxWorkers
       /\ workers' = workers + 1
       /\ UNCHANGED <<launcher, received, phase, result>>

\* Wait with no worker returns at once; otherwise it starts the launcher.
Wait == /\ phase = "add"
        /\ \/ workers = 0 /\ phase' = "returned" /\ result' = "ok"
           \/ workers > 0 /\ phase' = "select" /\ UNCHANGED result
        /\ UNCHANGED <<workers, launcher, received>>

\* The launcher that starts the worker without waiting for a token.
TakeTokenUnbounded ==
  /\ phase # "add" /\ starting = 0 /\ launched < workers
  /\ tokens' = tokens + 1 /\ starting' = 1
  /\ UNCHANGED <<workers, launched, running, received, phase, result>>

\* The launcher blocks on concurCh while Concurrency tokens are in it, and
\* for ever when the channel has no buffer: the only receive is in Release.
TakeToken == /\ phase # "add" /\ starting = 0 /\ launched < workers
             /\ tokens < Concurrency
             /\ tokens' = tokens + 1 /\ starting' = 1
             /\ UNCHANGED <<workers, launched, running, received, phase, result>>

GoWorker == /\ starting = 1
            /\ starting' = 0 /\ launched' = launched + 1 /\ running' = running + 1
            /\ UNCHANGED <<workers, tokens, received, phase, result>>

\* `stopCh <- worker()`: the buffer of stopCh has room for every worker.
WorkerSends ==
  /\ running > 0 /\ stopOk + stopErr < workers
  /\ running' = running - 1
  /\ \/ stopOk' = stopOk + 1 /\ UNCHANGED stopErr
     \/ stopErr' = stopErr + 1 /\ UNCHANGED stopOk
  /\ UNCHANGED <<workers, tokens, starting, launched, res, errs, phase, result>>

Receive ==
  /\ phase = "select"
  /\ \/ stopOk > 0 /\ stopOk' = stopOk - 1 /\ UNCHANGED <<stopErr, errs>>
     \/ stopErr > 0 /\ stopErr' = stopErr - 1 /\ errs' = errs + 1 /\ UNCHANGED stopOk
  /\ phase' = "release"
  /\ UNCHANGED <<workers, launcher, res, result>>

Aggregate(e) == IF e = 0 THEN "ok" ELSE "error"

\* The loop that ends one value too early.
ReleaseEarly == /\ phase = "release" /\ tokens > 0
                /\ tokens' = tokens - 1 /\ res' = res + 1
                /\ IF res' + 1 >= workers
                     THEN phase' = "returned" /\ result' = Aggregate(errs)
                     ELSE phase' = "select" /\ UNCHANGED result
                /\ UNCHANGED <<workers, starting, launched, running, stopOk, stopErr, errs>>

Release == /\ phase = "release" /\ tokens > 0
           /\ tokens' = tokens - 1 /\ res' = res + 1
           /\ IF res' = workers
                THEN phase' = "returned" /\ result' = Aggregate(errs)
                ELSE phase' = "select" /\ UNCHANGED result
           /\ UNCHANGED <<workers, starting, launched, running, stopOk, stopErr, errs>>

\* The select may take ctx.Done() although a value is waiting in stopCh.
ContextDone == /\ Expires /\ phase = "select"
               /\ phase' = "returned" /\ result' = "timeout"
               /\ UNCHANGED <<workers, launcher, received>>

Next == Add \/ Wait \/ TakeToken \/ GoWorker \/ WorkerSends \/ Receive
          \/ Release \/ ContextDone

\* Goroutines that can run are scheduled, and every call a worker makes ends.
Fairness == /\ WF_vars(TakeToken) /\ WF_vars(GoWorker) /\ WF_vars(WorkerSends)
            /\ WF_vars(Receive) /\ WF_vars(Release)

Spec == Init /\ [][Next]_vars
LiveSpec == Spec /\ Fairness
-----------------------------------------------------------------------------
\* Types of the counters, the phases of Wait and its answers.
TypeOK == /\ workers \in 0..MaxWorkers /\ launched \in 0..MaxWorkers
          /\ tokens \in Nat /\ starting \in {0, 1} /\ running \in Nat
          /\ stopOk \in Nat /\ stopErr \in Nat /\ res \in Nat /\ errs \in Nat
          /\ phase \in {"add", "select", "release", "returned"}
          /\ result \in {"none", "ok", "error", "timeout"}

\* A worker holds its token from its start until Wait has received its value,
\* so the tokens in concurCh are exactly the workers not yet accounted for:
\* no token is lost or freed twice whatever the order of the goroutines.
Held == IF phase = "release" THEN 1 ELSE 0
TokensHeld == /\ tokens = starting + running + stopOk + stopErr + Held
              /\ launched = running + stopOk + stopErr + Held + res
              /\ launched + starting <= workers
              /\ errs <= res + Held

\* No more than the requested number of workers runs at a time, also after
\* Wait has given up and the launcher goes on alone.
AtMostConcurrency == running + starting <= Concurrency

\* Wait answers "ok" only when every worker was run and sent a value that is
\* no error, and "error" only when all have ended as well: no caller goes on
\* beside a worker of its group unless the context was done.
JoinsAll == /\ result \in {"ok", "error"} =>
                 /\ launched = workers /\ running = 0 /\ stopOk + stopErr = 0
            /\ result = "ok" => errs = 0
            /\ result = "error" => errs > 0

\* The group keeps what ForkJoin promises: the channels are an implementation
\* of a bounded fork and join.
Join == INSTANCE ForkJoin WITH
          tasks <- workers, started <- launched, active <- running,
          failed <- stopErr + errs, answer <- result
Implements == Join!JoinSpec

\* A call of Wait returns if every worker sends its value: the launcher and
\* Wait never wait for each other.
WaitReturns == (phase = "select") ~> (phase = "returned")
=============================================================================
