---------------------------- MODULE PriceService ----------------------------
(***************************************************************************)
(* How prices travel from the side-car to the application: the ticks of    *)
(* the side-car (OracleSidecar has their detail), the Prices handler of    *)
(* its gRPC server, and the price daemon of the application, which asks    *)
(* for prices at an interval and hands out the latest response until it is *)
(* older than PriceTTL. Prices are told apart by the time they were        *)
(* aggregated at.                                                          *)
(***************************************************************************)
EXTENDS Integers, FiniteSets

CONSTANTS
  Request,         \* bound: requests whose handlers are still around
  Stopper,         \* callers of PriceDaemon.Stop
  MayCancel,       \* whether the context given to Start may be cancelled
  NoResponse,      \* no response yet
  UpdateInterval,  \* of the side-car
  ClientTimeout, PriceTTL,
  MaxTime          \* bound: the clock

ASSUME PriceServiceConstants ==
  /\ UpdateInterval \in Nat \ {0} /\ ClientTimeout \in Nat \ {0} /\ PriceTTL \in Nat \ {0}
  /\ MayCancel \in BOOLEAN /\ MaxTime \in Nat

VARIABLES
  now,
  aggregatedAt,   \* when the aggregator's prices were made
  lastPriceSync,  \* of the oracle: the prices it was set for
  synced,         \* the tick has set the sync time
  handlers,       \* the Prices handler of each request
  daemon,         \* "starting", "idle", "calling", "leaving", "exited"
  calling,        \* the request the daemon waits for
  callStart,
  isRunning, response,
  stoppers, doneClosed, cancelled

oracleVars == <<aggregatedAt, lastPriceSync, synced>>
daemonVars == <<daemon, calling, callStart, isRunning, response>>
stopVars == <<stoppers, doneClosed, cancelled>>
vars == <<now, oracleVars, handlers, daemonVars, stopVars>>

Time == 0 .. MaxTime
Free == [state |-> "free", made |-> 0, sync |-> 0]

-----------------------------------------------------------------------------
(* The price loop of the side-car: AggregatePrices, then setLastSyncTime.  *)
Aggregate ==
  /\ synced /\ now > aggregatedAt
  /\ aggregatedAt' = now /\ synced' = FALSE
  /\ UNCHANGED <<now, lastPriceSync, handlers, daemonVars, stopVars>>

SetLastSyncTime ==
  /\ ~synced
  /\ lastPriceSync' = aggregatedAt /\ synced' = TRUE
  /\ UNCHANGED <<now, aggregatedAt, handlers, daemonVars, stopVars>>

-----------------------------------------------------------------------------
(* OracleServer.Prices: a goroutine reads the prices, then the time of the *)
(* last sync, and sends both on a channel of its own, without a buffer.    *)
GetPrices(r) ==
  /\ handlers[r].state = "begun"
  /\ handlers' = [handlers EXCEPT ![r].state = "prices", ![r].made = aggregatedAt]
  /\ UNCHANGED <<now, oracleVars, daemonVars, stopVars>>

GetLastSyncTime(r) ==
  /\ handlers[r].state = "prices"
  /\ handlers' = [handlers EXCEPT ![r].state = "sending", ![r].sync = lastPriceSync]
  /\ UNCHANGED <<now, oracleVars, daemonVars, stopVars>>

-----------------------------------------------------------------------------
(* PriceDaemon.Start.                                                      *)
StartDaemon ==
  /\ daemon = "starting"
  /\ daemon' = "idle" /\ isRunning' = TRUE
  /\ UNCHANGED <<now, oracleVars, handlers, calling, callStart, response, stopVars>>

(* The client cannot dial the side-car.                                    *)
StartFails ==
  /\ daemon = "starting"
  /\ daemon' = "exited"
  /\ UNCHANGED <<now, oracleVars, handlers, calling, callStart, isRunning, response, stopVars>>

(* A tick: fetchPrices sends a request.                                    *)
Call(r) ==
  /\ daemon = "idle" /\ handlers[r].state = "free"
  /\ daemon' = "calling" /\ calling' = r /\ callStart' = now
  /\ handlers' = [handlers EXCEPT ![r].state = "begun"]
  /\ UNCHANGED <<now, oracleVars, isRunning, response, stopVars>>

(* ThreadSafeResponse.Update.                                              *)
Update(h) == response' = [made |-> h.made, timestamp |-> now]

(* Faulty variant: the handlers send on one channel.                       *)
AnswersAny(r) == handlers[r].state = "sending"

Answers(r) == handlers[r].state = "sending" /\ r = calling

CallReturns(r) ==
  /\ daemon = "calling" /\ Answers(r)
  /\ daemon' = "idle" /\ Update(handlers[r])
  /\ handlers' = [handlers EXCEPT ![r] = Free]
  /\ UNCHANGED <<now, oracleVars, calling, callStart, isRunning, stopVars>>

(* The call times out or fails, at the latest after ClientTimeout. The     *)
(* handler's goroutine goes on and waits to send.                          *)
CallFails ==
  /\ daemon = "calling"
  /\ daemon' = "idle"
  /\ UNCHANGED <<now, oracleVars, handlers, calling, callStart, isRunning, response, stopVars>>

(* The request reaches a side-car whose oracle does not run.               *)
Refuse(r) ==
  /\ daemon = "calling" /\ r = calling /\ handlers[r].state = "begun"
  /\ daemon' = "idle"
  /\ handlers' = [handlers EXCEPT ![r] = Free]
  /\ UNCHANGED <<now, oracleVars, calling, callStart, isRunning, response, stopVars>>

(* The loop ends with the context or with doneCh once that is closed; the  *)
(* rendezvous with Stop is below.                                          *)
LeaveLoop ==
  /\ daemon = "idle" /\ (cancelled \/ doneClosed)
  /\ daemon' = "leaving"
  /\ UNCHANGED <<now, oracleVars, handlers, calling, callStart, isRunning, response, stopVars>>

(* The deferred calls.                                                     *)
ExitDaemon ==
  /\ daemon = "leaving"
  /\ daemon' = "exited" /\ isRunning' = FALSE
  /\ UNCHANGED <<now, oracleVars, handlers, calling, callStart, response, stopVars>>

-----------------------------------------------------------------------------
(* PriceDaemon.Stop looks at isRunning, sends on doneCh and closes it.     *)
CallStop(s) ==
  /\ stoppers[s] = "none"
  /\ stoppers' = [stoppers EXCEPT ![s] = IF isRunning THEN "sending" ELSE "returned"]
  /\ UNCHANGED <<now, oracleVars, handlers, daemonVars, doneClosed, cancelled>>

(* Faulty variant: the loop does not look at doneCh.                       *)
ReceivesNever == FALSE

Receives == daemon = "idle"

(* The application calls Stop once (Stopper): a second Stop that looked at  *)
(* isRunning before the loop had left would send on the closed channel and *)
(* panic.                                                                  *)
SendDone(s) ==
  /\ stoppers[s] = "sending" /\ Receives
  /\ stoppers' = [stoppers EXCEPT ![s] = "closing"]
  /\ daemon' = "leaving"
  /\ UNCHANGED <<now, oracleVars, handlers, calling, callStart, isRunning, response, doneClosed, cancelled>>

CloseDone(s) ==
  /\ stoppers[s] = "closing"
  /\ stoppers' = [stoppers EXCEPT ![s] = "returned"]
  /\ doneClosed' = TRUE
  /\ UNCHANGED <<now, oracleVars, handlers, daemonVars, cancelled>>

Cancel ==
  /\ MayCancel /\ ~cancelled
  /\ cancelled' = TRUE
  /\ UNCHANGED <<now, oracleVars, handlers, daemonVars, stoppers, doneClosed>>

(* The side-car ticks at its interval and a call does not outlast          *)
(* ClientTimeout.                                                          *)
PassTime ==
  /\ now < MaxTime
  /\ synced /\ now - aggregatedAt < UpdateInterval
  /\ daemon = "calling" => now - callStart < ClientTimeout
  /\ now' = now + 1
  /\ UNCHANGED <<oracleVars, handlers, daemonVars, stopVars>>

-----------------------------------------------------------------------------
Init ==
  /\ now = 0 /\ aggregatedAt = 0 /\ lastPriceSync = 0 /\ synced = TRUE
  /\ handlers = [r \in Request |-> Free]
  /\ daemon = "starting" /\ calling \in Request /\ callStart = 0
  /\ isRunning = FALSE /\ response = NoResponse
  /\ stoppers = [s \in Stopper |-> "none"] /\ doneClosed = FALSE /\ cancelled = FALSE

Next ==
  \/ Aggregate \/ SetLastSyncTime \/ PassTime
  \/ \E r \in Request : GetPrices(r) \/ GetLastSyncTime(r) \/ Call(r) \/ CallReturns(r) \/ Refuse(r)
  \/ StartDaemon \/ StartFails \/ CallFails \/ LeaveLoop \/ ExitDaemon
  \/ \E s \in Stopper : CallStop(s) \/ SendDone(s) \/ CloseDone(s)
  \/ Cancel

(* The daemon's goroutine runs, a call ends by its deadline at the latest, *)
(* and a select that a Stop waits at infinitely often takes it.            *)
Fairness ==
  /\ WF_vars(StartDaemon \/ StartFails) /\ SF_vars(LeaveLoop) /\ WF_vars(ExitDaemon)
  /\ WF_vars(CallFails \/ \E r \in Request : CallReturns(r) \/ Refuse(r))
  /\ \A s \in Stopper : SF_vars(SendDone(s)) /\ WF_vars(CloseDone(s))

Spec == Init /\ [][Next]_vars /\ Fairness

-----------------------------------------------------------------------------
Handler == [state : {"free", "begun", "prices", "sending"}, made : Time, sync : Time]

(* Every variable has its type.                                            *)
ServiceTypeOK ==
  /\ now \in Time /\ aggregatedAt \in Time /\ lastPriceSync \in Time /\ synced \in BOOLEAN
  /\ handlers \in [Request -> Handler]
  /\ daemon \in {"starting", "idle", "calling", "leaving", "exited"}
  /\ calling \in Request /\ callStart \in Time /\ isRunning \in BOOLEAN
  /\ response \in [made : Time, timestamp : Time] \cup {NoResponse}
  /\ stoppers \in [Stopper -> {"none", "sending", "closing", "returned"}]
  /\ doneClosed \in BOOLEAN /\ cancelled \in BOOLEAN

(* Faulty variant: the age of the response is not looked at.               *)
ServableAlways == response # NoResponse

(* PriceDaemon.Prices returns the response.                                *)
Servable == response # NoResponse /\ now - response.timestamp <= PriceTTL

(* What the daemon hands to ExtendVote was aggregated at most PriceTTL,    *)
(* ClientTimeout and one interval of the side-car ago, whatever calls      *)
(* failed or were answered late (fetchPrices, Prices, OracleServer.Prices).*)
ServedInTime ==
  Servable => now - response.made <= PriceTTL + ClientTimeout + UpdateInterval

(* The daemon's response is never replaced by an older one: the answer to  *)
(* a call that timed out is not taken for the answer to a later one.       *)
ResponsesMoveForward ==
  [][response # NoResponse => response'.made >= response.made]_vars

(* A call of Stop returns, also in the middle of a request. If the context *)
(* ends the loop between its look at isRunning and its send it does not.   *)
DaemonStopReturns ==
  \A s \in Stopper : stoppers[s] # "none" ~> (stoppers[s] = "returned" \/ cancelled)
=============================================================================
