------------------------- MODULE PriceServiceProofs -------------------------
(***************************************************************************)
(* Proofs about the way of a price from the side-car to the application,   *)
(* for every interval, deadline and time to live and any number of         *)
(* requests under way.                                                     *)
(***************************************************************************)
EXTENDS PriceService, TLAPS

(* The clock: the aggregator's prices are at most an interval old, a call  *)
(* at most its deadline.                                                   *)
OnTime ==
  /\ aggregatedAt <= now /\ now - aggregatedAt <= UpdateInterval
  /\ callStart <= now
  /\ daemon = "calling" => now - callStart <= ClientTimeout

(* The prices a handler has read for the current call: made an interval    *)
(* before the call at the earliest, and not before the daemon's response.  *)
CallInFlight ==
  daemon = "calling" /\ handlers[calling].state \in {"prices", "sending"} =>
    /\ handlers[calling].made <= aggregatedAt
    /\ callStart - handlers[calling].made <= UpdateInterval
    /\ response # NoResponse => handlers[calling].made >= response.made

(* The response: the age it had when it arrived.                           *)
ResponseAge ==
  response # NoResponse =>
    /\ response.timestamp <= now /\ response.made <= aggregatedAt
    /\ response.timestamp - response.made <= ClientTimeout + UpdateInterval

(* The inductive invariant.                                                *)
ServiceInv == ServiceTypeOK /\ OnTime /\ CallInFlight /\ ResponseAge

(* The initial states.                                                     *)
LEMMA ServiceInit == ASSUME Init PROVE ServiceInv
<1>1. 0 \in Time
  BY PriceServiceConstants DEF Time
<1>2. handlers \in [Request -> Handler]
  BY <1>1 DEF Init, Free, Handler
<1>3. ServiceTypeOK
  BY <1>1, <1>2 DEF Init, ServiceTypeOK
<1>4. OnTime
  BY PriceServiceConstants DEF Init, OnTime
<1>5. CallInFlight /\ ResponseAge
  BY DEF Init, CallInFlight, ResponseAge
<1> QED
  BY <1>3, <1>4, <1>5 DEF ServiceInv

(* What the types say of the numbers that are compared.                    *)
LEMMA ServiceIntegers ==
  ASSUME ServiceTypeOK
  PROVE  /\ now \in Int /\ aggregatedAt \in Int /\ callStart \in Int
         /\ UpdateInterval \in Nat /\ ClientTimeout \in Nat /\ PriceTTL \in Nat
         /\ handlers[calling].made \in Int
         /\ response # NoResponse => response.made \in Int /\ response.timestamp \in Int
BY PriceServiceConstants DEF ServiceTypeOK, Handler, Time

(* The ticks of the side-car and the clock.                                *)
LEMMA OracleSteps ==
  ASSUME ServiceInv, Aggregate \/ SetLastSyncTime \/ PassTime
  PROVE  ServiceInv'
<1> USE DEF ServiceInv
<1>0. /\ handlers' = handlers /\ daemonVars' = daemonVars /\ stopVars' = stopVars
  BY DEF Aggregate, SetLastSyncTime, PassTime
<1>1. CASE Aggregate
  <2>1. aggregatedAt' = now /\ now' = now /\ aggregatedAt < now
    BY <1>1 DEF Aggregate
  <2>2. ServiceTypeOK'
    BY <1>0, <1>1 DEF Aggregate, ServiceTypeOK, daemonVars, stopVars
  <2>3. OnTime'
    BY <1>0, <2>1, ServiceIntegers DEF OnTime, daemonVars
  <2>4. CallInFlight'
    BY <1>0, <2>1, ServiceIntegers DEF CallInFlight, daemonVars
  <2>5. ResponseAge'
    BY <1>0, <2>1, ServiceIntegers DEF ResponseAge, daemonVars
  <2> QED
    BY <2>2, <2>3, <2>4, <2>5
<1>2. CASE SetLastSyncTime
  <2>1. ServiceTypeOK'
    BY <1>0, <1>2 DEF SetLastSyncTime, ServiceTypeOK, daemonVars, stopVars
  <2>2. OnTime' /\ CallInFlight' /\ ResponseAge'
    BY <1>0, <1>2 DEF SetLastSyncTime, OnTime, CallInFlight, ResponseAge, daemonVars
  <2> QED
    BY <2>1, <2>2
<1>3. CASE PassTime
  <2>1. now' = now + 1 /\ aggregatedAt' = aggregatedAt
    BY <1>3 DEF PassTime, oracleVars
  <2>2. now' \in Time
    BY <1>3, PriceServiceConstants DEF PassTime, ServiceTypeOK, Time
  <2>3. ServiceTypeOK'
    BY <1>0, <1>3, <2>2 DEF PassTime, ServiceTypeOK, oracleVars, daemonVars, stopVars
  <2>4. OnTime'
    BY <1>0, <1>3, <2>1, ServiceIntegers DEF PassTime, OnTime, daemonVars
  <2>5. CallInFlight'
    BY <1>0, <2>1 DEF CallInFlight, daemonVars
  <2>6. ResponseAge'
    BY <1>0, <2>1, ServiceIntegers DEF ResponseAge, daemonVars
  <2> QED
    BY <2>3, <2>4, <2>5, <2>6
<1> QED
  BY <1>1, <1>2, <1>3

(* The two reads of a handler.                                             *)
LEMMA HandlerSteps ==
  ASSUME ServiceInv, NEW r \in Request, GetPrices(r) \/ GetLastSyncTime(r)
  PROVE  ServiceInv'
<1> USE DEF ServiceInv
<1>0. UNCHANGED <<now, oracleVars, daemonVars, stopVars>>
  BY DEF GetPrices, GetLastSyncTime
<1>1. handlers' \in [Request -> Handler]
  BY DEF GetPrices, GetLastSyncTime, ServiceTypeOK, Handler
<1>2. ServiceTypeOK'
  BY <1>0, <1>1 DEF ServiceTypeOK, daemonVars, stopVars, oracleVars
<1>3. OnTime' /\ ResponseAge'
  BY <1>0 DEF OnTime, ResponseAge, daemonVars, oracleVars
<1>4. CASE GetPrices(r)
  <2>1. CASE r = calling
    <3>1. handlers'[calling].made = aggregatedAt
      BY <1>4, <2>1 DEF GetPrices, ServiceTypeOK, Handler
    <3>2. callStart - aggregatedAt <= UpdateInterval
      BY ServiceIntegers DEF OnTime
    <3>3. CallInFlight'
      BY <1>0, <3>1, <3>2, ServiceIntegers DEF CallInFlight, ResponseAge, daemonVars, oracleVars
    <3> QED
      BY <1>2, <1>3, <3>3
  <2>2. CASE r # calling
    <3>1. handlers'[calling] = handlers[calling]
      BY <1>4, <2>2 DEF GetPrices, ServiceTypeOK
    <3>2. CallInFlight'
      BY <1>0, <3>1 DEF CallInFlight, daemonVars, oracleVars
    <3> QED
      BY <1>2, <1>3, <3>2
  <2> QED
    BY <2>1, <2>2
<1>5. CASE GetLastSyncTime(r)
  <2>1. /\ handlers'[calling].made = handlers[calling].made
        /\ handlers'[calling].state \in {"prices", "sending"} => handlers[calling].state \in {"prices", "sending"}
    BY <1>5 DEF GetLastSyncTime, ServiceTypeOK, Handler
  <2>2. CallInFlight'
    BY <1>0, <2>1 DEF CallInFlight, daemonVars, oracleVars
  <2> QED
    BY <1>2, <1>3, <2>2
<1> QED
  BY <1>4, <1>5

(* The calls of the daemon.                                                *)
LEMMA CallSteps ==
  ASSUME ServiceInv, NEW r \in Request, Call(r) \/ CallReturns(r) \/ Refuse(r)
  PROVE  ServiceInv'
<1> USE DEF ServiceInv
<1>0. Free \in Handler
  BY PriceServiceConstants DEF Free, Handler, Time
<1>1. CASE Call(r)
  <2>1. handlers' \in [Request -> Handler] /\ handlers'[r].state = "begun"
    BY <1>1 DEF Call, ServiceTypeOK, Handler
  <2>2. ServiceTypeOK'
    BY <1>1, <2>1 DEF Call, ServiceTypeOK, stopVars, oracleVars
  <2>3. OnTime'
    BY <1>1, ServiceIntegers DEF Call, OnTime, oracleVars
  <2>4. ResponseAge'
    BY <1>1 DEF Call, ResponseAge, oracleVars
  <2>5. CallInFlight'
    BY <1>1, <2>1 DEF Call, CallInFlight
  <2> QED
    BY <2>2, <2>3, <2>4, <2>5
<1>2. CASE CallReturns(r)
  <2>1. r = calling /\ handlers[r].state = "sending" /\ daemon = "calling"
    BY <1>2 DEF CallReturns, Answers
  <2>2. response' = [made |-> handlers[r].made, timestamp |-> now]
    BY <1>2 DEF CallReturns, Update
  <2>3. ServiceTypeOK'
    BY <1>0, <1>2, <2>2 DEF CallReturns, ServiceTypeOK, Handler, stopVars, oracleVars
  <2>4. OnTime' /\ CallInFlight'
    BY <1>2 DEF CallReturns, OnTime, CallInFlight, oracleVars
  <2>5. now - handlers[r].made <= ClientTimeout + UpdateInterval
    BY <2>1, ServiceIntegers DEF OnTime, CallInFlight
  <2>6. handlers[r].made <= aggregatedAt
    BY <2>1 DEF CallInFlight
  <2>7. ResponseAge'
    BY <1>2, <2>2, <2>5, <2>6, ServiceIntegers DEF CallReturns, ResponseAge, oracleVars
  <2> QED
    BY <2>3, <2>4, <2>7
<1>3. CASE Refuse(r)
  <2>1. ServiceTypeOK'
    BY <1>0, <1>3 DEF Refuse, ServiceTypeOK, stopVars, oracleVars
  <2>2. OnTime' /\ CallInFlight' /\ ResponseAge'
    BY <1>3 DEF Refuse, OnTime, CallInFlight, ResponseAge, oracleVars
  <2> QED
    BY <2>1, <2>2
<1> QED
  BY <1>1, <1>2, <1>3

(* The steps that leave handlers, response and the clock alone.            *)
LEMMA DaemonSteps ==
  ASSUME ServiceInv,
         \/ StartDaemon \/ StartFails \/ CallFails \/ LeaveLoop \/ ExitDaemon \/ Cancel
         \/ \E s \in Stopper : CallStop(s) \/ SendDone(s) \/ CloseDone(s)
         \/ UNCHANGED vars
  PROVE  ServiceInv'
<1> USE DEF ServiceInv
<1>1. UNCHANGED <<now, oracleVars, handlers, calling, callStart, response>>
  BY DEF StartDaemon, StartFails, CallFails, LeaveLoop, ExitDaemon, Cancel, CallStop, SendDone, CloseDone, vars, daemonVars
<1>2. daemon' = "calling" => daemon = "calling"
  BY DEF StartDaemon, StartFails, CallFails, LeaveLoop, ExitDaemon, Cancel, CallStop, SendDone, CloseDone, vars, daemonVars
<1>3. ServiceTypeOK'
  <2>1. daemon' \in {"starting", "idle", "calling", "leaving", "exited"} /\ isRunning' \in BOOLEAN
    BY DEF ServiceTypeOK, StartDaemon, StartFails, CallFails, LeaveLoop, ExitDaemon, Cancel,
           CallStop, SendDone, CloseDone, vars, daemonVars
  <2>2. stoppers' \in [Stopper -> {"none", "sending", "closing", "returned"}]
    BY DEF ServiceTypeOK, StartDaemon, StartFails, CallFails, LeaveLoop, ExitDaemon, Cancel,
           CallStop, SendDone, CloseDone, vars, stopVars
  <2>3. doneClosed' \in BOOLEAN /\ cancelled' \in BOOLEAN
    BY DEF ServiceTypeOK, StartDaemon, StartFails, CallFails, LeaveLoop, ExitDaemon, Cancel,
           CallStop, SendDone, CloseDone, vars, stopVars
  <2> QED
    BY <1>1, <2>1, <2>2, <2>3 DEF ServiceTypeOK, oracleVars
<1>4. OnTime' /\ CallInFlight' /\ ResponseAge'
  BY <1>1, <1>2 DEF OnTime, CallInFlight, ResponseAge, oracleVars
<1> QED
  BY <1>3, <1>4

(* Every step.                                                             *)
LEMMA ServiceNext == ASSUME ServiceInv, [Next]_vars PROVE ServiceInv'
BY OracleSteps, HandlerSteps, CallSteps, DaemonSteps DEF Next

(* The inductive invariant holds in every state: with it the types, the    *)
(* age of what a call in flight carries and that of the response.          *)
THEOREM ServiceInvariant == Spec => []ServiceInv
<1>1. Init => ServiceInv
  BY ServiceInit
<1>2. ServiceInv /\ [Next]_vars => ServiceInv'
  BY ServiceNext
<1> QED
  BY <1>1, <1>2, PTL DEF Spec

(* Every variable of the service has its type.                               *)
THEOREM ServiceTypeCorrect == Spec => []ServiceTypeOK
BY ServiceInvariant, PTL DEF ServiceInv

(* PriceDaemon.Prices hands out no prices that were aggregated longer than *)
(* PriceTTL, ClientTimeout and an interval ago.                            *)
THEOREM ServedInTimeTheorem == Spec => []ServedInTime
<1>1. ServiceInv => ServedInTime
  BY ServiceIntegers DEF ServiceInv, ResponseAge, ServedInTime, Servable
<1> QED
  BY <1>1, ServiceInvariant, PTL

(* Update never replaces the response by one with older prices.            *)
THEOREM ResponsesMoveForwardTheorem == Spec => ResponsesMoveForward
<1>1. ASSUME ServiceInv, [Next]_vars PROVE [response # NoResponse => response'.made >= response.made]_vars
  <2> SUFFICES ASSUME response # NoResponse PROVE response'.made >= response.made
    OBVIOUS
  <2>1. response.made \in Int
    BY <1>1, ServiceIntegers DEF ServiceInv
  <2>2. CASE response' = response
    BY <2>1, <2>2
  <2>3. ASSUME NEW r \in Request, CallReturns(r) PROVE response'.made >= response.made
    BY <1>1, <2>3 DEF CallReturns, Answers, Update, ServiceInv, CallInFlight
  <2>4. (\E r \in Request : CallReturns(r)) \/ response' = response
    BY <1>1 DEF Next, vars, daemonVars, Aggregate, SetLastSyncTime, PassTime, GetPrices, GetLastSyncTime, Call, Refuse,
           StartDaemon, StartFails, CallFails, LeaveLoop, ExitDaemon, Cancel, CallStop, SendDone, CloseDone
  <2> QED
    BY <2>2, <2>3, <2>4
<1> QED
  BY <1>1, ServiceInvariant, PTL DEF Spec, ResponsesMoveForward
=============================================================================
