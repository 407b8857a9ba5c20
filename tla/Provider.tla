------------------------------ MODULE Provider ------------------------------
(***************************************************************************)
(* The lifecycle of a base provider in the oracle sidecar: Start's main    *)
(* loop with its fetch and receive goroutines, Update and Stop, called by  *)
(* the oracle whenever the market map changes.                             *)
(*                                                                         *)
(* A provider has one set of fields, whatever number of calls of Start is  *)
(* in flight: a call is a run, and each turn of its loop is a round with a *)
(* fetch context and a response channel of its own, both named by          *)
(* <<run, round>>. Responses are not told apart: a channel is how many it  *)
(* holds. Every step is one access to a shared field, context or channel.  *)
(***************************************************************************)
EXTENDS Integers, FiniteSets

CONSTANTS
  IDs,         \* the tickers the provider may be given
  Kinds,       \* the types of provider: "API" or "WebSockets"
  BufferSize,  \* WebSocketConfig.MaxBufferSize
  MaxSubs,     \* MaxSubscriptionsPerConnection, 0 for no limit
  MaxUpdates,  \* bound: market map updates, hence runs
  MaxRounds    \* bound: rounds of a run

ASSUME ProviderConstants ==
  /\ IsFiniteSet(IDs) /\ Kinds \subseteq {"API", "WebSockets"}
  /\ BufferSize \in Nat \ {0} /\ MaxSubs \in Nat
  /\ MaxUpdates \in Nat /\ MaxRounds \in Nat

VARIABLES
  kind,        \* p.Type(), which never changes
  ids,         \* p.ids
  mainCtx,     \* p.mainCtx: the run that set it last, 0 for nil
  fetchCtx,    \* p.fetchCtx: the round that set it last, or Nil
  responseCh,  \* p.responseCh: the round that made it last, or Nil
  cancelled,   \* the contexts that are cancelled
  run,         \* run -> where Start's loop is, and its round
  fetcher,     \* run -> where the round's fetch goroutine is, and its ids
  worker,      \* run -> connection -> where it is, and the channel it was given
  receiver,    \* run -> the channel recv waits on, or Nil when it has returned
  channel,     \* round -> its channel: responses held, capacity, closed or not
  oracle,      \* where UpdateProviderState is
  updates      \* updates so far

providerVars == <<kind, ids, mainCtx, fetchCtx, responseCh>>
runVars == <<run, fetcher, worker, receiver>>
vars == <<providerVars, runVars, cancelled, channel, oracle, updates>>

Runs == 1..MaxUpdates
Rounds == Runs \X (1..MaxRounds)
Nil == <<>>

(* The contexts: the oracle's, a child of it for every run, and a child of *)
(* that for every round.                                                   *)
OracleCtx == <<0, 0>>
MainCtx(r) == <<r, 0>>

(* startMultiplexWebsocket: one connection for every MaxSubs ids. An API   *)
(* provider has a single query loop.                                       *)
Chunks(n) == IF MaxSubs = 0 THEN 1 ELSE (n + MaxSubs - 1) \div MaxSubs
NumConns(n) == IF kind = "API" THEN 1 ELSE Chunks(n)
Conns == 1..Chunks(Cardinality(IDs))

MainDone(r) == OracleCtx \in cancelled \/ MainCtx(r) \in cancelled
RoundOf(r) == <<r, run[r].round>>
FetchDone(r) == MainDone(r) \/ RoundOf(r) \in cancelled

(* Faulty variant: a provider that was started once is running.            *)
IsRunningOnce == mainCtx # 0

IsRunning == mainCtx # 0 /\ ~MainDone(mainCtx)

-----------------------------------------------------------------------------
(* Start's main loop.                                                      *)
SetRun(r, pc, round) == run' = [run EXCEPT ![r] = [pc |-> pc, round |-> round]]
Goto(r, pc) == SetRun(r, pc, run[r].round)
SetFetcher(r, pc, with) == fetcher' = [fetcher EXCEPT ![r] = [pc |-> pc, ids |-> with]]
SetChannel(ch, held, cap, closed) ==
  channel' = [channel EXCEPT ![ch] = [held |-> held, cap |-> cap, closed |-> closed]]

Capacity == IF kind = "API" THEN Cardinality(ids) ELSE BufferSize

(* setMainCtx of a call that execProviderFn made in a new goroutine.       *)
Start(r) ==
  /\ run[r].pc = "spawned"
  /\ mainCtx' = r
  /\ Goto(r, "loop")
  /\ UNCHANGED <<kind, ids, fetchCtx, responseCh, fetcher, worker, receiver,
                 cancelled, channel, oracle, updates>>

(* No ids: Start returns, and its deferred mainCancel runs.                *)
CheckIDs(r) ==
  /\ run[r].pc = "loop"
  /\ IF ids = {}
     THEN Goto(r, "exited") /\ cancelled' = cancelled \cup {MainCtx(r)}
     ELSE Goto(r, "make") /\ UNCHANGED cancelled
  /\ UNCHANGED <<providerVars, fetcher, worker, receiver, channel, oracle, updates>>

(* Faulty variant: the channel of the first round is kept.                 *)
CreateResponseChOnce(r) ==
  LET ch == IF responseCh = Nil THEN <<r, run[r].round + 1>> ELSE responseCh
  IN  /\ run[r].pc = "make" /\ run[r].round < MaxRounds
      /\ responseCh' = ch
      /\ SetChannel(ch, channel[ch].held, Capacity, channel[ch].closed)
      /\ Goto(r, "ctx")
      /\ UNCHANGED <<kind, ids, mainCtx, fetchCtx, fetcher, worker, receiver,
                     cancelled, oracle, updates>>

CreateResponseCh(r) ==
  LET ch == <<r, run[r].round + 1>>
  IN  /\ run[r].pc = "make" /\ run[r].round < MaxRounds
      /\ responseCh' = ch
      /\ SetChannel(ch, channel[ch].held, Capacity, channel[ch].closed)
      /\ Goto(r, "ctx")
      /\ UNCHANGED <<kind, ids, mainCtx, fetchCtx, fetcher, worker, receiver,
                     cancelled, oracle, updates>>

(* setFetchCtx, a child of the context this run was started with, and the  *)
(* two goroutines.                                                         *)
StartRound(r) ==
  /\ run[r].pc = "ctx"
  /\ SetRun(r, "wait", run[r].round + 1)
  /\ fetchCtx' = <<r, run[r].round + 1>>
  /\ SetFetcher(r, "start", fetcher[r].ids)
  /\ receiver' = [receiver EXCEPT ![r] = responseCh]
  /\ UNCHANGED <<kind, ids, mainCtx, responseCh, worker, cancelled, channel, oracle, updates>>

(* Faulty variant: only the oracle's context ends the loop.                *)
MainLoopEndsWithOracle(r) == OracleCtx \in cancelled

(* The loop ends when the provider's main context is done: the field, set  *)
(* by whichever call of Start came last.                                   *)
MainLoopEnds(r) == MainDone(mainCtx)

(* wg.Wait, once both goroutines of the round have returned.               *)
EndRound(r) ==
  /\ run[r].pc = "wait" /\ fetcher[r].pc = "off" /\ receiver[r] = Nil
  /\ IF MainLoopEnds(r)
     THEN Goto(r, "exited") /\ cancelled' = cancelled \cup {MainCtx(r)}
     ELSE Goto(r, "loop") /\ UNCHANGED cancelled
  /\ UNCHANGED <<providerVars, fetcher, worker, receiver, channel, oracle, updates>>

-----------------------------------------------------------------------------
(* The fetch goroutine. It reads the ids once, for all its connections.    *)
FetchIDs(r) ==
  /\ fetcher[r].pc = "start"
  /\ SetFetcher(r, "work", ids)
  /\ worker' = [worker EXCEPT ![r] =
       [c \in Conns |-> [pc |-> IF c <= NumConns(Cardinality(ids)) THEN "top" ELSE "done",
                         ch |-> Nil]]]
  /\ UNCHANGED <<providerVars, run, receiver, cancelled, channel, oracle, updates>>

SetWorker(r, c, pc, ch) ==
  worker' = [worker EXCEPT ![r] = [worker[r] EXCEPT ![c] = [pc |-> pc, ch |-> ch]]]
WorkerGoto(r, c, pc) == SetWorker(r, c, pc, worker[r][c].ch)
WorkerStep == UNCHANGED <<providerVars, run, fetcher, receiver, cancelled, oracle, updates>>

(* The top of the loop of startAPI or startWebSocket: the handler is       *)
(* called with the channel that is in the field at that moment.            *)
CallHandler(r, c) ==
  /\ worker[r][c].pc = "top" /\ ~FetchDone(r)
  /\ SetWorker(r, c, IF kind = "API" THEN "query" ELSE "dial", responseCh)
  /\ WorkerStep /\ UNCHANGED channel

(* Both handlers return when the context is done, and the loop then ends.  *)
StopWorker(r, c) ==
  /\ worker[r][c].pc \in {"top", "query"} /\ FetchDone(r)
  /\ WorkerGoto(r, c, "done")
  /\ WorkerStep /\ UNCHANGED channel

HasRoom(ch) == channel[ch].held < channel[ch].cap /\ ~channel[ch].closed
Held(ch, held) == SetChannel(ch, held, channel[ch].cap, channel[ch].closed)

(* A response is sent, unless the context is done first.                   *)
SendResponse(r, c) ==
  /\ worker[r][c].pc = "query" /\ HasRoom(worker[r][c].ch)
  /\ Held(worker[r][c].ch, channel[worker[r][c].ch].held + 1)
  /\ WorkerStep /\ UNCHANGED worker

(* A web socket handler returns: the connection failed, or the send        *)
(* panicked on a closed channel and the handler recovered.                 *)
HandlerReturns(r, c) ==
  /\ kind = "WebSockets"
  /\ worker[r][c].pc = "query"
  /\ WorkerGoto(r, c, "top")
  /\ WorkerStep /\ UNCHANGED channel

(* A web socket handler dials and subscribes. If that fails it sends the   *)
(* error, and does not look at the context while it waits for room.        *)
Dial(r, c) ==
  /\ worker[r][c].pc = "dial"
  /\ WorkerGoto(r, c, "query") \/ WorkerGoto(r, c, "error")
  /\ WorkerStep /\ UNCHANGED channel

SendError(r, c) ==
  LET ch == worker[r][c].ch
  IN  /\ worker[r][c].pc = "error"
      /\ \/ HasRoom(ch) /\ Held(ch, channel[ch].held + 1)
         \/ channel[ch].closed /\ UNCHANGED channel
      /\ WorkerGoto(r, c, "top")
      /\ WorkerStep

(* fetch has returned: fetchCancel.                                        *)
CancelOwnFetch(r) ==
  /\ fetcher[r].pc = "work" /\ \A c \in Conns : worker[r][c].pc = "done"
  /\ cancelled' = cancelled \cup {RoundOf(r)}
  /\ SetFetcher(r, "close", fetcher[r].ids)
  /\ UNCHANGED <<providerVars, run, worker, receiver, channel, oracle, updates>>

(* close(p.responseCh), whichever channel is in the field by now. Closing  *)
(* one twice panics, in a goroutine that nothing recovers: no such step.   *)
CloseResponseCh(r) ==
  /\ fetcher[r].pc = "close" /\ ~channel[responseCh].closed
  /\ SetChannel(responseCh, channel[responseCh].held, channel[responseCh].cap, TRUE)
  /\ SetFetcher(r, "off", fetcher[r].ids)
  /\ UNCHANGED <<providerVars, run, worker, receiver, cancelled, oracle, updates>>

-----------------------------------------------------------------------------
(* The receive goroutine: a response, or the zero value of a closed        *)
(* channel; the next turn waits on the channel that is then in the field.  *)
Recv(r) ==
  LET ch == receiver[r]
  IN  /\ ch # Nil
      /\ \/ channel[ch].held > 0 /\ Held(ch, channel[ch].held - 1)
         \/ channel[ch].held = 0 /\ channel[ch].closed /\ UNCHANGED channel
      /\ receiver' = [receiver EXCEPT ![r] = responseCh]
      /\ UNCHANGED <<providerVars, run, fetcher, worker, cancelled, oracle, updates>>

(* Faulty variant: recv does not look at the context.                      *)
StopRecvNever(r) == receiver[r] = Nil /\ FALSE /\ UNCHANGED vars

StopRecv(r) ==
  /\ receiver[r] # Nil /\ FetchDone(r)
  /\ receiver' = [receiver EXCEPT ![r] = Nil]
  /\ UNCHANGED <<providerVars, run, fetcher, worker, cancelled, channel, oracle, updates>>

-----------------------------------------------------------------------------
(* UpdateProviderState, which the oracle calls with its lock held.         *)
OracleStep == UNCHANGED <<kind, mainCtx, fetchCtx, responseCh, fetcher, worker, receiver, channel>>

(* Update sets the new ids first ...                                       *)
SetIDs(new) ==
  /\ oracle = "idle" /\ updates < MaxUpdates
  /\ ids' = new
  /\ updates' = updates + 1
  /\ oracle' = "cancel"
  /\ OracleStep /\ UNCHANGED <<run, cancelled>>

(* Faulty variant: the fetch goes on.                                      *)
CancelFetchNever ==
  /\ oracle = "cancel"
  /\ oracle' = "decide"
  /\ OracleStep /\ UNCHANGED <<ids, run, updates, cancelled>>

(* ... and then cancels the fetch context that is in the field.            *)
CancelFetch ==
  /\ oracle = "cancel"
  /\ cancelled' = cancelled \cup ({fetchCtx} \ {Nil})
  /\ oracle' = "decide"
  /\ OracleStep /\ UNCHANGED <<ids, run, updates>>

(* A provider without tickers is stopped; one with tickers that is not     *)
(* running is started in a new goroutine.                                  *)
StopOrStart ==
  /\ oracle = "decide"
  /\ oracle' = "idle"
  /\ cancelled' = cancelled \cup (IF ids = {} /\ mainCtx # 0 THEN {MainCtx(mainCtx)} ELSE {})
  /\ IF ids # {} /\ ~IsRunning THEN Goto(updates, "spawned") ELSE UNCHANGED run
  /\ OracleStep /\ UNCHANGED <<ids, updates>>

(* The oracle's own context is cancelled: Oracle.Stop, or its caller.      *)
OracleStop ==
  /\ OracleCtx \notin cancelled
  /\ cancelled' = cancelled \cup {OracleCtx}
  /\ UNCHANGED <<providerVars, runVars, channel, oracle, updates>>

(* The oracle has stopped and its wg.Wait has returned.                    *)
AllExited == \A r \in Runs : run[r].pc \in {"none", "exited"}
Stopped ==
  /\ OracleCtx \in cancelled /\ oracle = "idle" /\ AllExited
  /\ UNCHANGED vars

-----------------------------------------------------------------------------
Init ==
  /\ kind \in Kinds /\ ids \in SUBSET IDs
  /\ mainCtx = 0 /\ fetchCtx = Nil /\ responseCh = Nil
  /\ cancelled = {}
  /\ run = [r \in Runs |-> [pc |-> "none", round |-> 0]]
  /\ fetcher = [r \in Runs |-> [pc |-> "off", ids |-> {}]]
  /\ worker = [r \in Runs |-> [c \in Conns |-> [pc |-> "done", ch |-> Nil]]]
  /\ receiver = [r \in Runs |-> Nil]
  /\ channel = [ch \in Rounds |-> [held |-> 0, cap |-> 0, closed |-> FALSE]]
  /\ oracle = "idle" /\ updates = 0

WorkerNext(r, c) ==
  \/ CallHandler(r, c) \/ StopWorker(r, c) \/ SendResponse(r, c)
  \/ HandlerReturns(r, c) \/ Dial(r, c) \/ SendError(r, c)

RunNext(r) ==
  \/ Start(r) \/ CheckIDs(r) \/ CreateResponseCh(r) \/ StartRound(r) \/ EndRound(r)
  \/ FetchIDs(r) \/ CancelOwnFetch(r) \/ CloseResponseCh(r)
  \/ \E c \in Conns : WorkerNext(r, c)
  \/ Recv(r) \/ StopRecv(r)

OracleNext == (\E new \in SUBSET IDs : SetIDs(new)) \/ CancelFetch \/ StopOrStart \/ OracleStop

Next == (\E r \in Runs : RunNext(r)) \/ OracleNext \/ Stopped

(* Go runs every goroutine that can run; nothing is assumed of the         *)
(* exchange, of the market map or of when the oracle is stopped.           *)
Fairness ==
  /\ \A r \in Runs :
       /\ WF_vars(Start(r)) /\ WF_vars(CheckIDs(r)) /\ WF_vars(CreateResponseCh(r))
       /\ WF_vars(StartRound(r)) /\ WF_vars(EndRound(r))
       /\ WF_vars(FetchIDs(r)) /\ WF_vars(CancelOwnFetch(r)) /\ WF_vars(CloseResponseCh(r))
       /\ WF_vars(StopRecv(r)) /\ WF_vars(Recv(r))
       /\ \A c \in Conns : /\ WF_vars(CallHandler(r, c)) /\ WF_vars(StopWorker(r, c))
                           /\ WF_vars(Dial(r, c)) /\ WF_vars(SendError(r, c))
  /\ WF_vars(CancelFetch) /\ WF_vars(StopOrStart)

Spec == Init /\ [][Next]_vars /\ Fairness

(* The oracle leaves the provider time: an update comes, and the oracle is *)
(* stopped, only when a new run has set its context and a stopped one has  *)
(* returned.                                                               *)
Settled ==
  /\ oracle = "idle"
  /\ \A r \in Runs : run[r].pc # "spawned" /\ (MainDone(r) => run[r].pc \in {"none", "exited"})
SettledNext ==
  \/ \E r \in Runs : RunNext(r)
  \/ CancelFetch \/ StopOrStart \/ Stopped
  \/ Settled /\ OracleStop
  \/ \E new \in SUBSET IDs : Settled /\ OracleCtx \notin cancelled /\ SetIDs(new)
SettledSpec == Init /\ [][SettledNext]_vars /\ Fairness

-----------------------------------------------------------------------------
(* Type invariant.                                                         *)
ProviderTypeOK ==
  /\ kind \in Kinds /\ ids \in SUBSET IDs
  /\ mainCtx \in {0} \cup Runs
  /\ fetchCtx \in Rounds \cup {Nil} /\ responseCh \in Rounds \cup {Nil}
  /\ cancelled \subseteq {OracleCtx} \cup {MainCtx(r) : r \in Runs} \cup Rounds
  /\ run \in [Runs -> [pc : {"none", "spawned", "loop", "make", "ctx", "wait", "exited"},
                       round : 0..MaxRounds]]
  /\ fetcher \in [Runs -> [pc : {"off", "start", "work", "close"}, ids : SUBSET IDs]]
  /\ worker \in [Runs -> [Conns -> [pc : {"top", "dial", "query", "error", "done"},
                                    ch : Rounds \cup {Nil}]]]
  /\ receiver \in [Runs -> Rounds \cup {Nil}]
  /\ \A ch \in Rounds : channel[ch].held \in 0..channel[ch].cap
  /\ oracle \in {"idle", "cancel", "decide"} /\ updates \in 0..MaxUpdates

(* "execProviderFn starts a provider and recovers from any panics that     *)
(* occur" (lifecycle.go): no goroutine of a provider takes the process     *)
(* down by closing a response channel twice.                               *)
NoPanic == \A r \in Runs : fetcher[r].pc = "close" => ~channel[responseCh].closed

(* "If the provider was stopped due to a context cancellation, then we     *)
(* should not restart the provider" (provider.go): a run whose context is  *)
(* done begins no further round. Checked for a provider that settles       *)
(* before it is started again; where calls of Start overlap, a stopped run *)
(* may find the later call's context in the field and go on.               *)
StoppedRunExits ==
  [][\A r \in Runs :
       (run[r].pc = "wait" /\ run'[r].pc = "loop") => ~MainDone(r)]_vars

(* Once Update has returned, every fetch goroutine that works with other   *)
(* ids than the provider's has been cancelled: whether it read the ids     *)
(* before, between or after the two steps of Update.                       *)
StaleFetchIsCancelled ==
  oracle # "cancel" =>
    \A r \in Runs : (fetcher[r].pc = "work" /\ fetcher[r].ids # ids) => FetchDone(r)

(* What a connection sends is received: as long as the round lasts, the    *)
(* receive goroutine of its own run waits on the channel it sends to.      *)
ResponsesAreReceived ==
  \A r \in Runs, c \in Conns :
    (worker[r][c].pc \in {"dial", "query", "error"} /\ ~FetchDone(r))
      => /\ receiver[r] = worker[r][c].ch
         /\ ~channel[worker[r][c].ch].closed

(* The handler of a failed connection waits to report it to a channel that *)
(* is full and that nobody reads any more.                                 *)
ReportStuck ==
  \E r \in Runs, c \in Conns :
    /\ worker[r][c].pc = "error" /\ receiver[r] = Nil
    /\ ~HasRoom(worker[r][c].ch) /\ ~channel[worker[r][c].ch].closed

(* "Stop stops the oracle. This is a synchronous operation that will wait  *)
(* for all providers to exit" (lifecycle.go): they do exit, with the one   *)
(* exception of a web socket provider with a stuck report.                 *)
StopReturns ==
  (OracleCtx \in cancelled) ~> (oracle = "idle" /\ (AllExited \/ ReportStuck))

(* New ids are fetched, unless they are replaced or the oracle stops; a    *)
(* stuck report also keeps them from being fetched.                        *)
NewIDsAreFetched ==
  \A new \in (SUBSET IDs) \ {{}} :
    (updates > 0 /\ ids = new)
      ~> \/ ids # new \/ OracleCtx \in cancelled \/ ReportStuck
         \/ \E r \in Runs : fetcher[r].pc = "work" /\ fetcher[r].ids = new /\ ~FetchDone(r)
=============================================================================
