--------------------------- MODULE ProviderProofs ---------------------------
(***************************************************************************)
(* Proofs about the lifecycle of a provider that is left time to settle    *)
(* between updates: for every set of tickers, type, size of the channel,   *)
(* number of connections, updates and rounds.                              *)
(***************************************************************************)
EXTENDS Provider, FiniteSetTheorems, TLAPS

Gone == {"none", "exited"}
Active(r) == run[r].pc \in {"loop", "make", "ctx", "wait"}

(* ProviderTypeOK, with the domain of the channels.                        *)
TypesOK ==
  /\ ProviderTypeOK
  /\ channel \in [Rounds -> [held : Nat, cap : Nat, closed : BOOLEAN]]

(* The shared fields belong to one run: the last one that set mainCtx is   *)
(* the only one in its loop, and a new one is spawned when it is gone.     *)
OneRun ==
  \A r \in Runs :
    /\ Active(r) => r = mainCtx
    /\ run[r].pc = "spawned" => \A q \in Runs \ {r} : run[q].pc \in Gone

(* During an update no run is about to start or to stop.                   *)
SettledUpdate ==
  oracle # "idle" =>
    /\ OracleCtx \notin cancelled /\ updates # 0
    /\ \A r \in Runs : run[r].pc # "spawned" /\ (MainDone(r) => run[r].pc \in Gone)

(* The goroutines of a run work only while it waits for them, and the      *)
(* workers only while fetch does.                                          *)
Goroutines ==
  \A r \in Runs :
    /\ run[r].pc # "wait" => fetcher[r].pc = "off" /\ receiver[r] = Nil
    /\ fetcher[r].pc # "work" => \A c \in Conns : worker[r][c].pc = "done"

(* They share the channel and the context of the round that is under way.  *)
Sharing ==
  \A r \in Runs :
    /\ run[r].pc = "ctx" => responseCh = <<r, run[r].round + 1>> /\ run[r].round < MaxRounds
    /\ run[r].pc = "wait" =>
         /\ RoundOf(r) \in Rounds
         /\ responseCh = RoundOf(r) /\ fetchCtx = RoundOf(r)
         /\ receiver[r] = RoundOf(r) \/ (receiver[r] = Nil /\ FetchDone(r))
         /\ channel[RoundOf(r)].closed => fetcher[r].pc = "off"
    /\ \A c \in Conns :
         worker[r][c].pc \in {"dial", "query", "error"} => worker[r][c].ch = RoundOf(r)

(* A fetch of other ids is cancelled, or about to be.                      *)
StaleFetch ==
  \A r \in Runs :
    fetcher[r].pc = "work" => fetcher[r].ids = ids \/ FetchDone(r) \/ oracle = "cancel"

(* The channel of a round to come is empty and open.                       *)
Fresh ==
  \A r \in Runs, n \in 1 .. MaxRounds :
    n > run[r].round => channel[<<r, n>>].held = 0 /\ ~channel[<<r, n>>].closed

(* The inductive invariant.                                                *)
ProviderInv ==
  TypesOK /\ OneRun /\ SettledUpdate /\ Goroutines /\ Sharing /\ StaleFetch /\ Fresh

-----------------------------------------------------------------------------
(* What the updates of a record of a run, a fetch goroutine, a connection  *)
(* or a channel do, and that they keep its type.                           *)
LEMMA CapacityIsNat ==
  ASSUME ProviderTypeOK
  PROVE  Capacity \in Nat
<1>1. IsFiniteSet(ids)
  BY ProviderConstants, FS_Subset DEF ProviderTypeOK
<1>2. Cardinality(ids) \in Nat
  BY <1>1, FS_CardinalityType
<1> QED
  BY <1>2, ProviderConstants DEF Capacity

RunPC == {"none", "spawned", "loop", "make", "ctx", "wait", "exited"}
FetcherPC == {"off", "start", "work", "close"}
WorkerPC == {"top", "dial", "query", "error", "done"}

(* A run moves to another place of its loop, and no other does.            *)
LEMMA SetRunEffect ==
  ASSUME ProviderTypeOK, NEW r \in Runs, NEW pc \in RunPC, NEW n \in 0 .. MaxRounds,
         SetRun(r, pc, n)
  PROVE  /\ run' \in [Runs -> [pc : RunPC, round : 0 .. MaxRounds]]
         /\ run'[r].pc = pc /\ run'[r].round = n
         /\ \A q \in Runs \ {r} : run'[q] = run[q]
  BY DEF ProviderTypeOK, RunPC, SetRun

(* A fetch goroutine moves on, and no other does.                          *)
LEMMA SetFetcherEffect ==
  ASSUME ProviderTypeOK, NEW r \in Runs, NEW pc \in FetcherPC, NEW with \in SUBSET IDs,
         SetFetcher(r, pc, with)
  PROVE  /\ fetcher' \in [Runs -> [pc : FetcherPC, ids : SUBSET IDs]]
         /\ fetcher'[r].pc = pc /\ fetcher'[r].ids = with
         /\ \A q \in Runs \ {r} : fetcher'[q] = fetcher[q]
  BY DEF ProviderTypeOK, FetcherPC, SetFetcher

(* A connection or sub-task moves on, and no other does.                   *)
LEMMA SetWorkerEffect ==
  ASSUME ProviderTypeOK, NEW r \in Runs, NEW c \in Conns,
         NEW pc \in WorkerPC, NEW ch \in Rounds \cup {Nil}, SetWorker(r, c, pc, ch)
  PROVE  /\ worker' \in [Runs -> [Conns -> [pc : WorkerPC, ch : Rounds \cup {Nil}]]]
         /\ worker'[r][c].pc = pc /\ worker'[r][c].ch = ch
         /\ \A d \in Conns \ {c} : worker'[r][d] = worker[r][d]
         /\ \A q \in Runs \ {r} : worker'[q] = worker[q]
<1> DEFINE W == [worker[r] EXCEPT ![c] = [pc |-> pc, ch |-> ch]]
<1>1. worker[r] \in [Conns -> [pc : WorkerPC, ch : Rounds \cup {Nil}]]
  BY DEF ProviderTypeOK, WorkerPC
<1>2. /\ W \in [Conns -> [pc : WorkerPC, ch : Rounds \cup {Nil}]]
      /\ W[c].pc = pc /\ W[c].ch = ch
      /\ \A d \in Conns \ {c} : W[d] = worker[r][d]
  BY <1>1
<1>3. worker' = [worker EXCEPT ![r] = W]
  BY DEF SetWorker
<1> HIDE DEF W
<1> QED
  BY <1>2, <1>3 DEF ProviderTypeOK, WorkerPC

(* One channel is made, filled, emptied or closed.                         *)
LEMMA SetChannelEffect ==
  ASSUME TypesOK, NEW ch \in Rounds, NEW cap \in Nat, NEW held \in 0 .. cap,
         NEW closed \in BOOLEAN, SetChannel(ch, held, cap, closed)
  PROVE  /\ channel' \in [Rounds -> [held : Nat, cap : Nat, closed : BOOLEAN]]
         /\ \A x \in Rounds : channel'[x].held \in 0 .. channel'[x].cap
         /\ channel'[ch].held = held /\ channel'[ch].closed = closed
         /\ \A x \in Rounds \ {ch} : channel'[x] = channel[x]
<1>1. /\ channel' \in [Rounds -> [held : Nat, cap : Nat, closed : BOOLEAN]]
      /\ channel'[ch].held = held /\ channel'[ch].closed = closed /\ channel'[ch].cap = cap
      /\ \A x \in Rounds \ {ch} : channel'[x] = channel[x]
  BY DEF TypesOK, SetChannel
<1>2. \A x \in Rounds : channel[x].held \in 0 .. channel[x].cap
  BY DEF TypesOK, ProviderTypeOK
<1> QED
  BY <1>1, <1>2

-----------------------------------------------------------------------------
(* The steps of a run's loop.                                              *)
LEMMA StartStep ==
  ASSUME ProviderInv, NEW r \in Runs, Start(r)
  PROVE  ProviderInv'
<1> USE DEF ProviderInv
<1>1. /\ run' \in [Runs -> [pc : RunPC, round : 0 .. MaxRounds]]
      /\ run'[r].pc = "loop" /\ run'[r].round = run[r].round
      /\ \A q \in Runs \ {r} : run'[q] = run[q]
  BY SetRunEffect DEF Start, Goto, TypesOK, ProviderTypeOK, RunPC
<1>2. TypesOK'
  BY <1>1 DEF Start, TypesOK, ProviderTypeOK, RunPC
<1>3. \A q \in Runs \ {r} : run[q].pc \in Gone
  BY DEF Start, OneRun
<1>4. OneRun'
  BY <1>1, <1>3 DEF Start, OneRun, Active, Gone
<1>5. oracle = "idle"
  BY DEF Start, SettledUpdate
<1>6. SettledUpdate'
  BY <1>5 DEF Start, SettledUpdate
<1>7. Goroutines'
  BY <1>1 DEF Start, Goroutines
<1>8. Sharing'
  BY <1>1, <1>3 DEF Start, Sharing, RoundOf, Gone
<1>9. StaleFetch'
  BY <1>1 DEF Start, StaleFetch, FetchDone, MainDone, RoundOf
<1>10. Fresh'
  BY <1>1 DEF Start, Fresh
<1> QED
  BY <1>2, <1>4, <1>6, <1>7, <1>8, <1>9, <1>10

(* A turn of the loop that makes nothing, and a run that leaves the loop.  *)
LEMMA LoopStep ==
  ASSUME ProviderInv, NEW r \in Runs, NEW pc \in {"exited", "make", "loop"},
         Active(r), fetcher[r].pc = "off", receiver[r] = Nil,
         run' \in [Runs -> [pc : RunPC, round : 0 .. MaxRounds]],
         run'[r].pc = pc, run'[r].round = run[r].round,
         \A q \in Runs \ {r} : run'[q] = run[q],
         cancelled' = cancelled \cup (IF pc = "exited" THEN {MainCtx(r)} ELSE {}),
         UNCHANGED <<kind, ids, mainCtx, fetchCtx, responseCh>>,
         UNCHANGED <<fetcher, worker, receiver, channel, oracle, updates>>
  PROVE  ProviderInv'
<1> USE DEF ProviderInv
<1>1. TypesOK'
  BY DEF TypesOK, ProviderTypeOK, RunPC
<1>2. OneRun'
  BY DEF OneRun, Active, Gone
<1>3. SettledUpdate'
  <2>1. MainCtx(r) # OracleCtx /\ \A q \in Runs \ {r} : MainCtx(q) # MainCtx(r)
    BY DEF Runs, MainCtx, OracleCtx
  <2> QED
    BY <2>1 DEF SettledUpdate, MainDone, Gone, Active
<1>4. Goroutines'
  BY DEF Goroutines
<1>5. \A q \in Runs : RoundOf(q)' = RoundOf(q) /\ (FetchDone(q) => FetchDone(q)')
  BY DEF RoundOf, FetchDone, MainDone
<1>6. Sharing'
  BY <1>5 DEF Sharing
<1>7. StaleFetch'
  BY <1>5 DEF StaleFetch
<1>8. Fresh'
  BY DEF Fresh
<1> QED
  BY <1>1, <1>2, <1>3, <1>4, <1>6, <1>7, <1>8

(* The loop reads the ids: it goes on, or exits when there are none.       *)
LEMMA CheckIDsStep ==
  ASSUME ProviderInv, NEW r \in Runs, CheckIDs(r)
  PROVE  ProviderInv'
<1> USE DEF ProviderInv
<1>1. PICK pc \in {"exited", "make"} :
        Goto(r, pc) /\ cancelled' = cancelled \cup (IF pc = "exited" THEN {MainCtx(r)} ELSE {})
  BY DEF CheckIDs
<1>2. /\ run' \in [Runs -> [pc : RunPC, round : 0 .. MaxRounds]]
      /\ run'[r].pc = pc /\ run'[r].round = run[r].round
      /\ \A q \in Runs \ {r} : run'[q] = run[q]
  BY <1>1, SetRunEffect DEF Goto, TypesOK, ProviderTypeOK, RunPC
<1>3. /\ run[r].pc = "loop" /\ Active(r)
      /\ UNCHANGED <<kind, ids, mainCtx, fetchCtx, responseCh>>
      /\ UNCHANGED <<fetcher, worker, receiver, channel, oracle, updates>>
  BY DEF CheckIDs, providerVars, Active
<1>4. fetcher[r].pc = "off" /\ receiver[r] = Nil
  BY <1>3 DEF Goroutines
<1> HIDE DEF ProviderInv
<1> QED
  BY <1>1, <1>2, <1>3, <1>4, LoopStep

(* A round whose fetch is done ends.                                       *)
LEMMA EndRoundStep ==
  ASSUME ProviderInv, NEW r \in Runs, EndRound(r)
  PROVE  ProviderInv'
<1> USE DEF ProviderInv
<1>1. PICK pc \in {"exited", "loop"} :
        Goto(r, pc) /\ cancelled' = cancelled \cup (IF pc = "exited" THEN {MainCtx(r)} ELSE {})
  BY DEF EndRound
<1>2. /\ run' \in [Runs -> [pc : RunPC, round : 0 .. MaxRounds]]
      /\ run'[r].pc = pc /\ run'[r].round = run[r].round
      /\ \A q \in Runs \ {r} : run'[q] = run[q]
  BY <1>1, SetRunEffect DEF Goto, TypesOK, ProviderTypeOK, RunPC
<1>3. /\ Active(r) /\ fetcher[r].pc = "off" /\ receiver[r] = Nil
      /\ UNCHANGED <<kind, ids, mainCtx, fetchCtx, responseCh>>
      /\ UNCHANGED <<fetcher, worker, receiver, channel, oracle, updates>>
  BY DEF EndRound, providerVars, Active
<1> HIDE DEF ProviderInv
<1> QED
  BY <1>1, <1>2, <1>3, LoopStep

(* A new round makes its channel.                                          *)
LEMMA CreateResponseChStep ==
  ASSUME ProviderInv, NEW r \in Runs, CreateResponseCh(r)
  PROVE  ProviderInv'
<1> DEFINE ch == <<r, run[r].round + 1>>
<1> USE DEF ProviderInv
<1>1. /\ run' \in [Runs -> [pc : RunPC, round : 0 .. MaxRounds]]
      /\ run'[r].pc = "ctx" /\ run'[r].round = run[r].round
      /\ \A q \in Runs \ {r} : run'[q] = run[q]
  BY SetRunEffect DEF CreateResponseCh, Goto, TypesOK, ProviderTypeOK, RunPC
<1>2. ch \in Rounds /\ channel[ch].held = 0 /\ ~channel[ch].closed
  BY ProviderConstants DEF CreateResponseCh, Fresh, TypesOK, ProviderTypeOK, Rounds
<1>3. Capacity \in Nat /\ 0 \in 0 .. Capacity /\ FALSE \in BOOLEAN
  BY CapacityIsNat DEF TypesOK
<1>4. SetChannel(ch, 0, Capacity, FALSE)
  BY <1>2 DEF CreateResponseCh, TypesOK, SetChannel
<1>5. /\ channel' \in [Rounds -> [held : Nat, cap : Nat, closed : BOOLEAN]]
      /\ \A x \in Rounds : channel'[x].held \in 0 .. channel'[x].cap
      /\ channel'[ch].held = 0 /\ channel'[ch].closed = FALSE
      /\ \A x \in Rounds \ {ch} : channel'[x] = channel[x]
  <2> HIDE DEF ch
  <2> QED
    BY <1>2, <1>3, <1>4, SetChannelEffect
<1>6. /\ run[r].pc = "make" /\ run[r].round < MaxRounds /\ responseCh' = ch
      /\ UNCHANGED <<kind, ids, mainCtx, fetchCtx>>
      /\ UNCHANGED <<fetcher, worker, receiver, cancelled, oracle, updates>>
  BY DEF CreateResponseCh
<1>7. \A q \in Runs \ {r} : run[q].pc \notin {"ctx", "wait"}
  BY <1>6 DEF OneRun, Active
<1>8. \A q \in Runs : RoundOf(q)' = RoundOf(q) /\ (FetchDone(q) => FetchDone(q)')
  BY <1>1, <1>6 DEF RoundOf, FetchDone, MainDone
<1>9. TypesOK'
  BY <1>1, <1>2, <1>5, <1>6 DEF TypesOK, ProviderTypeOK, RunPC
<1>10. OneRun'
  BY <1>1, <1>6 DEF OneRun, Active, Gone
<1>11. SettledUpdate'
  BY <1>1, <1>6 DEF SettledUpdate, MainDone, Gone
<1>12. Goroutines'
  BY <1>1, <1>6 DEF Goroutines
<1>13. Sharing'
  BY <1>1, <1>6, <1>7, <1>8 DEF Sharing
<1>14. StaleFetch'
  BY <1>6, <1>8 DEF StaleFetch
<1>15. Fresh'
  <2> SUFFICES ASSUME NEW q \in Runs, NEW n \in 1 .. MaxRounds, n > run'[q].round
               PROVE  channel'[<<q, n>>].held = 0 /\ ~channel'[<<q, n>>].closed
    BY DEF Fresh
  <2>1. <<q, n>> \in Rounds /\ n > run[q].round
    BY <1>1 DEF Rounds
  <2> QED
    BY <1>5, <2>1 DEF Fresh
<1> QED
  BY <1>9, <1>10, <1>11, <1>12, <1>13, <1>14, <1>15

(* A new round makes its context and starts its goroutines.                *)
LEMMA StartRoundStep ==
  ASSUME ProviderInv, NEW r \in Runs, StartRound(r)
  PROVE  ProviderInv'
<1> DEFINE ch == <<r, run[r].round + 1>>
<1> USE DEF ProviderInv
<1>1. /\ run[r].pc = "ctx" /\ run[r].round < MaxRounds /\ responseCh = ch
      /\ fetcher[r].pc = "off" /\ fetcher[r].ids \in SUBSET IDs
      /\ run[r].round \in 0 .. MaxRounds
  BY DEF StartRound, Sharing, Goroutines, TypesOK, ProviderTypeOK
<1>2. /\ run' \in [Runs -> [pc : RunPC, round : 0 .. MaxRounds]]
      /\ run'[r].pc = "wait" /\ run'[r].round = run[r].round + 1
      /\ \A q \in Runs \ {r} : run'[q] = run[q]
  BY <1>1, SetRunEffect, ProviderConstants DEF StartRound, TypesOK, RunPC
<1>3. /\ fetcher' \in [Runs -> [pc : FetcherPC, ids : SUBSET IDs]]
      /\ fetcher'[r].pc = "start"
      /\ \A q \in Runs \ {r} : fetcher'[q] = fetcher[q]
  BY <1>1, SetFetcherEffect DEF StartRound, TypesOK, FetcherPC
<1>4. /\ receiver' = [receiver EXCEPT ![r] = ch] /\ fetchCtx' = ch
      /\ UNCHANGED <<kind, ids, mainCtx, responseCh, worker, cancelled>>
      /\ UNCHANGED <<channel, oracle, updates>>
  BY <1>1 DEF StartRound
<1>5. ch \in Rounds /\ ch # Nil /\ ~channel[ch].closed
  BY <1>1, ProviderConstants DEF Rounds, Nil, Fresh
<1>6. \A q \in Runs \ {r} : run[q].pc \notin {"ctx", "wait"}
  BY <1>1 DEF OneRun, Active
<1>7. /\ RoundOf(r)' = ch
      /\ \A q \in Runs \ {r} : RoundOf(q)' = RoundOf(q) /\ (FetchDone(q) => FetchDone(q)')
  BY <1>2, <1>4 DEF RoundOf, FetchDone, MainDone
<1>8. receiver'[r] = ch /\ \A q \in Runs \ {r} : receiver'[q] = receiver[q]
  BY <1>4 DEF TypesOK, ProviderTypeOK
<1>9. TypesOK'
  BY <1>2, <1>3, <1>4, <1>5 DEF TypesOK, ProviderTypeOK, RunPC, FetcherPC
<1>10. OneRun'
  BY <1>1, <1>2, <1>4 DEF OneRun, Active, Gone
<1>11. SettledUpdate'
  BY <1>1, <1>2, <1>4 DEF SettledUpdate, MainDone, Gone
<1>12. Goroutines'
  BY <1>1, <1>2, <1>3, <1>4, <1>8 DEF Goroutines
<1>13. \A c \in Conns : worker[r][c].pc = "done"
  BY <1>1 DEF Goroutines
<1>14. Sharing'
  BY <1>1, <1>2, <1>4, <1>5, <1>6, <1>7, <1>8, <1>13 DEF Sharing
<1>15. StaleFetch'
  BY <1>3, <1>4, <1>7 DEF StaleFetch
<1>16. Fresh'
  BY <1>1, <1>2, <1>4 DEF Fresh
<1> QED
  BY <1>9, <1>10, <1>11, <1>12, <1>14, <1>15, <1>16

-----------------------------------------------------------------------------
(* The steps of the goroutines of a round, which leave the loop alone.     *)
Quiet == UNCHANGED <<kind, ids, mainCtx, fetchCtx, responseCh>> /\ UNCHANGED <<run, oracle, updates>>

(* A step that moves no run keeps the active run, and the fetches that are *)
(* done.                                                                   *)
LEMMA QuietStep ==
  ASSUME ProviderInv, Quiet, cancelled \subseteq cancelled',
         cancelled' \subseteq cancelled \cup Rounds
  PROVE  /\ OneRun' /\ SettledUpdate'
         /\ \A q \in Runs : RoundOf(q)' = RoundOf(q) /\ (FetchDone(q) => FetchDone(q)')
<1> USE DEF ProviderInv, Quiet
<1>1. OracleCtx \notin Rounds /\ \A q \in Runs : MainCtx(q) \notin Rounds
  BY DEF OracleCtx, MainCtx, Rounds
<1>2. /\ OracleCtx \in cancelled' => OracleCtx \in cancelled
      /\ \A q \in Runs : MainDone(q)' => MainDone(q)
  BY <1>1 DEF MainDone, MainCtx, OracleCtx
<1>3. OneRun'
  BY DEF OneRun, Active
<1>4. SettledUpdate'
  BY <1>2 DEF SettledUpdate
<1> QED
  BY <1>3, <1>4 DEF RoundOf, FetchDone, MainDone

(* The channel of a round to come is not that of the round under way.      *)
LEMMA RoundIsCurrent ==
  ASSUME NEW r \in Runs
  PROVE  \A q \in Runs, n \in 1 .. MaxRounds :
           n > run[q].round => <<q, n>> \in Rounds \ {RoundOf(r)}
  BY ProviderConstants DEF Rounds, RoundOf

(* The fetch reads the ids.                                                *)
LEMMA FetchIDsStep ==
  ASSUME ProviderInv, NEW r \in Runs, FetchIDs(r)
  PROVE  ProviderInv'
<1> DEFINE W == [c \in Conns |->
                   [pc |-> IF c <= NumConns(Cardinality(ids)) THEN "top" ELSE "done", ch |-> Nil]]
<1> USE DEF ProviderInv
<1>1. /\ fetcher[r].pc = "start" /\ worker' = [worker EXCEPT ![r] = W]
      /\ UNCHANGED <<receiver, cancelled, channel>> /\ Quiet
  BY DEF FetchIDs, providerVars, Quiet
<1>2. /\ fetcher' \in [Runs -> [pc : FetcherPC, ids : SUBSET IDs]]
      /\ fetcher'[r].pc = "work" /\ fetcher'[r].ids = ids
      /\ \A q \in Runs \ {r} : fetcher'[q] = fetcher[q]
  BY SetFetcherEffect DEF FetchIDs, TypesOK, ProviderTypeOK, FetcherPC
<1>3. /\ W \in [Conns -> [pc : WorkerPC, ch : Rounds \cup {Nil}]]
      /\ \A c \in Conns : W[c].pc \in {"top", "done"}
  BY DEF WorkerPC
<1> HIDE DEF W
<1>4. worker'[r] = W /\ \A q \in Runs \ {r} : worker'[q] = worker[q]
  BY <1>1 DEF TypesOK, ProviderTypeOK
<1>5. /\ OneRun' /\ SettledUpdate'
      /\ \A q \in Runs : RoundOf(q)' = RoundOf(q) /\ (FetchDone(q) => FetchDone(q)')
  BY <1>1, QuietStep
<1>6. TypesOK'
  BY <1>1, <1>2, <1>3 DEF TypesOK, ProviderTypeOK, Quiet, FetcherPC, WorkerPC
<1>7. Goroutines'
  BY <1>1, <1>2, <1>4 DEF Goroutines, Quiet
<1>8. Sharing'
  BY <1>1, <1>2, <1>3, <1>4, <1>5 DEF Sharing, Quiet
<1>9. StaleFetch'
  BY <1>1, <1>2, <1>5 DEF StaleFetch, Quiet
<1>10. Fresh'
  BY <1>1 DEF Fresh, Quiet
<1> QED
  BY <1>5, <1>6, <1>7, <1>8, <1>9, <1>10

(* The fetch cancels its own context when it returns.                      *)
LEMMA CancelOwnFetchStep ==
  ASSUME ProviderInv, NEW r \in Runs, CancelOwnFetch(r)
  PROVE  ProviderInv'
<1> USE DEF ProviderInv
<1>1. /\ fetcher[r].pc = "work" /\ \A c \in Conns : worker[r][c].pc = "done"
      /\ cancelled' = cancelled \cup {RoundOf(r)}
      /\ UNCHANGED <<worker, receiver, channel>> /\ Quiet
  BY DEF CancelOwnFetch, providerVars, Quiet
<1>2. /\ fetcher' \in [Runs -> [pc : FetcherPC, ids : SUBSET IDs]]
      /\ fetcher'[r].pc = "close"
      /\ \A q \in Runs \ {r} : fetcher'[q] = fetcher[q]
  BY SetFetcherEffect DEF CancelOwnFetch, TypesOK, ProviderTypeOK, FetcherPC
<1>3. run[r].pc = "wait" /\ RoundOf(r) \in Rounds
  BY <1>1 DEF Goroutines, Sharing
<1>4. /\ OneRun' /\ SettledUpdate'
      /\ \A q \in Runs : RoundOf(q)' = RoundOf(q) /\ (FetchDone(q) => FetchDone(q)')
  BY <1>1, <1>3, QuietStep
<1>5. TypesOK'
  BY <1>1, <1>2, <1>3 DEF TypesOK, ProviderTypeOK, Quiet, FetcherPC
<1>6. Goroutines'
  BY <1>1, <1>2, <1>3 DEF Goroutines, Quiet
<1>7. Sharing'
  BY <1>1, <1>2, <1>4 DEF Sharing, Quiet
<1>8. StaleFetch'
  BY <1>1, <1>2, <1>4 DEF StaleFetch, Quiet
<1>9. Fresh'
  BY <1>1 DEF Fresh, Quiet
<1> QED
  BY <1>4, <1>5, <1>6, <1>7, <1>8, <1>9

(* The fetch closes its channel when its sub-tasks are done.               *)
LEMMA CloseResponseChStep ==
  ASSUME ProviderInv, NEW r \in Runs, CloseResponseCh(r)
  PROVE  ProviderInv'
<1> DEFINE ch == RoundOf(r)
<1> USE DEF ProviderInv
<1>1. /\ fetcher[r].pc = "close"
      /\ UNCHANGED <<worker, receiver, cancelled>> /\ Quiet
  BY DEF CloseResponseCh, providerVars, Quiet
<1>2. /\ fetcher' \in [Runs -> [pc : FetcherPC, ids : SUBSET IDs]]
      /\ fetcher'[r].pc = "off"
      /\ \A q \in Runs \ {r} : fetcher'[q] = fetcher[q]
  BY SetFetcherEffect DEF CloseResponseCh, TypesOK, ProviderTypeOK, FetcherPC
<1>3. run[r].pc = "wait" /\ ch \in Rounds /\ responseCh = ch
  BY <1>1 DEF Goroutines, Sharing
<1>4. /\ channel[ch].held \in 0 .. channel[ch].cap /\ channel[ch].cap \in Nat /\ TRUE \in BOOLEAN
      /\ SetChannel(ch, channel[ch].held, channel[ch].cap, TRUE)
  BY <1>3 DEF CloseResponseCh, TypesOK, ProviderTypeOK
<1> HIDE DEF ch
<1>5. /\ channel' \in [Rounds -> [held : Nat, cap : Nat, closed : BOOLEAN]]
      /\ \A x \in Rounds : channel'[x].held \in 0 .. channel'[x].cap
      /\ \A x \in Rounds \ {ch} : channel'[x] = channel[x]
  BY <1>3, <1>4, SetChannelEffect
<1>6. \A q \in Runs \ {r} : run[q].pc # "wait"
  BY <1>3 DEF OneRun, Active
<1>7. /\ OneRun' /\ SettledUpdate'
      /\ \A q \in Runs : RoundOf(q)' = RoundOf(q) /\ (FetchDone(q) => FetchDone(q)')
  BY <1>1, QuietStep
<1>8. TypesOK'
  BY <1>1, <1>2, <1>5 DEF TypesOK, ProviderTypeOK, Quiet, FetcherPC
<1>9. Goroutines'
  BY <1>1, <1>2, <1>3 DEF Goroutines, Quiet
<1>10. Sharing'
  BY <1>1, <1>2, <1>3, <1>6, <1>7 DEF Sharing, Quiet
<1>11. StaleFetch'
  BY <1>1, <1>2, <1>7 DEF StaleFetch, Quiet
<1>12. Fresh'
  BY <1>1, <1>5, RoundIsCurrent DEF Fresh, Quiet, ch
<1> QED
  BY <1>7, <1>8, <1>9, <1>10, <1>11, <1>12

(* One channel gets or loses a response.                                   *)
LEMMA HeldEffect ==
  ASSUME TypesOK, NEW ch \in Rounds, NEW held \in 0 .. channel[ch].cap, Held(ch, held)
  PROVE  /\ channel' \in [Rounds -> [held : Nat, cap : Nat, closed : BOOLEAN]]
         /\ \A x \in Rounds : channel'[x].held \in 0 .. channel'[x].cap
         /\ channel'[ch].closed = channel[ch].closed
         /\ \A x \in Rounds \ {ch} : channel'[x] = channel[x]
<1>1. channel[ch].cap \in Nat /\ channel[ch].closed \in BOOLEAN
  BY DEF TypesOK
<1> QED
  BY <1>1, SetChannelEffect DEF Held

(* Responses come and go, and a connection moves on.                       *)
LEMMA TrafficStep ==
  ASSUME ProviderInv, NEW r \in Runs, run[r].pc = "wait",
         Quiet, UNCHANGED <<fetcher, receiver, cancelled>>,
         worker' \in [Runs -> [Conns -> [pc : WorkerPC, ch : Rounds \cup {Nil}]]],
         UNCHANGED worker \/ fetcher[r].pc = "work",
         \A q \in Runs \ {r} : worker'[q] = worker[q],
         \A c \in Conns : worker'[r][c].pc \in {"dial", "query", "error"}
                             => worker'[r][c].ch = RoundOf(r),
         channel' \in [Rounds -> [held : Nat, cap : Nat, closed : BOOLEAN]],
         \A x \in Rounds : channel'[x].held \in 0 .. channel'[x].cap,
         channel'[RoundOf(r)].closed = channel[RoundOf(r)].closed,
         \A x \in Rounds \ {RoundOf(r)} : channel'[x] = channel[x]
  PROVE  ProviderInv'
<1> USE DEF ProviderInv
<1>1. /\ OneRun' /\ SettledUpdate'
      /\ \A q \in Runs : RoundOf(q)' = RoundOf(q) /\ (FetchDone(q) => FetchDone(q)')
  BY QuietStep
<1>2. TypesOK'
  BY DEF TypesOK, ProviderTypeOK, Quiet, WorkerPC
<1>3. Goroutines'
  BY DEF Goroutines, Quiet
<1>4. Sharing'
  BY <1>1 DEF Sharing, Quiet
<1>5. StaleFetch'
  BY <1>1 DEF StaleFetch, Quiet
<1>6. Fresh'
  BY RoundIsCurrent DEF Fresh, Quiet
<1> QED
  BY <1>1, <1>2, <1>3, <1>4, <1>5, <1>6

(* The receiver takes a response.                                          *)
LEMMA RecvStep ==
  ASSUME ProviderInv, NEW r \in Runs, Recv(r)
  PROVE  ProviderInv'
<1> DEFINE ch == RoundOf(r)
<1> USE DEF ProviderInv
<1>1. receiver[r] # Nil /\ UNCHANGED <<fetcher, worker, cancelled>> /\ Quiet
  BY DEF Recv, providerVars, Quiet
<1>2. run[r].pc = "wait" /\ ch \in Rounds /\ responseCh = ch /\ receiver[r] = ch
  BY <1>1 DEF Goroutines, Sharing
<1>3. receiver' = receiver
  BY <1>2 DEF Recv, TypesOK, ProviderTypeOK
<1>4. /\ channel' \in [Rounds -> [held : Nat, cap : Nat, closed : BOOLEAN]]
      /\ \A x \in Rounds : channel'[x].held \in 0 .. channel'[x].cap
      /\ channel'[ch].closed = channel[ch].closed
      /\ \A x \in Rounds \ {ch} : channel'[x] = channel[x]
  BY <1>2, HeldEffect DEF Recv, TypesOK, ProviderTypeOK
<1>5. worker' \in [Runs -> [Conns -> [pc : WorkerPC, ch : Rounds \cup {Nil}]]]
  BY <1>1 DEF TypesOK, ProviderTypeOK, WorkerPC
<1>6. \A c \in Conns : worker'[r][c].pc \in {"dial", "query", "error"} => worker'[r][c].ch = ch
  BY <1>1 DEF Sharing
<1> HIDE DEF ProviderInv
<1> QED
  BY <1>1, <1>2, <1>3, <1>4, <1>5, <1>6, TrafficStep

(* The receiver returns.                                                   *)
LEMMA StopRecvStep ==
  ASSUME ProviderInv, NEW r \in Runs, StopRecv(r)
  PROVE  ProviderInv'
<1> USE DEF ProviderInv
<1>1. receiver[r] # Nil /\ FetchDone(r) /\ UNCHANGED <<fetcher, worker, cancelled, channel>> /\ Quiet
  BY DEF StopRecv, providerVars, Quiet
<1>2. /\ receiver' \in [Runs -> Rounds \cup {Nil}] /\ receiver'[r] = Nil
      /\ \A q \in Runs \ {r} : receiver'[q] = receiver[q]
  BY DEF StopRecv, TypesOK, ProviderTypeOK
<1>3. /\ OneRun' /\ SettledUpdate'
      /\ \A q \in Runs : RoundOf(q)' = RoundOf(q) /\ (FetchDone(q) => FetchDone(q)')
  BY <1>1, QuietStep
<1>4. TypesOK'
  BY <1>1, <1>2 DEF TypesOK, ProviderTypeOK, Quiet
<1>5. Goroutines'
  BY <1>1, <1>2 DEF Goroutines, Quiet
<1>6. Sharing'
  BY <1>1, <1>2, <1>3 DEF Sharing, Quiet
<1>7. StaleFetch'
  BY <1>1, <1>3 DEF StaleFetch, Quiet
<1>8. Fresh'
  BY <1>1 DEF Fresh, Quiet
<1> QED
  BY <1>3, <1>4, <1>5, <1>6, <1>7, <1>8

(* A connection or sub-task does what is next.                             *)
LEMMA WorkerNextStep ==
  ASSUME ProviderInv, NEW r \in Runs, NEW c \in Conns, WorkerNext(r, c)
  PROVE  ProviderInv'
<1> DEFINE ch == RoundOf(r)
           Busy == {"dial", "query", "error"}
<1> USE DEF ProviderInv
<1>1. worker[r][c].pc # "done" /\ UNCHANGED <<fetcher, receiver, cancelled>> /\ Quiet
  BY DEF WorkerNext, CallHandler, StopWorker, SendResponse, HandlerReturns, Dial, SendError,
         WorkerStep, providerVars, Quiet
<1>2. /\ fetcher[r].pc = "work" /\ run[r].pc = "wait" /\ ch \in Rounds /\ responseCh = ch
      /\ worker[r][c].pc \in WorkerPC /\ worker[r][c].ch \in Rounds \cup {Nil}
      /\ worker[r][c].pc \in Busy => worker[r][c].ch = ch
  BY <1>1 DEF Goroutines, Sharing, TypesOK, ProviderTypeOK, WorkerPC
<1>3. \/ UNCHANGED worker
      \/ \E pc \in WorkerPC, x \in Rounds \cup {Nil} :
           SetWorker(r, c, pc, x) /\ (pc \in Busy => x = ch)
  <2>1. CASE CallHandler(r, c)
    <3>1. PICK pc \in {"query", "dial"} : SetWorker(r, c, pc, ch)
      BY <1>2, <2>1 DEF CallHandler
    <3> QED
      BY <1>2, <3>1 DEF WorkerPC
  <2>2. CASE StopWorker(r, c)
    BY <1>2, <2>2 DEF StopWorker, WorkerGoto, WorkerPC
  <2>3. CASE SendResponse(r, c)
    BY <2>3 DEF SendResponse
  <2>4. CASE HandlerReturns(r, c)
    BY <1>2, <2>4 DEF HandlerReturns, WorkerGoto, WorkerPC
  <2>5. CASE Dial(r, c)
    <3>1. PICK pc \in {"query", "error"} : SetWorker(r, c, pc, ch)
      BY <1>2, <2>5 DEF Dial, WorkerGoto
    <3> QED
      BY <1>2, <3>1 DEF WorkerPC
  <2>6. CASE SendError(r, c)
    BY <1>2, <2>6 DEF SendError, WorkerGoto, WorkerPC
  <2> QED
    BY <2>1, <2>2, <2>3, <2>4, <2>5, <2>6 DEF WorkerNext
<1>4. /\ worker' \in [Runs -> [Conns -> [pc : WorkerPC, ch : Rounds \cup {Nil}]]]
      /\ worker'[r][c].pc \in Busy => worker'[r][c].ch = ch
      /\ \A d \in Conns \ {c} : worker'[r][d] = worker[r][d]
      /\ \A q \in Runs \ {r} : worker'[q] = worker[q]
  <2>1. CASE UNCHANGED worker
    BY <1>2, <2>1 DEF TypesOK, ProviderTypeOK, WorkerPC
  <2>2. CASE \E pc \in WorkerPC, x \in Rounds \cup {Nil} :
               SetWorker(r, c, pc, x) /\ (pc \in Busy => x = ch)
    <3>1. PICK pc \in WorkerPC, x \in Rounds \cup {Nil} :
            SetWorker(r, c, pc, x) /\ (pc \in Busy => x = ch)
      BY <2>2
    <3>2. /\ worker' \in [Runs -> [Conns -> [pc : WorkerPC, ch : Rounds \cup {Nil}]]]
          /\ worker'[r][c].pc = pc /\ worker'[r][c].ch = x
          /\ \A d \in Conns \ {c} : worker'[r][d] = worker[r][d]
          /\ \A q \in Runs \ {r} : worker'[q] = worker[q]
      BY <3>1, SetWorkerEffect DEF TypesOK
    <3> QED
      BY <3>1, <3>2
  <2> QED
    BY <1>3, <2>1, <2>2
<1>5. /\ channel' \in [Rounds -> [held : Nat, cap : Nat, closed : BOOLEAN]]
      /\ \A x \in Rounds : channel'[x].held \in 0 .. channel'[x].cap
      /\ channel'[ch].closed = channel[ch].closed
      /\ \A x \in Rounds \ {ch} : channel'[x] = channel[x]
  <2>1. CASE UNCHANGED channel
    BY <2>1 DEF TypesOK, ProviderTypeOK
  <2>2. CASE HasRoom(ch) /\ Held(ch, channel[ch].held + 1)
    <3>1. channel[ch].held + 1 \in 0 .. channel[ch].cap
      BY <1>2, <2>2 DEF HasRoom, TypesOK, ProviderTypeOK
    <3> HIDE DEF ch
    <3> QED
      BY <1>2, <2>2, <3>1, HeldEffect
  <2> QED
    BY <1>2, <2>1, <2>2
       DEF WorkerNext, CallHandler, StopWorker, SendResponse, HandlerReturns, Dial, SendError
<1>6. \A d \in Conns : worker'[r][d].pc \in Busy => worker'[r][d].ch = ch
  BY <1>4 DEF Sharing
<1> HIDE DEF ProviderInv
<1> QED
  BY <1>1, <1>2, <1>4, <1>5, <1>6, TrafficStep

-----------------------------------------------------------------------------
(* The steps of the oracle.                                                *)
LEMMA SetIDsStep ==
  ASSUME ProviderInv, Settled, OracleCtx \notin cancelled, NEW new \in SUBSET IDs, SetIDs(new)
  PROVE  ProviderInv'
<1> USE DEF ProviderInv, SetIDs, OracleStep
<1>1. TypesOK'
  BY ProviderConstants DEF TypesOK, ProviderTypeOK
<1>2. OneRun'
  BY DEF OneRun, Active
<1>3. SettledUpdate'
  BY DEF TypesOK, ProviderTypeOK, Settled, SettledUpdate, MainDone, Gone
<1>4. Goroutines'
  BY DEF Goroutines
<1>5. \A q \in Runs : RoundOf(q)' = RoundOf(q) /\ (FetchDone(q) => FetchDone(q)')
  BY DEF RoundOf, FetchDone, MainDone
<1>6. Sharing'
  BY <1>5 DEF Sharing
<1>7. StaleFetch'
  BY DEF StaleFetch
<1>8. Fresh'
  BY DEF Fresh
<1> QED
  BY <1>1, <1>2, <1>3, <1>4, <1>6, <1>7, <1>8

(* An update that has set the ids cancels the fetch.                       *)
LEMMA CancelFetchStep ==
  ASSUME ProviderInv, CancelFetch
  PROVE  ProviderInv'
<1> USE DEF ProviderInv, CancelFetch, OracleStep
<1>1. TypesOK'
  BY DEF TypesOK, ProviderTypeOK
<1>2. OneRun'
  BY DEF OneRun, Active
<1>3. /\ cancelled' \subseteq cancelled \cup Rounds
      /\ OracleCtx \notin Rounds /\ \A q \in Runs : MainCtx(q) \notin Rounds
  BY DEF TypesOK, ProviderTypeOK, OracleCtx, MainCtx, Rounds
<1>4. SettledUpdate'
  BY <1>3 DEF SettledUpdate, MainDone
<1>5. Goroutines'
  BY DEF Goroutines
<1>6. \A q \in Runs : RoundOf(q)' = RoundOf(q) /\ (FetchDone(q) => FetchDone(q)')
  BY DEF RoundOf, FetchDone, MainDone
<1>7. Sharing'
  BY <1>6 DEF Sharing
<1>8. StaleFetch'
  <2> SUFFICES ASSUME NEW q \in Runs, fetcher[q].pc = "work"
               PROVE  FetchDone(q)'
    BY DEF StaleFetch
  <2>1. fetchCtx = RoundOf(q)
    BY DEF Goroutines, Sharing
  <2>2. RoundOf(q) # Nil
    BY DEF Nil, RoundOf
  <2> QED
    BY <2>1, <2>2, <1>6 DEF FetchDone
<1>9. Fresh'
  BY DEF Fresh
<1> QED
  BY <1>1, <1>2, <1>4, <1>5, <1>7, <1>8, <1>9

(* A new run is spawned only when every earlier one has left its loop.     *)
LEMMA StopOrStartStep ==
  ASSUME ProviderInv, StopOrStart
  PROVE  ProviderInv'
<1> USE DEF ProviderInv
<1>1. /\ oracle = "decide" /\ oracle' = "idle" /\ UNCHANGED <<ids, updates>> /\ OracleStep
      /\ cancelled \subseteq cancelled' /\ updates \in Runs
      /\ cancelled' \subseteq cancelled \cup {MainCtx(q) : q \in Runs}
  BY DEF StopOrStart, SettledUpdate, TypesOK, ProviderTypeOK, Runs
<1>2. /\ run' \in [Runs -> [pc : RunPC, round : 0 .. MaxRounds]]
      /\ \A q \in Runs : run'[q].round = run[q].round
      /\ \/ UNCHANGED run
         \/ /\ run'[updates].pc = "spawned"
            /\ \A q \in Runs \ {updates} : run'[q] = run[q]
            /\ \A q \in Runs : run[q].pc \in Gone
  <2>1. CASE UNCHANGED run
    BY <2>1 DEF TypesOK, ProviderTypeOK, RunPC
  <2>2. CASE ~IsRunning /\ Goto(updates, "spawned")
    <3>1. \A q \in Runs : run[q].pc \in Gone
      BY <1>1, <2>2 DEF IsRunning, SettledUpdate, OneRun, Active, Gone, Runs, TypesOK, ProviderTypeOK
    <3>2. /\ run' \in [Runs -> [pc : RunPC, round : 0 .. MaxRounds]]
          /\ run'[updates].pc = "spawned" /\ run'[updates].round = run[updates].round
          /\ \A q \in Runs \ {updates} : run'[q] = run[q]
      BY <1>1, <2>2, SetRunEffect DEF Goto, TypesOK, ProviderTypeOK, RunPC
    <3> QED
      BY <3>1, <3>2
  <2> QED
    BY <2>1, <2>2 DEF StopOrStart
<1>3. TypesOK'
  BY <1>1, <1>2 DEF TypesOK, ProviderTypeOK, RunPC, OracleStep
<1>4. OneRun'
  BY <1>1, <1>2 DEF OneRun, Active, Gone, OracleStep, SettledUpdate
<1>5. SettledUpdate'
  BY <1>1 DEF SettledUpdate
<1>6. Goroutines'
  BY <1>1, <1>2 DEF Goroutines, Gone, OracleStep
<1>7. \A q \in Runs : RoundOf(q)' = RoundOf(q) /\ (FetchDone(q) => FetchDone(q)')
  BY <1>1, <1>2 DEF RoundOf, FetchDone, MainDone
<1>8. Sharing'
  BY <1>1, <1>2, <1>7 DEF Sharing, OracleStep
<1>9. StaleFetch'
  BY <1>1, <1>7 DEF StaleFetch, OracleStep
<1>10. Fresh'
  BY <1>1, <1>2 DEF Fresh, OracleStep
<1> QED
  BY <1>3, <1>4, <1>5, <1>6, <1>8, <1>9, <1>10

(* The oracle stops a provider that is settled.                            *)
LEMMA OracleStopStep ==
  ASSUME ProviderInv, Settled, OracleStop
  PROVE  ProviderInv'
<1> USE DEF ProviderInv
<1>1. /\ cancelled' = cancelled \cup {OracleCtx} /\ oracle = "idle"
      /\ UNCHANGED <<fetcher, worker, receiver, channel>> /\ Quiet
  BY DEF OracleStop, Settled, Quiet, providerVars, runVars
<1>2. \A q \in Runs : RoundOf(q)' = RoundOf(q) /\ (FetchDone(q) => FetchDone(q)')
  BY <1>1 DEF RoundOf, FetchDone, MainDone, Quiet
<1>3. TypesOK'
  BY <1>1 DEF TypesOK, ProviderTypeOK, Quiet
<1>4. OneRun'
  BY <1>1 DEF OneRun, Active, Quiet
<1>5. SettledUpdate'
  BY <1>1 DEF SettledUpdate, Quiet
<1>6. Goroutines'
  BY <1>1 DEF Goroutines, Quiet
<1>7. Sharing'
  BY <1>1, <1>2 DEF Sharing, Quiet
<1>8. StaleFetch'
  BY <1>1, <1>2 DEF StaleFetch, Quiet
<1>9. Fresh'
  BY <1>1 DEF Fresh, Quiet
<1> QED
  BY <1>3, <1>4, <1>5, <1>6, <1>7, <1>8, <1>9

(* Doing nothing keeps the invariant.                                      *)
LEMMA IdleStep ==
  ASSUME ProviderInv, UNCHANGED vars
  PROVE  ProviderInv'
<1> USE DEF ProviderInv, vars, providerVars, runVars
<1>1. TypesOK' /\ OneRun' /\ SettledUpdate'
  BY DEF TypesOK, ProviderTypeOK, OneRun, Active, SettledUpdate, MainDone
<1>2. Goroutines' /\ StaleFetch' /\ Fresh'
  BY DEF Goroutines, StaleFetch, Fresh, FetchDone, MainDone, RoundOf
<1>3. Sharing'
  BY DEF Sharing, FetchDone, MainDone, RoundOf
<1> QED
  BY <1>1, <1>2, <1>3
-----------------------------------------------------------------------------
(* The invariant holds when the provider is made.                          *)
LEMMA InitInv == Init => ProviderInv
<1> SUFFICES ASSUME Init
             PROVE  ProviderInv
  OBVIOUS
<1>1. TypesOK
  <2>1. \A ch \in Rounds : channel[ch].held = 0 /\ channel[ch].cap = 0
    BY DEF Init
  <2>2. ProviderTypeOK
    BY <2>1, ProviderConstants DEF Init, ProviderTypeOK
  <2> QED
    BY <2>2 DEF TypesOK, Init
<1>2. OneRun /\ SettledUpdate /\ Goroutines
  BY DEF Init, OneRun, Active, Gone, SettledUpdate, Goroutines
<1>3. Sharing /\ StaleFetch
  BY DEF Init, Sharing, StaleFetch
<1>4. Fresh
  BY DEF Init, Fresh, Rounds
<1> QED
  BY <1>1, <1>2, <1>3, <1>4 DEF ProviderInv

(* Every step keeps it.                                                    *)
LEMMA NextInv == ProviderInv /\ [SettledNext]_vars => ProviderInv'
<1> SUFFICES ASSUME ProviderInv, [SettledNext]_vars
             PROVE  ProviderInv'
  OBVIOUS
<1>1. ASSUME NEW r \in Runs, RunNext(r)
      PROVE  ProviderInv'
  BY <1>1, StartStep, CheckIDsStep, CreateResponseChStep, StartRoundStep, EndRoundStep,
     FetchIDsStep, CancelOwnFetchStep, CloseResponseChStep, WorkerNextStep, RecvStep,
     StopRecvStep
     DEF RunNext
<1>2. CASE CancelFetch
  BY <1>2, CancelFetchStep
<1>3. CASE StopOrStart
  BY <1>3, StopOrStartStep
<1>4. CASE Settled /\ OracleStop
  BY <1>4, OracleStopStep
<1>5. ASSUME NEW new \in SUBSET IDs, Settled, OracleCtx \notin cancelled, SetIDs(new)
      PROVE  ProviderInv'
  BY <1>5, SetIDsStep
<1>6. CASE Stopped \/ UNCHANGED vars
  BY <1>6, IdleStep DEF Stopped
<1> QED
  BY <1>1, <1>2, <1>3, <1>4, <1>5, <1>6 DEF SettledNext

(* The inductive invariant of a provider that is left time to settle.      *)
THEOREM ProviderInvariant == SettledSpec => []ProviderInv
  BY InitInv, NextInv, PTL DEF SettledSpec

(* setMainCtx, createResponseCh, recv: the shared fields keep their type,  *)
(* and a channel never holds more than createResponseCh made it for.       *)
THEOREM ProviderTypeCorrect == SettledSpec => []ProviderTypeOK
<1>1. ProviderInv => ProviderTypeOK
  BY DEF ProviderInv, TypesOK
<1> QED
  BY <1>1, ProviderInvariant, PTL

(* Start: no response channel is closed twice, so no goroutine of the      *)
(* provider panics.                                                        *)
THEOREM NoPanicTheorem == SettledSpec => []NoPanic
<1>1. ProviderInv => NoPanic
  BY DEF ProviderInv, NoPanic, Goroutines, Sharing
<1> QED
  BY <1>1, ProviderInvariant, PTL

(* Update: when it has returned, a fetch of other ids has been cancelled.  *)
THEOREM StaleFetchTheorem == SettledSpec => []StaleFetchIsCancelled
<1>1. ProviderInv => StaleFetchIsCancelled
  BY DEF ProviderInv, StaleFetchIsCancelled, StaleFetch
<1> QED
  BY <1>1, ProviderInvariant, PTL

(* recv: while a round lasts, what its connections send is received.       *)
THEOREM ResponsesAreReceivedTheorem == SettledSpec => []ResponsesAreReceived
<1>1. ASSUME ProviderInv, NEW r \in Runs, NEW c \in Conns,
             worker[r][c].pc \in {"dial", "query", "error"}, ~FetchDone(r)
      PROVE  receiver[r] = worker[r][c].ch /\ ~channel[worker[r][c].ch].closed
  <2>1. fetcher[r].pc = "work" /\ run[r].pc = "wait" /\ worker[r][c].ch = RoundOf(r)
    BY <1>1 DEF ProviderInv, Goroutines, Sharing
  <2> QED
    BY <1>1, <2>1 DEF ProviderInv, Sharing
<1>2. ProviderInv => ResponsesAreReceived
  BY <1>1 DEF ResponsesAreReceived
<1> QED
  BY <1>2, ProviderInvariant, PTL
=============================================================================
