----------------------------- MODULE MCAPIQuery -----------------------------
(* Two tickers. Every fetcher with its default configuration, but for      *)
(* Osmosis, where two requests at a time stand for ten, and Raydium, where *)
(* one request at a time and two tickers stand for ten and a batch of 25.  *)
EXTENDS APIQuery

CONSTANTS btc, eth

MCIDs == {<<btc, eth>>}

Limits(maxQueries, batchSize, atomic) ==
  [maxQueries |-> maxQueries, batchSize |-> batchSize, atomic |-> atomic]
MCConfig ==
  [k \in RESTKinds \cup ChainKinds |->
     CASE k = "osmosis" -> Limits(2, 1, FALSE)
       [] k = "raydium" -> Limits(1, 2, FALSE)
       [] k \in {"coinbase", "geckoterminal", "polymarket"} -> Limits(1, 0, FALSE)
       [] OTHER -> Limits(1, 0, TRUE)]

(* In which order the nodes answer matters only where they share their     *)
(* results.                                                                *)
InOrderOfNodes(answers) ==
  \A e, f \in DOMAIN answers : e < f /\ answers[f] # NoAnswer => answers[e] # NoAnswer

(* Nodes that tell no height answer with the prices of the first block.    *)
Silent(a) == a.status = "ok" /\ a.height = 0
FirstBlock(answers) ==
  \A e \in DOMAIN answers : answers[e] # NoAnswer /\ Silent(answers[e]) =>
    \A price \in Range(answers[e].prices) : price # Bad /\ price[2] = 1

(* Where two requests run at a time, the second node never fails and is    *)
(* ahead of the first one, which may fail or lag; or neither tells its     *)
(* height, for one of the tickers. Nodes that are level, prices that do    *)
(* not parse, and a chain that stands still are left to the other fetchers.*)
FewAnswers(answers) ==
  /\ \A e \in DOMAIN answers : answers[e] # NoAnswer /\ answers[e].status = "ok" =>
       /\ Bad \notin Range(answers[e].prices)
       /\ Silent(answers[e]) => btc \in DOMAIN answers[e].prices
  /\ answers[1].height < Tip'
  /\ answers[2] # NoAnswer =>
       \/ answers[2].height > answers[1].height
       \/ Silent(answers[1]) /\ Silent(answers[2])

MCNext ==
  /\ Next
  /\ kind = "osmosis" => ~aged'
  /\ \A k \in Workers : task'[k].pc = "fetch" =>
       /\ kind \in ChainKinds => FirstBlock(task'[k].answers)
       /\ kind # "uniswap" => InOrderOfNodes(task'[k].answers)
       /\ kind = "osmosis" => FewAnswers(task'[k].answers)
MCSpec == Init /\ [][MCNext]_vars /\ Fairness
=============================================================================
