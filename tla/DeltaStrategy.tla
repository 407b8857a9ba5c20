--------------------------- MODULE DeltaStrategy ---------------------------
(***************************************************************************)
(* The delta strategy, which the integration guide recommends: a vote      *)
(* extension carries the difference between the oracle's price and the     *)
(* price on chain, and is decoded one block later against the price on     *)
(* chain then. ExtendVote first applies the prices of the proposal it      *)
(* votes for, since those are on chain when its extension is decoded.      *)
(*                                                                         *)
(* The strategy object of the vote extension handler caches the price on   *)
(* chain by height. Those of the price applier and of the pre-block        *)
(* handler are objects of their own, as the guide asks; they cache the     *)
(* price of the last block, which is the same for all rounds of a height,  *)
(* so their caches are left out.                                           *)
(*                                                                         *)
(* Consensus is external: a proposal needs the prevotes of more than two   *)
(* thirds, a validator that precommits a proposal is locked on it, and a   *)
(* round may end without a decision. One pair, honest validators only; 0   *)
(* is the base of a pair without a price.                                  *)
(***************************************************************************)
EXTENDS VoteWeighted

CONSTANTS
  Validator,
  Power,
  Prices,      \* what the oracles report
  NoVote, NoProposal, NotCached,
  MaxHeight,   \* bound: blocks
  MaxRound     \* bound: rounds of a height

VARIABLES
  height, round,
  onChain,     \* the price of the last block
  proposal,    \* the validators whose votes the proposal carries, or NoProposal
  votes,       \* the extensions of this round, with the price they stand for
  lastVotes,   \* those of the last block
  locked,      \* the proposal a validator is locked on
  cache        \* DeltaCurrencyPairStrategy.cache of the vote extension handler

vars == <<height, round, onChain, proposal, votes, lastVotes, locked, cache>>

Quorum(S) == 3 * Weight(Power, S) > 2 * Weight(Power, Validator)
Voted(ballots) == {v \in Validator : ballots[v] # NoVote}
Nobody(x) == [v \in Validator |-> x]

(* GetDecodedPrice; a price below zero does not decode.                    *)
GetDecodedPrice(delta) == onChain + delta
Decodable(S) == {v \in S : GetDecodedPrice(lastVotes[v].delta) >= 0}

(* The price after the votes of S are applied.                             *)
Applied(S) ==
  LET reports == [v \in Decodable(S) |-> GetDecodedPrice(lastVotes[v].delta)]
  IN  IF Decodable(S) # {} /\ ThresholdMet(Power, Decodable(S))
      THEN ComputeMedian(Power, reports) ELSE onChain

(* getOnChainPrice, after ExtendVote has applied the proposal: the price   *)
(* that was cached at this height, or else the one the proposal leads to.  *)
GetOnChainPrice(v) == IF cache[v] # NotCached THEN cache[v] ELSE Applied(proposal)

GetEncodedPrice(v, price) == price - GetOnChainPrice(v)

-----------------------------------------------------------------------------
Propose ==
  /\ proposal = NoProposal /\ height < MaxHeight
  /\ \E S \in SUBSET Voted(lastVotes) :
       /\ height > 0 => Quorum(S)
       /\ proposal' = S
  /\ UNCHANGED <<height, round, onChain, votes, lastVotes, locked, cache>>

(* A validator that has seen the prevotes precommits, with an extension.   *)
ExtendVote(v) ==
  /\ proposal # NoProposal /\ votes[v] = NoVote
  /\ Quorum({u \in Validator : locked[u] \in {NoProposal, proposal}})
  /\ \E price \in Prices :
       votes' = [votes EXCEPT ![v] = [delta |-> GetEncodedPrice(v, price), price |-> price]]
  /\ cache' = [cache EXCEPT ![v] = GetOnChainPrice(v)]
  /\ locked' = [locked EXCEPT ![v] = proposal]
  /\ UNCHANGED <<height, round, onChain, proposal, lastVotes>>

NextRound ==
  /\ proposal # NoProposal /\ round < MaxRound /\ ~Quorum(Voted(votes))
  /\ round' = round + 1
  /\ proposal' = NoProposal /\ votes' = Nobody(NoVote)
  /\ UNCHANGED <<height, onChain, lastVotes, locked, cache>>

(* The decided block applies its prices. The next height finds the cache   *)
(* to be of another.                                                       *)
Commit ==
  /\ proposal # NoProposal /\ Quorum(Voted(votes))
  /\ onChain' = Applied(proposal)
  /\ lastVotes' = votes
  /\ height' = height + 1 /\ round' = 0
  /\ proposal' = NoProposal /\ votes' = Nobody(NoVote)
  /\ locked' = Nobody(NoProposal) /\ cache' = Nobody(NotCached)

-----------------------------------------------------------------------------
Init ==
  /\ height = 0 /\ round = 0 /\ onChain = 0
  /\ proposal = NoProposal
  /\ votes = Nobody(NoVote) /\ lastVotes = Nobody(NoVote)
  /\ locked = Nobody(NoProposal) /\ cache = Nobody(NotCached)

Next == Propose \/ (\E v \in Validator : ExtendVote(v)) \/ NextRound \/ Commit

Spec == Init /\ [][Next]_vars

-----------------------------------------------------------------------------
(* "Before a price is encoded, it is first converted to a delta price by   *)
(* subtracting the current on-chain price with the given price", and the   *)
(* delta is "added to the current on-chain price to get the final price"   *)
(* (delta.go): what GetDecodedPrice makes of the extension of a committed  *)
(* vote is the price the validator's oracle reported.                      *)
DeltaRoundTrips ==
  \A v \in Voted(lastVotes) : GetDecodedPrice(lastVotes[v].delta) = lastVotes[v].price
=============================================================================
