----------------------------- MODULE OracleABCI -----------------------------
(***************************************************************************)
(* The ABCI++ handlers of abci/ around the x/oracle keeper, block by       *)
(* block: PrepareProposal injects the previous height's vote extensions,   *)
(* ProcessProposal validates them, ExtendVote and VerifyVoteExtension make *)
(* the next ones, and FinalizeBlock writes the aggregated prices (PreBlock),*)
(* resets the removal counter (BeginBlock) and runs the messages.          *)
(*                                                                         *)
(* The application state is the same on every node at a height, so it is   *)
(* kept once; the validators differ in the votes they have seen and in     *)
(* what their oracle answers. Up to a third of the power is Byzantine.     *)
(* CometBFT (external) is modelled by what it calls and guarantees.        *)
(***************************************************************************)
EXTENDS OracleKeeper, VoteWeighted

CONSTANTS
  Validator,      \* the validator set, fixed
  Byzantine,      \* the validators that may vote and propose anything signed
  Power,          \* voting power and bonded tokens
  Proposers,      \* the rotation of proposers, a sequence
  FairPrices,     \* pair -> the prices an honest oracle may report for it
  AnswerSets,     \* the sets of pairs it may have prices for
  ByzExtensions,  \* the vote extensions a Byzantine validator may sign
  Malformed,      \* bytes that no codec decodes
  Missing,        \* a block without transactions: nothing was injected
  BadPrice,       \* price bytes that do not decode, or to a negative price
  LongPrice,      \* price bytes longer than MaximumPriceSize
  NoVote, NoProposal,
  EnableHeight,   \* consensus parameter VoteExtensionsEnableHeight
  MaxTxBytes,     \* block space, in prices
  MaxHeight,      \* bound: blocks
  MaxRound        \* bound: rounds of a height

(* Vote extensions: Malformed, or what the bytes decode to, a function     *)
(* from ids to prices. No bytes decode to no prices, with and without      *)
(* compression.                                                            *)
NoVE == <<>>
VoteExtension ==
  {NoVE, Malformed} \cup ByzExtensions \cup UNION {[ids -> Price] : ids \in SUBSET (0..MaxID)}

(* CometBFT's extended commit, by validator.                               *)
ExtendedCommitInfo ==
  [Validator -> [flag : {"commit", "absent"}, ve : VoteExtension, sig : BOOLEAN]]
Proposal == [lastCommit : SUBSET Validator, info : ExtendedCommitInfo \cup {Missing, Malformed}]

(* Less than a third of the power is Byzantine, by two units of it: with   *)
(* one unit per validator a third of the reported weight would be as much  *)
(* as the rounded middle, and set the median.                              *)
ASSUME ABCIConstants ==
  /\ IsFiniteSet(Validator) /\ Byzantine \subseteq Validator
  /\ Power \in [Validator -> Nat]
  /\ 3 * Weight(Power, Byzantine) + 2 <= Weight(Power, Validator)
  /\ EnableHeight \in Nat /\ MaxHeight \in Nat /\ MaxRound \in Nat /\ MaxTxBytes \in Nat
  /\ AnswerSets \subseteq SUBSET CurrencyPair
  /\ Price \subseteq Int
  /\ \A cp \in CurrencyPair : FairPrices[cp] \subseteq Price
  /\ \A ve \in ByzExtensions \ {Malformed} :
       /\ IsFiniteSet(DOMAIN ve)
       /\ \A id \in DOMAIN ve : ve[id] \in Int \cup {BadPrice, LongPrice}
  /\ LongPrice \notin Price
  /\ Malformed # <<>> /\ \A ids \in SUBSET (0..MaxID) : Malformed \notin [ids -> Price]
  /\ Missing \notin ExtendedCommitInfo /\ Malformed \notin ExtendedCommitInfo
  /\ NoProposal \notin Proposal

VARIABLES
  height,        \* the last committed height; height + 1 is being decided
  phase,         \* "propose", "process", "vote", "preblock", "begin" or "txs"
  round,
  proposal,      \* what the proposer of the round sent, or NoProposal
  votes,         \* precommits of this height: a vote extension, or NoVote
  verified,      \* the precommits VerifyVoteExtension accepted
  lastVotes, lastVerified   \* the same of the previous height

consensusVars == <<height, phase, round, proposal, votes, verified, lastVotes, lastVerified>>
vars == <<keeperVars, consensusVars>>

Honest == Validator \ Byzantine
Proposer == Proposers[((height + round) % Len(Proposers)) + 1]
Quorum(S) == Weight(Power, S) >= (2 * Weight(Power, Validator)) \div 3 + 1

(* VoteExtensionsEnabled for a context at height h: extensions made at the *)
(* enable height are injected one block later, and never in the first.     *)
VoteExtensionsEnabled(h) == EnableHeight # 0 /\ h > 1 /\ EnableHeight < h

-----------------------------------------------------------------------------
Decodes(ve) == ve # Malformed

(* Faulty variant of the next operator: removals are not counted back.     *)
GetMaxNumCPNow(proposing) == numCPs

(* GetMaxNumCP: a proposal carries votes made before the last block's      *)
(* removals.                                                               *)
GetMaxNumCP(proposing) == IF proposing THEN numCPs + numRemoves ELSE numCPs

(* Faulty variant: the limit itself is refused.                            *)
ValidateStrict(ve, proposing) ==
  /\ Cardinality(DOMAIN ve) < GetMaxNumCP(proposing)
  /\ \A id \in DOMAIN ve : ve[id] # LongPrice

ValidateOracleVoteExtension(ve, proposing) ==
  /\ Cardinality(DOMAIN ve) <= GetMaxNumCP(proposing)
  /\ \A id \in DOMAIN ve : ve[id] # LongPrice

(* VerifyVoteExtension: empty is accepted, anything else must decode and   *)
(* carry no more prices than there are pairs.                              *)
VerifyVoteExtension(ve) ==
  \/ ve = NoVE
  \/ Decodes(ve) /\ ValidateOracleVoteExtension(ve, FALSE)

(* GetOracleVotes fails on a block without decodable vote extensions: the  *)
(* block itself fails with it, or an honest vote extension for it is empty. *)
VotesDecode(info) ==
  /\ info \notin {Missing, Malformed}
  /\ \A v \in Validator : Decodes(info[v].ve)

(* An honest vote extension: what the oracle answered in time for the      *)
(* pairs in S, each tracked pair under its id; a pair without an id is     *)
(* skipped. The prices of the block under vote are applied first, in a     *)
(* branch of the state: a block that carries no vote extensions, as before *)
(* and at the enable height, makes that fail and the extension empty.      *)
Extension(answer) ==
  IF VotesDecode(proposal.info)
  THEN [id \in {currencyPairs[cp].id : cp \in DOMAIN answer \cap Tracked} |->
          answer[CHOOSE cp \in DOMAIN answer \cap Tracked : currencyPairs[cp].id = id]]
  ELSE NoVE

(* Sets of prices the oracle may answer with; none when it is down, late   *)
(* or sends something that cannot be parsed. The handler does not look at  *)
(* the length of a price: that an honest oracle's fit MaximumPriceSize is  *)
(* assumed.                                                                *)
Answers == UNION {{f \in [S -> Price] : \A cp \in S : f[cp] \in FairPrices[cp]} :
                    S \in AnswerSets}

-----------------------------------------------------------------------------
(* The extended commit a proposer holds for the last height: the votes of  *)
(* the validators in S, the others absent.                                 *)
Signed(ve) == [flag |-> "commit", ve |-> ve, sig |-> TRUE]
Absent == [flag |-> "absent", ve |-> NoVE, sig |-> FALSE]
LocalLastCommit(S) == [v \in Validator |-> IF v \in S THEN Signed(lastVotes[v]) ELSE Absent]

(* validateVoteExtension of abci/proposals: nothing there, or decodable    *)
(* and not too large.                                                      *)
ValidVote(vote) ==
  \/ vote.ve = NoVE /\ ~vote.sig
  \/ Decodes(vote.ve) /\ ValidateOracleVoteExtension(vote.ve, TRUE)

(* Faulty variants of the next operator: the pruned vote keeps its flag    *)
(* and its signature; nothing is pruned.                                   *)
PrunedHalf(vote) == IF ValidVote(vote) THEN vote ELSE [vote EXCEPT !.ve = NoVE]
PrunedNever(vote) == vote

(* An invalid vote is replaced by an absent one.                           *)
Pruned(vote) == IF ValidVote(vote) THEN vote ELSE Absent

PruneExtendedCommitInfo(info) == [v \in Validator |-> Pruned(info[v])]

(* ValidateVoteExtensions: flags agree with the block's last commit except *)
(* where a vote was pruned, a signature is there exactly for commit votes  *)
(* and verifies (nobody signs for another), and the commit votes weigh     *)
(* more than two thirds. The validator set is fixed: every public key is   *)
(* found. (A signature without a key would not be looked at.)              *)
ValidateVoteExtensions(info, lastCommit) ==
  /\ \A v \in Validator :
       /\ info[v] # Absent => (info[v].flag = "commit" <=> v \in lastCommit)
       /\ info[v].flag = "commit" => info[v].sig /\ info[v].ve = lastVotes[v]
       /\ info[v].flag # "commit" => info[v].ve = NoVE /\ ~info[v].sig
  /\ Quorum({v \in Validator : info[v].flag = "commit"})

(* The size of the encoded info, in prices.                                *)
Size(info) ==
  SumFunction([v \in Validator |->
                 IF Decodes(info[v].ve) THEN Cardinality(DOMAIN info[v].ve) ELSE 1])

(* What PrepareProposal makes of the votes of S, if it does not fail.      *)
PreparedInfo(S) == PruneExtendedCommitInfo(LocalLastCommit(S))
PrepareSucceeds(S) ==
  VoteExtensionsEnabled(height + 1) =>
    /\ ValidateVoteExtensions(PreparedInfo(S), S)
    /\ Size(PreparedInfo(S)) <= MaxTxBytes

(* CometBFT hands a proposer the extended commit it has seen: more than    *)
(* two thirds of it verified on arrival, late votes on top unverified.     *)
Seen == IF height = 0 THEN {{}}
        ELSE {S \in SUBSET {v \in Validator : lastVotes[v] # NoVote} :
                Quorum(S \cap lastVerified)}

(* PrepareProposal injects the info as the first transaction.              *)
PrepareProposal(S) ==
  /\ phase = "propose" /\ height < MaxHeight
  /\ Proposer \in Honest /\ S \in Seen
  /\ PrepareSucceeds(S)
  /\ proposal' = [lastCommit |-> S,
                  info |-> IF VoteExtensionsEnabled(height + 1) THEN PreparedInfo(S) ELSE Missing]
  /\ phase' = "process"
  /\ UNCHANGED <<keeperVars, height, round, votes, verified, lastVotes, lastVerified>>

(* A Byzantine proposer: nothing injected, bytes that do not decode, or    *)
(* signed votes without pruning, of any validators, under any last commit. *)
ByzantineProposal(S, T) ==
  /\ phase = "propose" /\ height < MaxHeight
  /\ Proposer \in Byzantine
  /\ S \in Seen /\ T \subseteq {v \in Validator : lastVotes[v] # NoVote}
  /\ \E info \in {Missing, Malformed, LocalLastCommit(T)} :
       proposal' = [lastCommit |-> S, info |-> info]
  /\ phase' = "process"
  /\ UNCHANGED <<keeperVars, height, round, votes, verified, lastVotes, lastVerified>>

(* Faulty variant: the oracle's part of the extensions is not validated.   *)
AcceptsSigned(prop) ==
  VoteExtensionsEnabled(height + 1) =>
    /\ prop.info \notin {Missing, Malformed}
    /\ ValidateVoteExtensions(prop.info, prop.lastCommit)

(* ProcessProposal's checks.                                               *)
Accepts(prop) ==
  VoteExtensionsEnabled(height + 1) =>
    /\ prop.info \notin {Missing, Malformed}
    /\ ValidateVoteExtensions(prop.info, prop.lastCommit)
    /\ \A v \in Validator : ValidVote(prop.info[v])

(* Every honest validator evaluates the same checks on the same state, so  *)
(* all accept or all reject. The votes it carries are then no longer       *)
(* needed elsewhere.                                                       *)
ProcessProposal ==
  /\ phase = "process" /\ Accepts(proposal)
  /\ phase' = "vote"
  /\ lastVotes' = [v \in Validator |-> NoVote] /\ lastVerified' = {}
  /\ UNCHANGED <<keeperVars, height, round, proposal, votes, verified>>

(* A proposer that sends nothing, whose PrepareProposal fails or whose     *)
(* proposal is rejected costs a round.                                     *)
NextRound ==
  /\ round < MaxRound /\ height < MaxHeight
  /\ \/ phase = "propose" /\ Proposer \in Byzantine
     \/ /\ phase = "propose" /\ Proposer \in Honest
        /\ \E S \in Seen : ~PrepareSucceeds(S)
     \/ phase = "process" /\ ~Accepts(proposal)
  /\ round' = round + 1
  /\ phase' = "propose"
  /\ proposal' = NoProposal
  /\ UNCHANGED <<keeperVars, height, votes, verified, lastVotes, lastVerified>>

(* ExtendVote for the accepted proposal. CometBFT asks for an extension    *)
(* from the enable height on.                                              *)
ExtendVote(v) ==
  /\ phase = "vote" /\ votes[v] = NoVote
  /\ IF height + 1 < EnableHeight \/ EnableHeight = 0
     THEN votes' = [votes EXCEPT ![v] = NoVE]
     ELSE \/ /\ v \in Honest
             /\ \E answer \in Answers : votes' = [votes EXCEPT ![v] = Extension(answer)]
          \/ /\ v \in Byzantine
             /\ \E ve \in ByzExtensions : votes' = [votes EXCEPT ![v] = ve]
  /\ UNCHANGED <<keeperVars, height, phase, round, proposal, verified, lastVotes, lastVerified>>

(* The precommits that count: those whose extension the peers verified.    *)
Counted == {v \in Validator : votes[v] # NoVote /\ VerifyVoteExtension(votes[v])}

Decide ==
  /\ phase = "vote" /\ Quorum(Counted)
  /\ verified' = Counted
  /\ phase' = "preblock"
  /\ UNCHANGED <<keeperVars, height, round, proposal, votes, lastVotes, lastVerified>>

-----------------------------------------------------------------------------
(* FinalizeBlock. The reports for a pair: every vote with a price under    *)
(* its id that decodes; ids without a pair are skipped.                    *)
Reports(info, cp) ==
  [v \in {u \in Validator :
            /\ currencyPairs[cp].id \in DOMAIN info[u].ve
            /\ info[u].ve[currencyPairs[cp].id] \notin {BadPrice, LongPrice}} |->
     info[v].ve[currencyPairs[cp].id]]

Priced(info) ==
  {cp \in Tracked : /\ DOMAIN Reports(info, cp) # {}
                    /\ ThresholdMet(Power, DOMAIN Reports(info, cp))}

AggregateOracleVotes(info) ==
  [cp \in Priced(info) |-> ComputeMedian(Power, Reports(info, cp))]

(* The prices the applier's loop writes: one that is negative, hence no    *)
(* quote price, is skipped.                                                *)
Written(prices) == [cp \in {c \in DOMAIN prices : prices[c] \in Price} |-> prices[cp]]

PreBlocker ==
  /\ phase = "preblock"
  /\ IF VoteExtensionsEnabled(height + 1)
     THEN /\ VotesDecode(proposal.info)
          /\ ApplyPrices(Written(AggregateOracleVotes(proposal.info)))
     ELSE UNCHANGED keeperVars
  /\ phase' = "begin" /\ proposal' = NoProposal
  /\ lastVotes' = votes /\ lastVerified' = verified
  /\ votes' = [v \in Validator |-> NoVote] /\ verified' = {}
  /\ UNCHANGED <<height, round>>

BeginBlock ==
  /\ phase = "begin"
  /\ BeginBlocker
  /\ phase' = "txs"
  /\ UNCHANGED <<height, round, proposal, votes, verified, lastVotes, lastVerified>>

DeliverTx ==
  /\ phase = "txs"
  /\ \E msg \in Messages : AddCurrencyPairs(msg) \/ RemoveCurrencyPairs(msg)
  /\ UNCHANGED consensusVars

Commit ==
  /\ phase = "txs"
  /\ height' = height + 1
  /\ phase' = "propose" /\ round' = 0
  /\ UNCHANGED <<keeperVars, proposal, votes, verified, lastVotes, lastVerified>>

(* A bound is reached: the blocks, or the rounds of this block.            *)
Finished == (height = MaxHeight \/ round = MaxRound) /\ UNCHANGED vars

-----------------------------------------------------------------------------
Init ==
  /\ InitGenesis
  /\ \A cp \in Tracked : currencyPairs[cp].price = NilPrice
  /\ height = 0 /\ phase = "propose" /\ round = 0 /\ proposal = NoProposal
  /\ votes = [v \in Validator |-> NoVote] /\ verified = {}
  /\ lastVotes = [v \in Validator |-> NoVote] /\ lastVerified = {}

Next ==
  \/ \E S \in Seen : PrepareProposal(S)
  \/ \E S \in Seen, T \in SUBSET Validator : ByzantineProposal(S, T)
  \/ ProcessProposal
  \/ NextRound
  \/ \E v \in Validator : ExtendVote(v)
  \/ Decide
  \/ PreBlocker
  \/ BeginBlock
  \/ DeliverTx
  \/ Commit
  \/ Finished

(* Consensus and execution go on: the honest validators and the engine     *)
(* take their steps, and the proposal timeout ends a round whose proposer  *)
(* sends nothing. Nothing is assumed of Byzantine validators.              *)
Fairness ==
  /\ WF_vars(\E S \in Seen : PrepareProposal(S))
  /\ WF_vars(ProcessProposal)
  /\ WF_vars(NextRound)
  /\ \A v \in Honest : WF_vars(ExtendVote(v))
  /\ WF_vars(Decide)
  /\ WF_vars(PreBlocker)
  /\ WF_vars(BeginBlock)
  /\ WF_vars(Commit)

Spec == Init /\ [][Next]_vars

-----------------------------------------------------------------------------
(* Properties.                                                             *)

(* Type: the keeper's, and the shape of the consensus state.               *)
ABCITypeOK ==
  /\ KeeperTypeOK
  /\ height \in 0..MaxHeight /\ round \in 0..MaxRound
  /\ phase \in {"propose", "process", "vote", "preblock", "begin", "txs"}
  /\ votes \in [Validator -> VoteExtension \cup {NoVote}]
  /\ lastVotes \in [Validator -> VoteExtension \cup {NoVote}]
  /\ verified \subseteq Validator /\ lastVerified \subseteq Validator
  /\ IF phase \in {"process", "vote", "preblock"}
     THEN proposal \in Proposal
     ELSE proposal = NoProposal

(* A vote extension that VerifyVoteExtension accepted before the block's   *)
(* removals is still valid for the next PrepareProposal and                *)
(* ProcessProposal: numRemoves makes up for the pairs that went.           *)
VerifiedVotesSurvive ==
  phase = "propose" /\ VoteExtensionsEnabled(height + 1) =>
    \A v \in lastVerified : ValidVote(Signed(lastVotes[v]))

(* PrepareProposal of an honest proposer succeeds whatever late, malformed *)
(* or oversized votes are in its extended commit: they are pruned and the  *)
(* rest is still more than two thirds. Only a block without room for the   *)
(* votes stops it.                                                         *)
HonestProposerSucceeds ==
  phase = "propose" /\ Proposer \in Honest =>
    \A S \in Seen : PrepareSucceeds(S) \/ Size(PreparedInfo(S)) > MaxTxBytes

(* What an honest proposer injected passes everyone's ProcessProposal.     *)
HonestProposalAccepted ==
  phase = "process" /\ Proposer \in Honest => Accepts(proposal)

(* The peers' VerifyVoteExtension accepts what an honest ExtendVote made.  *)
HonestVotesVerified ==
  phase = "vote" => \A v \in Honest : votes[v] # NoVote => VerifyVoteExtension(votes[v])

(* A block that was decided can be executed: PreBlock decodes every vote   *)
(* extension in it. A failure here halts the chain.                        *)
DecidedBlockExecutes ==
  phase = "preblock" /\ VoteExtensionsEnabled(height + 1) => VotesDecode(proposal.info)

(* A stored price lies within what honest oracles report for that pair, no *)
(* matter what a third of the power signs, who proposes, and which pairs   *)
(* were removed and added again while votes with their ids were in flight. *)
PricesFair ==
  \A cp \in Tracked : currencyPairs[cp].price # NilPrice =>
    \E low, high \in FairPrices[cp] :
      low <= currencyPairs[cp].price /\ currencyPairs[cp].price <= high

(* The chain goes on: every height up to the bound is committed, unless a  *)
(* proposer is given more votes than fit into a block.                     *)
NoRoom ==
  /\ phase = "propose" /\ VoteExtensionsEnabled(height + 1) /\ Proposer \in Honest
  /\ \E S \in Seen : Size(PreparedInfo(S)) > MaxTxBytes
ChainProgress == <>(height = MaxHeight \/ NoRoom)
=============================================================================
