------------------------- MODULE MasterchainProofs -------------------------
(***************************************************************************)
(* What a capture believes of the liteservers it asks                      *)
(* (services/ton_liteclient_strict_proof.py, ton_liteclient_config.py,     *)
(* ton_transaction_inclusion_proof.py) and what a stored inclusion proof   *)
(* is said to show (wallet_transaction_inclusion_proof.py).                *)
(*                                                                         *)
(* A client starts from the pinned checkpoint and follows proof links: a   *)
(* forward link leaves a key block and carries signatures of its validator *)
(* set, a backward link is read from the state of its source.  The servers *)
(* may answer anything; the faulty validators may sign anything.  A block  *)
(* is its sequence number and whether it lies on the chain.                *)
(***************************************************************************)
EXTENDS Integers, Sequences, FiniteSets, FiniteSetsExt

CONSTANTS
  Height,        (* sequence numbers above the pinned checkpoint, which is 0 *)
  KeyBlocks,     (* of the chain, the checkpoint among them                 *)
  Nodes,         (* the validators of a key block of the chain              *)
  Weight(_),     (* of a validator                                          *)
  Faulty,        (* validators that sign anything                           *)
  MaxLinks       (* of one response, _MAX_PROOF_LINKS                       *)

Total(nodes) == FoldSet(LAMBDA n, w : w + Weight(n), 0, nodes)
TwoThirds(nodes) == 3 * Total(nodes) > 2 * Total(Nodes)

ASSUME ChainAssumption ==
  /\ Height \in Nat /\ MaxLinks \in Nat /\ 0 \in KeyBlocks /\ Faulty \subseteq Nodes
  /\ \A nodes \in SUBSET Faulty : ~TwoThirds(nodes)   (* they sign nothing alone *)

VARIABLES
  client,        (* the trust level, or "off" before the client is prepared *)
  trusted,       (* the block the client trusts                             *)
  lastKey,       (* client.last_key_block                                   *)
  walk,          (* the response under verification                         *)
  answer,        (* the last response that was accepted                     *)
  selected,      (* the block of the transaction that is being proved       *)
  stored         (* inclusion proofs                                        *)

proofVars == <<client, trusted, lastKey, walk, answer, selected, stored>>

Block(seqno, onChain) == [seqno |-> seqno, onChain |-> onChain]
Blocks == [seqno : 0..Height, onChain : BOOLEAN]
Checkpoint == Block(0, TRUE)
NoBlock == Block(-1, TRUE)

TrustLevels == {"proved", "unproved"}
Policies == {"current", "checkpoint_v1", "unpinned_v1"}
Proof(block, anchor, trust, policy) ==
  [block |-> block, anchor |-> anchor, trust |-> trust, policy |-> policy]

NoWalk == [target |-> NoBlock, at |-> NoBlock, links |-> 0, best |-> NoBlock]
NoAnswer == [from |-> NoBlock, target |-> NoBlock, head |-> NoBlock, complete |-> FALSE]

(* Earlier releases verified the links less strictly or not at all.         *)
LegacyProofs == [block : {Block(1, FALSE)}, anchor : {Block(1, FALSE)},
                 trust : TrustLevels, policy : Policies \ {"current"}]

ProofInit ==
  /\ client = "off" /\ trusted = NoBlock /\ lastKey = NoBlock
  /\ walk = NoWalk /\ answer = NoAnswer /\ selected = NoBlock
  /\ stored \in {{p} : p \in LegacyProofs} \cup {{}}

-----------------------------------------------------------------------------
(* verify_masterchain_proof_response, link by link.                         *)

SumOfWeights(signers) == FoldSet(LAMBDA i, w : w + Weight(signers[i]), 0, 1..Len(signers))
CountedTwice(signers) ==
  Len(signers) \in 1..Cardinality(Nodes) /\ 3 * SumOfWeights(signers) > 2 * Total(Nodes)

(* compute_masterchain_validator_set and _verify_unique_weighted_signatures:*)
(* known signers, each once, with more than two thirds of the weight.       *)
SignedByTwoThirds(signers) ==
  /\ Len(signers) \in 1..Cardinality(Nodes)
  /\ \A i, j \in 1..Len(signers) : i # j => signers[i] # signers[j]
  /\ TwoThirds({signers[i] : i \in 1..Len(signers)})

(* An honest validator signs no block off the chain, and a block off the    *)
(* chain may name validators of its own.                                    *)
SignaturesOf(source, destination) ==
  LET signers == IF destination.onChain \/ ~source.onChain THEN Nodes ELSE Faulty
  IN UNION {[1..n -> signers] : n \in 1..Cardinality(Nodes)}

IsKeyBlock(b, claimed) == IF b.onChain THEN b.seqno \in KeyBlocks ELSE claimed

(* _verify_forward_link.                                                    *)
ForwardLink(source, destination, toKeyBlock) ==
  /\ source.seqno < destination.seqno
  /\ IsKeyBlock(source, TRUE)
  /\ toKeyBlock = IsKeyBlock(destination, toKeyBlock)
  /\ \E signers \in SignaturesOf(source, destination) : SignedByTwoThirds(signers)

(* _verify_backward_link: the state of the source names the destination.    *)
BackwardLink(source, destination, toKeyBlock) ==
  /\ source.seqno > destination.seqno
  /\ source.onChain => destination.onChain
  /\ toKeyBlock = IsKeyBlock(destination, toKeyBlock)

Later(b, c) == IF c.seqno > b.seqno THEN c ELSE b
When(condition, b) == IF condition THEN b ELSE NoBlock

(* A request for a proof from the trusted block, to the selected block or   *)
(* to the newest one.                                                       *)
Ask ==
  /\ client = "proved" /\ walk = NoWalk /\ answer = NoAnswer
  /\ walk' = [NoWalk EXCEPT !.target = selected, !.at = trusted]
  /\ UNCHANGED <<client, trusted, lastKey, answer, selected, stored>>

(* One link that starts where the last one ended.                           *)
FollowLink ==
  /\ walk.at # NoBlock /\ walk.links < MaxLinks
  /\ \E destination \in Blocks, toKeyBlock, forward \in BOOLEAN :
       /\ IF forward THEN ForwardLink(walk.at, destination, toKeyBlock)
          ELSE BackwardLink(walk.at, destination, toKeyBlock)
       /\ LET seen == Later(When(forward, walk.at), When(toKeyBlock, destination)) IN
            /\ lastKey' = Later(lastKey, seen)
            /\ walk' = [walk EXCEPT !.at = destination, !.links = @ + 1,
                                    !.best = Later(@, seen)]
  /\ UNCHANGED <<client, trusted, answer, selected, stored>>

(* The end of the response: it advances, it says truly whether the target   *)
(* is reached, and an empty one claims nothing.                             *)
Coherent(complete) ==
  /\ walk.links > 0 => walk.at # trusted
  /\ walk.target # NoBlock =>
       /\ walk.target # trusted => walk.links > 0
       /\ complete = (walk.at = walk.target)

AcceptResponse ==
  /\ walk.at # NoBlock
  /\ \E complete \in BOOLEAN :
       /\ Coherent(complete)
       /\ answer' = [from |-> trusted, target |-> walk.target, head |-> walk.at,
                     complete |-> complete /\ (walk.target # NoBlock \/ walk.links > 0)]
  /\ walk' = NoWalk
  /\ UNCHANGED <<client, trusted, lastKey, selected, stored>>

(* Any check that fails ends the capture; what lastKey has seen stays.      *)
RejectResponse ==
  /\ walk.at # NoBlock /\ walk' = NoWalk
  /\ UNCHANGED <<client, trusted, lastKey, answer, selected, stored>>

-----------------------------------------------------------------------------
(* A capture.                                                               *)

(* prepare_pinned_liteclient: the official configuration belongs to the     *)
(* network and its trust root is replaced by the pinned checkpoint.  A      *)
(* client that proves nothing takes the newest block as it is told.         *)
Prepare ==
  /\ client = "off"
  /\ \/ client' = "proved" /\ trusted' = Checkpoint
     \/ client' = "unproved" /\ trusted' \in Blocks
  /\ lastKey' = When(client' = "proved", Checkpoint)
  /\ UNCHANGED <<walk, answer, selected, stored>>

(* start_up follows the responses until one is complete.                    *)
StartUp ==
  /\ answer # NoAnswer /\ selected = NoBlock
  /\ trusted' = answer.head /\ answer' = NoAnswer
  /\ UNCHANGED <<client, lastKey, walk, selected, stored>>

(* _capture_one: the server names the block of the transaction and proves   *)
(* that the block holds it; whether the chain holds the block is open.      *)
LocateTransaction ==
  /\ client # "off" /\ selected = NoBlock /\ walk = NoWalk /\ answer = NoAnswer
  /\ selected' \in Blocks
  /\ UNCHANGED <<client, trusted, lastKey, walk, answer, stored>>

(* prove_block must reach the block, and the result names the pinned        *)
(* checkpoint and the current policy before it is stored.                   *)
StoreProof ==
  /\ selected # NoBlock /\ walk = NoWalk
  /\ \A p \in stored : p.policy # "current"   (* one capture is followed *)
  /\ client = "proved" => answer.complete
  /\ stored' = stored \cup {Proof(selected, trusted, client, "current")}
  /\ client' = "off" /\ trusted' = NoBlock /\ lastKey' = NoBlock
  /\ answer' = NoAnswer /\ selected' = NoBlock /\ UNCHANGED walk

(* The capture ends without a proof.                                        *)
GiveUp ==
  /\ client # "off"
  /\ client' = "off" /\ trusted' = NoBlock /\ lastKey' = NoBlock
  /\ walk' = NoWalk /\ answer' = NoAnswer /\ selected' = NoBlock /\ UNCHANGED stored

ProofNext ==
  \/ Prepare \/ Ask \/ FollowLink \/ AcceptResponse \/ RejectResponse \/ StartUp
  \/ LocateTransaction \/ StoreProof \/ GiveUp

ProofSpec == ProofInit /\ [][ProofNext]_proofVars

CanonicalByTrust(proof) == proof.trust = "proved"

(* _proof_response: canonical_block_chain_verified_at_capture.              *)
Canonical(proof) == proof.trust = "proved" /\ proof.policy = "current"

-----------------------------------------------------------------------------
(* Whatever the liteservers answer and a minority of validators signs, a    *)
(* proving client trusts only blocks of the chain, and takes only its key   *)
(* blocks for key blocks, also after a response it rejects half-way.  An    *)
(* accepted response has advanced, and one that calls itself complete ends  *)
(* at its target: a capture is neither kept in place nor made to take       *)
(* another block for the one it selected.                                   *)
TrustAdvancesOnTheChain ==
  /\ client = "proved" =>
       /\ \A b \in {trusted, walk.at, walk.best, lastKey, answer.head} : b.onChain
       /\ \A b \in {walk.best, lastKey} : b = NoBlock \/ b.seqno \in KeyBlocks
  /\ answer # NoAnswer /\ answer.target # NoBlock =>
       /\ answer.target # answer.from => answer.head # answer.from
       /\ answer.complete => answer.head = answer.target

(* A proof presented as verified against the canonical chain names a block  *)
(* of the chain under an anchor of the chain; proofs of earlier policies    *)
(* and of clients that proved nothing are never presented so.               *)
CanonicalProofsAreOnTheChain ==
  \A p \in stored : Canonical(p) => p.block.onChain /\ p.anchor.onChain
=============================================================================
