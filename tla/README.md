# FlashOrder: specifications, model checking and proofs

FlashOrder orders transactions fairly on top of chained HotStuff.  This
directory holds TLA+ models of it, the TLC instances that check them, and
TLAPS proofs of what matters most.  Source paths below are relative to the
repository; `consensus.cpp` without a directory is
`flashorder/src/consensus.cpp`, and likewise for the other files of
`flashorder/src` and `flashorder/include/hotstuff`.

## 1. The system

The repository holds four programs of one layout: `flashorder` (the system),
`libhotstuff` (the baseline it derives from), `themis` and `rashnu` (two other
fair-ordering systems used for comparison).  Each vendors `salticidae`
(network, event loop, promises) and `secp256k1`.

A run has n replicas, each one process with one event loop.  Clients send
every command to every replica.  A replica notes the order in which commands
reach it; when it has `blk_size` of them it sends this *local order* to the
leader.  When the leader has the local orders of `nmajority` replicas it
merges them into one order (`HyperGraph`), puts the result in a block and
proposes it.  From there chained HotStuff takes over: replicas vote, votes
become quorum certificates (QCs), three QCs in a row of direct parents commit
a block, its commands are executed on a SmallBank state and the client is
answered.

| Component | State | Operations | What makes it correct |
|---|---|---|---|
| HotStuff core (`consensus.cpp`) | `hqc`, `b_lock`, `b_exec`, `vheight`, `tails`; per block `delivered`, `decision`, `voted`, `self_qc` | `on_deliver_blk`, `on_propose`, `update`, `on_receive_proposal`, `on_receive_vote` | one ledger; an executed block is final; one QC per height; the exceptions are unreachable (the first, the second and the last as long as QCs keep to their blocks' branches) |
| Parent selection (`PMHighTail`, `liveness.h`) | `hqc_tail` | callbacks of hqc updates, own and received proposals; `get_parents` | the parent follows the highest QC; a lone proposer never proposes below its own votes |
| Fixed proposer (`PMWaitQC`, `PaceMakerDummyFixed`; the default) | `pending_beats`, `locked`, `last_proposed`, `pm_qc_finish` | `beat`, `schedule_next`, `update_last_proposed` | each block certifies its parent; no beat is lost; what is proposed is executed |
| Round robin (`PMRoundRobinProposer`, `PaceMakerRR`) | `proposer`, `rotating`, `prop_blk`, timers, `pending_beats` | `rotate`, `on_exp_timeout`, `do_new_consensus`, `on_consensus`, `stop_rotate`, `impeach` | rotation ends; a new proposer can propose; beats are not taken twice |
| Fetch and delivery (`hotstuff.cpp`) | `blk_fetch_waiting`, `blk_delivery_waiting`, timers | `async_fetch_blk`, `async_deliver_blk`, `on_fetch_blk`, `on_deliver_blk`, request and response handlers | parents first; everything asked for is delivered once |
| Pipeline (`consensus.cpp`, `hotstuff.cpp`, `EntityStorage`) | `cmd_pending`, `local_order_buffer`, `decision_waiting`, `ordered_list_cache`, proposed and seen caches | `exec_command`, the `cmd_pending` handler, `on_local_order`, `on_receive_local_order`, `flashorder_propose`, `do_decide` | a command is proposed and executed once; none is lost; the client is answered |
| HyperGraph (`flashorder.h`) | per round | `finalize` | a permutation of the round's commands that respects what enough replicas agree on |
| Application and client (`examples/`) | `decision_waiting`, outstanding window, balances | request and reply handlers, `state_machine_execute` | equal states on equal ledgers; balances do not wrap around |

Interaction.  All handlers of a replica run to completion on its event loop.
Promises resolve synchronously, so a callback runs *inside* the handler that
resolves it: `update_hqc` runs `PMHighTail`'s callback, the vote that completes
a QC runs `PMWaitQC`'s, and through it `on_propose`.  An exception in a
handler is not caught and stops the replica.  Replicas share nothing but
messages; messages of different peers arrive in no particular order.

What is hard here: proposals of one chain and of rival branches handled in any
order; `update`'s early returns between its writes to four variables; the
partial failure of `on_propose`, which throws after it has stored, delivered
and processed its block; `hqc_tail` kept apart from `hqc`; a QC that
completes, with a vote or in a proposal, inside a handler while a beat waits for
it; blocks of faulty proposers, of which little is checked; several caches that decide whether a
command is ordered again.  `PROJECT.json` lists these hazards at their lines.

## 2. Modules

| Module | Models |
|---|---|
| `BlockTree` | Blocks and their immutable links: `parents[0]`, `qc_ref`, `height`, ancestors |
| `Ledger` | Abstract: every replica executes stretches of one growing chain |
| `HotStuffCore` | `consensus.cpp`: delivery, proposing, voting, QCs, lock, commit |
| `PMHighTail` | The core driven by `PMHighTail` |
| `PaceMakerDummyFixed` | The above with one proposer that waits for its QCs; fairness, liveness |
| `PaceMakerRR` | `PMHighTail` with the rotating proposer: timers, rotations, beats, new consensus |
| `BeatChain` | Abstract: what the pipeline uses of consensus under the fixed proposer |
| `FlashOrderPipeline` | A command from the request to the local order, the round, the block, the answer |
| `HyperGraph` | `finalize`: the order of one round |
| `BlockDelivery` | Fetching, verifying and delivering blocks |
| `Client`, `SmallBank` | The benchmark client; the state machine |
| `BlockTree_proofs`, `HotStuffCore_proofs` (with `PMHighTail`), `PaceMakerDummyFixed_proofs`, `PaceMakerRR_proofs`, `FlashOrderPipeline_proofs`, `HyperGraph_proofs`, `BlockDelivery_proofs`, `Client_proofs` | Lemmas and theorems |
| `MC...` | Instances for TLC |

How they fit together.  `Client` and the handlers of `FlashOrderPipeline` stand
for the application; `HyperGraph` orders what `FlashOrderPipeline` puts into a
block, and `EachOnce` is all the pipeline uses of it; the pipeline implements
the upper side of `BeatChain` (`BeatsSpec`) and `PaceMakerDummyFixed` the lower
one (`BeatChainSpec`), so that it may be read with either pacemaker state or
`BeatChain` below it; both pacemakers implement `PMHighTail`, `PMHighTail` the
core, the core `Ledger`; `BlockDelivery` establishes what
`HotStuffCore!on_deliver_blk` is guarded by (`DeliveredIsSound`).

### How the models correspond to the code

*Blocks.*  A block is named by its hash, so its parent, QC and height never
change.  They are constant functions on the constant set `Block`, the tree of
all blocks anybody may create; `proposed` and `delivered` say which exist and
where.  `chain[b]` is what the loops along `parents[0]` walk.  Two assumptions
state what is used of the tree: `TreeType`, and `TreeLinks` (a block contains the
hash of its parent, so chains are finite and without cycles).  Nothing is assumed
of `qc_ref`: a block whose QC lies on its own branch is `Justified`, and a faulty
proposer's need not be.

*The premise `QCsOnBranch`.*  A block that a quorum has voted for is justified.
The code never checks this: delivery asks that the block of the QC was
fetched, and that the certificate verifies (`hotstuff.cpp:177-206`,
`consensus.cpp:63-88`), and the liveness condition of `on_receive_proposal`
compares heights alone (`consensus.cpp:271`).  Without it the argument that
makes HotStuff safe does not go through, so every claim on what is
executed states it as a premise; claims on votes, QCs, decision flags,
delivery and the pacemakers do not need it.  The premise is about the past: once
false it stays false, and `Ledger` carries it as its variable `sound`: as long as
it is TRUE there is one chain, afterwards each replica still executes along one
of its own.  It cannot be violated by correct proposers: their blocks are
justified (`TailExtendsHqc`, `PMSoundProposals`), hence it holds always when no faulty
replica proposes a block off its QC's branch (`PMQCsOnBranch`).

*Actions of the core.*  One action per handler, `on_deliver_blk`, `on_propose`,
`on_receive_proposal`, `on_receive_vote`, each with everything it calls:
`update` (hqc, lock, commit or exception), the vote decision, the vote to
itself.  `update` is written as what it leaves behind: `update_hqc`,
`update_lock`, `commits`/`breaches`, `commit_queue`, each with the early
returns that come before it in the code.  An exception sets `status` and the
replica takes no further step; what the handler changed before the throw stays.

*Network.*  `proposed` and `cast` only grow, so a message may be handled late, out
of order, again, or never.  Verification of a certificate is `Certified`: nmajority
replicas have signed, the faulty ones being free to sign anything.  A faulty
replica's votes are always available, and every block of its own is, to whom
and when TLC likes, once its QC can exist.  Who gets votes for a block counts
them, its proposer or not (`consensus.cpp:313` only logs it): `collectors[b]` are
those that may, since `do_vote` sends votes to whom the pacemaker names, under the
fixed proposer to that one for every block, and a faulty replica may pass on what it gets.

*Pacemakers.*  `PMHighTail` adds `hqc_tail` to each action of the core: the
callback of `update_hqc` runs when `hqc` moved, then that of the proposal.
Between the two `on_receive_proposal` calls `on_qc_finish` for the QC in the block
(`consensus.cpp:290`).  When something waits for it, it proposes there and then:
the handler comes in two halves, `receive_first` and `receive_last`, with
`receiving` between them, and the continuations run in the middle; otherwise
it is one step.
`tails` is a set ordered by address, so a tie between equally high tails is
a nondeterministic choice.  `PaceMakerDummyFixed` adds the queue of beats.
The continuation of a beat runs inside another handler; `due` is TRUE from the
moment the promise resolves until `on_propose` has run, and meanwhile the
proposer takes no other step.  Nor does it between its vote for a faulty
replica's block and counting it (`own_vote`), which is one handler.  Other replicas may: they cannot tell the
difference.  In `PaceMakerRR`, `due` is the sequence of continuations still to
run in this handler (one that resolves a promise may propose several blocks), each replica has its own `proposer`, and a timer that is set may
expire at any time.  `async_qc_finish` hands out one promise per block:
`qc_waiting` maps a block to the list of those that wait on its promise, in the
order in which they asked, and rejecting it (`reject`) drops all of
them and stays in force for those that ask later (`rejected`).

*Pipeline.*  A local order and a block are sets of commands: the caches and the
callbacks look at membership only.  `exec_command` is the request with the
handler of `cmd_pending`; `process_local_order` is `on_receive_local_order`
with the round it may start; `do_decide` takes the callbacks.  Each local order
of a correct replica arrives once and in order (one TCP connection); faulty
replicas send any of `FaultyOrders`.  `proposed_cmds_cache` is changed where the
code does: marked in `flashorder_propose`, erased in the commit loop of `update`.

*Ordering.*  `finalize` is one action; its operators are the functions it
calls, in their order: `sort_cmds`, preferences, `canonical_pos`,
`detect_clusters`, `internal_orders`, `he_adj`, `topological_sort`.  Where
`std::sort` may leave equal elements in any order, the result is any of them.
A preference counts places, as the code does: `pref` is the number of pairs of
places of one list.  A cluster is named by the number of the positions at which
one starts (`starts`).  The loop of `topological_sort` is the function `queued`: its
value at n is everything that has been in the queue when n clusters have been
taken, and those it never reaches follow by index.  `joined` puts one order of each cluster after the
other.  `compute_delta` reads the clock: `delta` is any of `Delta`.

*Delivery.*  Promises run their continuations in the handler that resolves
them.  An operator takes the state of one replica and returns it when the
cascade has run: `async_deliver_blk` starts the delivery of a block and of its
ancestors that are here, `on_fetch_blk` lets waiting ones go on,
`on_deliver_blk` delivers all that can be.  `timeout` is `FetchContext`'s timer.
A replica may stop for good (`crash`), requests and answers may get lost
(`lose`).

*Client, SmallBank.*  The client's window, its count of answers and its
threshold.  A correct replica answers a command when it has executed it; a faulty one
answers at any time and as often as it likes, and all its answers count, since
`client_resp_cmd_handler` does not look at the connection (`forged` keeps how many
did); the operations of `execute_transaction` on unsigned balances of W
bits, with the `int` in which a split adds up its payments.

## 3. Runs

| Run | Question | Bounds and why they are enough |
|---|---|---|
| `core_chain` | Do execution, decision flags, locks and QCs agree in every order of messages? Is it one ledger? | Four replicas, one faulty (as in all runs of the core): the smallest with `nfaulty = 1`. `OneScenario` keeps a behaviour inside one of four trees: *Commit*, a chain a1..a5 with a rival c2: a4 executes a1, a5 executes a2 or both at once; *OffBranch*, u3 on c2 with the QC of a2, which moves `hqc` and is voted for, and which may be handled where a2 was only fetched; *Fork*, two branches, where a3's voters lock on a1, d4 carries the genesis QC so that a lock is what keeps its voters away, and d5 unlocks; *Votes*, blocks of a correct proposer with and without the QC of their parent. `FetchOnly`: d1..d3 are fetched as ancestors, together (`TogetherD`), never proposed. r2 and r3 create nothing and are symmetric |
| `pm_rotate` | Does the chosen parent always follow hqc? Can a lone proposer fall below its votes? Is `IInv` an invariant? | r1 and r2 propose at any time, every block they can build with every QC up to height 2 (`MaxHeight`), or r1 alone up to height 3 (`MaxAlone`), where a QC can be two blocks late; r2 may count the votes for r1's first block, and then there are two proposals at most (`FewWhenPassedOn`) |
| `fixed_live` | Are all beats used, and is everything executed? Is this `BeatChain`? What does a faulty replica's block change? | `MaxBeats` 4, so that the fourth block executes the first, up to three of them queued. `RunAhead` adds blocks that would skip a QC, which a wrong proposer would build. r4 may propose a block on the leader's first with that block's QC, and the leader goes on from it once (`FewWhenForeign`) |
| `rr_turns` | Does anything begun in one turn go on in another? Is a locked proposer waiting for something? | Two correct replicas, `MaxRotations` 2 each. A behaviour (`OneTree`) has its blocks either among all up to height 4 (`MaxFree`), with two beats (`FreeBeats`), where `MaxSwitches` and `MaxGaps` 1 with `MaxGap` 1 let creators alternate and QCs be late, or on one branch of six blocks (`TwoTurns`, `MaxHeight` 6) with three beats (`MaxBeats`): replica 0 begins a new consensus on a block of its own, replica 1 one on top of it, so that an execution stops a rotation at a replica with a queue of beats. On a third branch (`OneAbove`) both replicas get all votes, and replica 1 proposes with the QC of replica 0's block while replica 0 waits for it |
| `rr_stale` | (violation) Does a replica always propose above its votes under rotation? | Four replicas, one faulty; one rotation, three beats, height 2 are enough |
| `pipe_rounds` | Is a majority ever left waiting, and is what a majority ordered chosen? | Three correct replicas and four commands, one request each: 1 to 3 reach a replica in every order, 4 after them (`FourLast`); r2 and r3 are symmetric; the faulty replica sends its list (`ForgedFour`) at any time. Four blocks, so that one is executed at every replica |
| `pipe_long` | Are the caches, the answers and the use of consensus right over executions? | Five commands, so that two blocks are executed; two replicas, `NearlyInOrder` lets only neighbouring commands change places, and requests for the first be doubled (`MaxRequests` 2) |
| `pipe_applied` | (violation) Does a replica that executes a block make the transitions of its commands? | As long; `LateFirst` lets the request for the first command come at any time |
| `hg_rounds` | Does the order hold each command once and respect agreement and preferences? | Every round of three lists over parts of three commands, with a repeated command, unsorted and equal timestamps; four lists of four commands where one list differs, four of two commands where one repeats them; hand-made rounds with a cycle of clusters, with an edge against the positions; `Delta` 1, 2, 3; `max_number_cmds` 6 cuts a round of seven |
| `dl_orders` | Does delivery throw, deliver too early, or wait for nothing? Is every proposal handled? | A chain of three blocks by two proposers, the third with a certificate that fails, and `Late` 1, the block whose QC is one older; three replicas, one of which may crash, one lost request or answer (`MaxLost`) |
| `client_done` | Was a finished command executed, is the window full, does an executed command get finished? | Window 2, three commands, four replicas of which one is faulty and answers any number of times; nothing is assumed of execution, which may stop anywhere |
| `bank_tx` | Does each operation keep, put in or take out exactly its amount, at the limits too? | Balances of two bits (`W`), so that every balance and both limits occur; parties of three, `Amount` 1 and the largest; each operation is held to its own amount, so that a deposit of 3 that wraps is not taken for a withdrawal of 1 |

Deadlock is not checked in the runs where the system may stop: replicas stop on an
exception, the tree, the beats or the commands of an instance are used up, a
round is one step, a delivered chain leaves nothing to do.  It is checked in
`bank_tx`.

*Fairness* is used in four runs, and always weak, of single handlers:

- `fixed_live`: each correct replica's deliveries and proposals, the proposer's handling of correct
  replicas' votes, and a continuation that is due.  Peers stay connected or
  reconnect, the event loop serves every socket, and a handler that has started
  finishes.  Nothing is assumed of faulty replicas, nor that beats are asked for.
- `pipe_long`: QCs get complete (shown by `BeatsPropose`), local orders and
  proposals arrive.  Nothing makes clients send requests.
- `dl_orders`: a replica goes on with the messages of each kind that have
  arrived and with the answers of its verification pool, and its timers expire.
- `client_done`: the answers of correct replicas arrive; faulty replicas may be
  silent.  Nothing is assumed of execution: a block is executed when three more
  are certified, and only new commands bring blocks (`hotstuff.cpp:439-455`).

*What they show.*  No violation was found in the core as long as QCs keep to their
branches, in the default pacemaker until a faulty replica proposes, or in delivery
without crashes.  Two disagreements between the code and what it
says of itself are kept as runs:

- `rr_stale`.  `on_propose` asserts `new block should be higher than vheight`
  (`consensus.cpp:246`).  After an impeachment replica 1 proposes at height 2,
  replica 0 votes for it, then gets the QC of its own first block: `hqc_tail`
  moves to its own tail, and its next proposal, at height 2, throws, out of a
  promise's callback inside the handler of a vote.  With one proposer this
  cannot happen (`SoleProposerNeverStale`).
- `pipe_applied`.  `hotstuff.h:223` says of `state_machine_execute` that the
  application should implement it to make the transition of its state.
  `do_decide` calls it (`hotstuff.cpp:463`), but it only logs
  (`hotstuff_app.cpp:118`); the transition is in the callback of `exec_command`
  (`hotstuff_app.cpp:406`), which `do_decide` finds only when the request has
  come.  In the trace a replica executes a block before the request for one of its
  commands reached it: this execution makes no transition there, while at the
  leader it does.  Whether the replica makes it later depends on the
  command being ordered and executed again (section 6).

Every property is stated in its module with the code it is about, and has a
mutant of the code, kept next to the original, that breaks it.

## 4. Proofs

Proved for every value of the constants that meets the named assumptions: any finite set of
more than one replica, any set of at most `nfaulty` faulty ones, any tree of blocks of any
size, QCs off their blocks' branches included, any number of beats and rotations.

* Core: `Spec => []IInv`, the inductive invariant.  From it without a premise
  `TypeOK`, `OneQCPerHeight`, `DecisionMatchesExec`, `VotesClimb`,
  `QCsAreReal`; under `QCsOnBranch`, which each of them states,
  `NeverBreached`, `ExecutedIsFinal`, `CommittableIsFinal`, `PointersInOrder`,
  `ExecBackedByLocks`; and `SpecLedger`: `HotStuffCore` implements `Ledger` with
  `tip = b_exec` and `sound = QCsOnBranch`.
* `PMHighTail`: `PMRefinesCore`, `PMLedger`, so that all of this holds under it;
  `PMTailExtendsHqc`, `PMTailsCoverDelivered`, `PMSoleProposerNeverStale`;
  `PMSoundProposals`, and `PMQCsOnBranch`, which discharges the premise when faulty
  replicas propose nothing off its QC's branch.
* Fixed proposer: `FixedRefinesPM`, `FixedLedger` and `FixedBeatsAccounted`
  whatever faulty replicas propose.  `FixedProposalsCertifyParent` and
  `FixedBeatChain`, the implementation of `BeatChain`, up to the first such
  block that a correct replica receives (`Foreign`): `on_receive_proposal`
  takes blocks from anybody, and one of another proposer can become `hqc_tail` or
  take the leader's vote to a height above it.
* Pipeline: `PipelineRoundsKeepUp`, `PipelineMajorityIsChosen`,
  `PipelineCacheIsPending`, `PipelineRequestsAccounted`, and `PipelineBeats`: it
  uses consensus as `BeatChain` allows.  With `FixedBeatChain` both sides of the
  composition are proved.
* Rotating proposer: `RRRefinesPM`, hence `RRLedger` and `RRTailExtendsHqc`:
  timers, rotations and any number of replicas proposing at once take nothing
  from what the core promises.  `RRSpecInv`, its inductive invariant, and from it
  `RRProposesInTurn`, `RRLockedIsLive`, `RRQueueServed`, with any number of
  beats left over from earlier turns.
* Ordering: `HGEachOnce` and `HGDependenciesRespected`, for any lists,
  repetitions, clusters and cycles; `HGSameOrderIsKept`, for any `delta` and
  threshold; `HGMostOrderIsKept` under the premise that the threshold is at
  most `n_nodes - nfaulty`, and `HGMostOrderByDefault`: with the default `gamma`
  the premise holds for every number of replicas.
* Delivery: `DeliverySpecInv`, its inductive invariant, and from it
  `DeliveryNeverThrown`, `DeliveryIsSound`, `DeliveryWaitsAreServed`, for any
  number of replicas, lost messages and crashes, any set of blocks whose
  certificates fail.
* Client: `ClientWindow`, and `ClientFinished`: a finished command has more than
  `nfaulty` executions at correct replicas and counted answers of faulty ones
  together.  No bound on the latter is assumed, and none follows from the code.

*The argument.*  Two quorums of `nmajority = n - nfaulty` share more than
`nfaulty` replicas, hence a correct one (`QuorumIntersection`); it votes once
per height (`OneVotePerHeight`), so certified blocks of one height are one
block.  Now let certified blocks be justified (`QCsOnBranch`).  Let z be certified
with a direct three-chain z, y, x.  Suppose a
certified block as high as x leaves x out, and take one with no such block below
it (`MinBlock`), m.  It is higher than z, since z, y and x are the only certified blocks of their
heights.  A correct replica voted for both, for z first.  With that vote it was locked
at least at x (`VoteLockInv`), so its vote for m is for a block that stands on a
certified block at least as high as x (`LaterVoteInv`): by the liveness
condition its QC, which is on m's branch because m is justified, by the safety
condition the lock itself.  That one leaves x out
too and is below m: a contradiction (`Safety`).  A commit
therefore extends what was executed (`UpdateCommit`): the exception is unreachable
and the commit queue joins the new block to `b_exec`.  The decision flags stay the
chain of `b_exec` whether or not the premise holds: a commit that does not extend
`b_exec` throws before any flag is written.

One vote does not stand on a certified block below it: when a replica is locked
on a block whose proposal it handles only afterwards, the safety condition holds with the
lock being the block itself.  A quorum had voted for it before, and the votes of that
one do stand (`Standing`): `LaterVoteInv` speaks of them.

*Why the strengthening.*  `NeverBreached` alone is not inductive: it needs the
certificates behind an execution (`ExecInv`), the certificates behind what a
replica knows (`QCInv`), and what a vote implied about the lock when it
was cast (`VoteLockInv`, `LaterVoteInv`, `LockInv`).  `IInv` is `CoreInv`, which holds
in every tree, and `BranchInv`, which holds under the premise.  As the premise at the end
of a step implies it at the beginning (`Certified` only grows), the second part
is inductive as an implication.  `IInv` is also checked by TLC
(`pm_rotate`).  `PMInv` adds that the pacemaker's pointers are delivered.

*Fixed proposer.*  As long as a replica has blocks of nobody else, what it has
delivered is one chain, the chain of `hqc_tail`, and `vheight` is not above it
(`SoleInv`).  A quorum that was counted is behind `hqc` (`CountInv`).  So what
waits, waits for the QC of `last_proposed`, and what is due has it (`WaitInv`):
`on_propose` never throws and every block certifies its parent.  Then the
leader's blocks are one chain, each with the QC of the one before, and it has
executed all but the last three (`BlocksInv`): what another replica executes
has a block three higher above it (`ExecutesBelow`).  With blocks of faulty
replicas what is left is the account of beats: a beat waits for the leader's own
last block, and the promise resolves once, with the vote that completes the quorum
or with a proposal that carries it.

*Rotation.*  Whatever waits for a QC waits on one of the two promises the
pacemaker keeps, `pm_qc_finish` and `pm_qc_manual`, for a block of the replica's
own whose quorum it has not counted, and only while the replica believes that it is the
proposer (`WaitsInTurn`).  So the rejections of `rotate` and `stop_rotate` drop all
of it, and neither the vote that completes a QC nor a proposal that carries one
resolves a beat in another's turn.  Rejected promises stay rejected: a beat taken later
must not wait for such a block.  It does not (`FreeToWait`): after a proposal
`last_proposed` is a new block, and after a rotation it is the genesis block, whose QC
is there.  With this a lock always has a beat to wait for (`BeatRuns`), and outside
rotations beats are taken as soon as the lock goes (`BeatBehind`).  An operator of the
pacemaker reads quorums and own blocks only, so the lemmas are about one replica's
state s, the blocks M it may refer to and the blocks Q whose quorum it has counted.
Q grows with votes alone; a proposal may resolve a promise of a block that is not
in Q, and what comes then is the same (`FinishInv`).  A proposal first runs
`update`, whose execution may stop the rotation, then resolves (`UpdatedInv`).

*Delivery.*  `WaitsAreServed` is inductive only inside the cascade with two more
facts.  What a replica stores, waits for or is asked for exists, and so does
what it refers to (`Closed`, `Within`).  A block that waits is not delivered, is asked for when it or the block of its QC is missing,
and has a parent that is delivered or waits (`Served`).  Inside a handler this
is stated for the deliveries the handler has not come to yet; at its end nothing is left
that could be delivered (`Settled`), so a wait whose parent is delivered is one for a
verification, or of a block whose certificate failed.  `NeverThrown` holds
because a block enters `delivered` with its parent there (`Sound`).

*Pipeline.*  A round starts in the handler of the local order that makes the
majority, and takes the first list of every queue.  Fewer than a majority had
a list before (`FewWaiting`), so the sender of this one had none, and has none
again when the round has taken it: those with a list left had one before.
`OrderedByMajorityIsChosen` needs to know where a local order went: what came
with it is in a block, in a round that waits for its block, or still in the
queue (`QueuedInv`).  Were a majority's in the queues, `FewWaiting` would not
hold.  `CommitInv`, that the leader has executed all blocks but three, is what
relates the cache to the blocks that are not executed.

*Ordering.*  A round is one action, so what there is to prove is what its
operators return.  The clusters divide the commands that have an id
(`ClustersDivide`): each position has one number among the starts.  The loop of
`topological_sort` has the invariant that the queue repeats no cluster, that a cluster is in it just when
every edge into it comes from one that has been taken, and
that a cluster stands behind those with an edge to it (`QueueStarts`, `QueueGoesOn`).  At its end those left out have an
edge from one left out: without a cycle there are none, and the
edges point forwards (`TopologicalSort`, `ResultsRespect`).  Joining one order of each cluster along a
permutation of the clusters gives each command once, clusters in that order
(`JoinedArranged`).  Loops are recursive functions; that such a function is
defined, and keeps an invariant, is proved once for any step that is given as a
set of pairs (`LoopExists`), by the least number for which it would fail, since
induction theorems over operators are out of reach.

`SameOrderIsKept`: with m equal lists a pair has m preferences one way and none the other
(`SameScores`), so either every command has its place in the list as
its position, or, with m below the threshold, all positions are 0 and there is one cluster.  Clusters are stretches of the list in its order
(`ClustersFollow`), edges go from earlier to later ones, and the scores inside one fall along
the list: only one order is left (`Forced`).  `MostOrderIsKept`: the others' lists
put every pair over the threshold, and `nfaulty` lists that repeat nothing put no pair over it the
other way, so positions are the places in s and with `delta = 1` each command
is a cluster; between two of them there are `n - f` preferences at least against `f` at most, more than
the margin 1.2 since `n > 3f`.

*Only model-checked*: the liveness properties (`BeatsPropose`, `DecidedIsAnswered`,
`RoundsAreProposed`, `ProposalsHandled` and others) and `SmallBank`.  Liveness is out of the
prover's reach (fairness, ENABLED), and so are RECURSIVE operators (`SmallBank`,
the trees of the instances; the modules under proof have none).

## 5. Not modelled

*In modelled components.*  `prune` (its only call is commented out), the two-step
variant (not compiled), `vote_disabled` (never set), `parent_limit` (unused), the
seen trackers of `EntityStorage` (written, never read), `async_fetch_cmd` (not
called).  A faulty replica that broadcasts another's block under its own name: the
receiver's handler differs only in whom it sends its vote to, which `collectors`
leaves open, and in which entry of `prop_blk` is set in a rotation; a replica that gets
its own block back this way runs `update` on it again.  Restarts: protocol state is in memory only and `TODO.rst` lists
persistence as to be done.  The clients' connection bookkeeping, statistics,
option parsing, serialisation and the generator's random distributions.

*Components.*  Cryptography beyond what a certificate means.  `graph.cpp`
(`CondensationGraph`) is left over from Themis and not on FlashOrder's path.
`libhotstuff` is the baseline with the same core, modelled already.  Themis and
Rashnu are comparison systems: their core is the same code; their ordering
(deferred ordering on tournament graphs, data-dependent graphs) is not modelled.
`salticidae` and `secp256k1` are vendored, four copies of each: they are used
through what the code relies on (section 1).  Vendored libraries, the comparison
systems and the tools make up most of the repository's C and C++ lines, which is
why a small share of them is mapped, although FlashOrder's own protocol path is.

## 6. Observations

What the models had to state as a premise, or leave out of a property, since the code does
otherwise than one might expect:

- *Order of a majority.*  `MostOrderIsKept` needs `delta = 1`: with wider clusters
  the net scores inside a cluster have no threshold, and one replica in four can
  turn an order that the three others saw, where `flashorder/doc/HG.py:127` says
  that the threshold filters such influence out.  Inside and between clusters even a pair
  that every replica saw in one order can come out in the other, since scores are
  sums over all pairs of a cluster; `README.md:14` of the repository promises fair ordering.
  `SameOrderIsKept` therefore speaks of whole orders.
- *Repeated commands.*  Nothing drops repetitions from a local order, and
  `compute_preferences` counts every pair of places (`flashorder.h:94-101`): with n = 4, three lists `<<1, 2>>`
  and the list `<<2, 2, 1, 1>>` give four preferences for 2 before 1, and the order is `<<2, 1>>`.
  A list with repetitions weighs as much as those of several replicas, which the threshold of
  `nfaulty + 1` lists does not take into account; `MostOrderIsKept` has as its premise
  that no list repeats a command.  The premise was found by the proof; `hg_rounds`
  holds this round.
- *Threshold and gamma.*  With `slack` above `n - 2 nfaulty - 1`, which `gamma` is
  free to be set to (`flashorder.h:308`), the correct replicas alone do not
  reach the threshold: positions then depend on the others' lists, commands share a cluster
  and net scores decide.  `HGMostOrderIsKept` excludes it.
- *Crashes in delivery.*  The replicas a `FetchContext` asks are those named while
  the block was missing.  When they have crashed, the block may come into the
  storage with a proposal, which does not call `on_fetch_blk`: the promise of
  `async_deliver_blk` (`hotstuff.cpp:184`) stays unresolved, and the proposal that waits
  for it is never handled.  `ProposalsHandled` claims nothing once a replica has crashed.
- *QCs off their blocks' branches.*  The lock rule takes the QC of a block to be
  on the block's own branch.  `on_deliver_blk` and
  `on_receive_proposal` do not check it, and the liveness condition
  (`consensus.cpp:271`) accepts such a block when its QC is higher than the lock.  Once
  a quorum has voted for one, locks no longer keep rival branches from being
  certified, and all claims on execution are off: this is the premise `QCsOnBranch`
  (section 2).  A check that `qc_ref` is an ancestor in `on_receive_proposal` would
  establish it.
- *The client's count.*  `client_resp_cmd_handler` increments `confirmed` for
  each message (`hotstuff_client.cpp:127`) and does not look at its connection: "f + 1
  ack" may be one replica's.  The threshold follows `fairness_parameter`
  (`hotstuff_client.cpp:205`), while the replicas' is `(n - 1) / 3`.
  `FinishedIsExecuted` therefore counts the answers of faulty replicas in.
- *The end of a run.*  A block is executed when three more are certified, and
  only new local orders bring blocks: the commands of the last blocks are not
  executed, and a client with a finite number of commands, or with a window too
  small to fill three more blocks, waits for ever.  `ExecutedIsFinished`
  speaks of commands that were executed.
- *Splits.*  `transaction_split` credits the payors and debits the party without
  looking whether a party's balance covers its share (`small_bank.cpp:94`):
  balances wrap around.  `MoneyIsKept` speaks of splits all can cover.
- *Commands proposed twice.*  A local order is filtered when it arrives, and a
  commit erases its commands from the cache (`consensus.cpp:170`): a command that
  comes late in another replica's order is ordered and executed again.  The
  callback runs once (`RequestsAccounted`).
- *Rotation.*  `on_consensus` deletes the timer of a rotation whenever any block is
  executed (`liveness.h:378`) and `impeach` does nothing while rotating: the
  rotation then goes on until a block of the believed proposer is executed, and
  no timer tries the next one.  The other way round, `on_exp_timeout` sets the next
  timer after `do_new_consensus`, which may have stopped the rotation
  (`liveness.h:318`): that timer rotates once more.
- *Beats left over.*  `stop_rotate` empties the lock but takes no beat from
  `pending_beats`; at the proposer it logs "reproposing pending commands"
  (`liveness.h:361`), and what would repropose them is commented out (`:371`).
  The beats of an earlier turn, whose commands `flashorder_propose` has already marked,
  wait in the queue until the next local order asks for a beat.
  `QueueServed` excepts them.
- *Promises.*  The promise of a beat and that of a new consensus can be the same
  one: rejecting either drops both (`liveness.h:151`).
- *Left-over commands.*  With `blk_size` above 1 the last commands of a burst stay in
  `local_order_buffer`: nothing flushes it.

## 7. What could follow

The money of `SmallBank` (`MoneyIsKept`) as a theorem, with the sums over the
accounts written as recursive functions; the ordering of Themis and Rashnu; the
ordering of blocks across rounds as a refinement of fair ordering.
