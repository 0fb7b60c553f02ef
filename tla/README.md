# Verification of the digital election system

TLA+ models, TLC runs and TLAPS proofs for the Go program under `src/`: servers that tally
secret-shared votes without any of them, or any `t < n/3` of them together, learning a vote.

`PROJECT.json` lists the components, the runs, the map from definitions to source lines, the
hazards, the mutants (a slip in a definition that each property catches) and the theorems.
Check a run with `tlc -config X.cfg MCModule`, a proof with `tlapm Module.tla`.

## 1. The system

| part | source | state | operations |
|---|---|---|---|
| set-up and membership | `NetworkHTTPSImpl.go` 178-285, 357-438, 820-866, 968 | `ipList`, `stateWait`, `serverId`, `t` | `StartNetwork`, `joinNetwork`, `newParticipantInNetwork`, `ParticipateInNetwork`, `FloodNewParticipantInNetwork`, `SendStartPhaseTwoSignal`, `receiveStartPhaseTwoSignal` |
| vote delivery | `NetworkHTTPSImpl.go` 85-173, 440-793, 1016-1041 | `receivedShares` (a map of entries with their own locks), `receiverIdsLock` | `receiveClientShare`, `ReceiveServerShare`, `_CheckSignatures`, `ChallengeVote`, `sendDelayedMessage` |
| connections | `NetworkHTTPSImpl.go` 884-966 | `clients` | `createClient`, `createRPCClient`, `floodSingleClient` |
| client | `Client/client.go` | server list, connections | `vote`, `generateShares`, `getCurrentVote`, command loop |
| tally | `MPCControllerImpl.go`, `framework/MPCController.go` | `state.Share`, `state.Proof`, an unbuffered channel | `NewShareArrived`, `addShare`, `GetCurrentVote` |
| arithmetic | `ArithmeticLogicImpl.go` | none | `Add`, `validate` |
| secret sharing | `SecretSharingImpl.go` | primes, bases, `t` | `SecretGen`, `VerifyShare`, `Verify01`, `Reconstruct` |
| audit log | `Logger.go` | `loggerList`, `lastSent`, an unbuffered channel | `LOG`, `StartLogger` |
| helpers | `util.go` | none | `CalculateT`, `FrederiksMaxPrimeFactor`, debug output |

How they work together.

1. An operator creates the network on one server; others join through it. New addresses are
   flooded. On the signal for phase two every server sorts its list, takes its position in it
   as its index and gets a share of the secret 0 to start its sum with.
2. A client asks a server for the list and the primes, shares its vote of 0 or 1 with
   polynomials of degree `t`, encrypts one share for each server, adds commitments and a proof
   that the vote is 0 or 1, and posts this *ballot* to the servers one after the other, over
   HTTPS, until each has answered.
3. A server signs the hash of the ballot, adds the signature to its list, checks its own
   share, and floods ballot and signatures over RPC. Servers merge the signatures they get and
   flood on what was new. A server that holds `n - t` signatures of a ballot hands its share
   to the tally; one whose share does not verify challenges the ballot and drops the vote id.
4. `addShare` adds the share to the sum and multiplies the commitments. A client collects
   the sums of all servers and reconstructs the number of votes for 1.
5. Servers and clients log to a database all along.

What is hard. Each HTTP and RPC request is a goroutine of its own, the flooding ones are
started and forgotten, and messages are merged in any order, twice, or never when a connection
broke (it is not dialled again). The locks are taken by hand and released on every path by
hand; some paths release twice, some never. A panic ends a goroutine of `net/http` only, but
the process in a goroutine of `net/rpc` or of the program. A server answers HTTP before it has
joined and sets the fields its handlers read one after the other. Nothing is persisted: a
server that stops stays away. Clients retry on transport errors and never give up a server.

What makes each part correct.

- *Vote delivery*: a vote id is counted once, with `n - t` signers behind it, the same way
  everywhere unless some server signed two ballots; a quorum is noticed; decisions stand; a
  good vote cannot stop a server or be dropped; what `n - t` servers signed is counted.
- *Membership*: all servers know each other, agree on list, threshold and indexes, and start.
- *Secret sharing*: honest shares verify, altered ones do not, `t+1` shares give the vote
  back, `t` tell nothing.
- *Tally*: sums go with their commitments; a result read at rest is exact; no share is lost.
- *Locking*: what a handler does under an entry's lock is one step to the others; handlers end.
- *Start-up*: a vote that comes too early harms no server but the one it finds unready.
- *Audit log*: rows in order, none twice, and no more lost than the code's rounding loses;
  callers get back, entries get out.

## 2. Modules

| module | models | kind |
|---|---|---|
| `Thresholds` | `CalculateT`, `n - t`, `2t + 1` | operators |
| `VoteDelivery` | clients posting, servers signing, merging, counting, challenging, stopping | state machine |
| `VoteBroadcast` | what `VoteDelivery` promises: sign, then count at most one ballot of an id | abstract specification |
| `HandlerLocking` | the handlers of one server, lock by lock; implements `VoteDelivery` | state machine |
| `Membership` | joining and the start of phase two | state machine |
| `StartUp` | from the phase-two signal to the first votes | state machine |
| `SecretSharing` | sharing, commitments, reconstruction, `Add` | operators |
| `ZeroKnowledge` | one dealing with its proof, and its verification | state machine |
| `Tally` | shares on their way into the sums, and a client that reads them | state machine |
| `AuditLog` | the logger's loop and its table | state machine |
| `VoteDeliveryProofs`, `HandlerLockingProofs`, `MembershipProofs`, `StartUpProofs`, `AuditLogProofs`, `TallyProofs`, `ZeroKnowledgeProofs` | theorems about the module of the name, the first also about `VoteBroadcast` | proofs |
| `SharingProofs` | theorems about the operators of `SecretSharing`; the last two above build on it | proofs |
| `MC*` | small instances | |

`HandlerLocking` justifies the steps of `VoteDelivery`, `VoteDelivery` those of
`VoteBroadcast`. `StartUp` lies between `Membership` and `VoteDelivery`. `VoteDelivery` hands
ids to `Tally` (`CountedOnce` is the assumption `Tally` makes of it); `SecretSharing` is used
by `ZeroKnowledge` and `Tally`; `Thresholds` by all.

### VoteDelivery

State: the client's loop (`unsent`, `target`, `retries`); the fields of each entry of
`receivedShares` (`received` and `signatures` for `sharesReceived`, `seen` for
`signaturesSeenFrom`, `delivered`, `invalidated`, `challenges`, `bare` for an entry whose maps
are nil); the two kinds of lock as far as they leak (`locked`, `idsHeld`); processes,
connections and goroutines still to flood (`up`, `connected`, `outgoing`); the calls on the
network (`shareMsgs`, a set that only grows, so that messages may come late, again or never;
`inbox`).

Grain: one action is one critical section of a handler under the entry's lock. Each path of
each handler is a disjunct: `receiveClientShare` has `ClientShareBlocks`, `...Ignored`,
`...OnBareEntry`, `...Accepted`, `...Rejected`, `...Challenged` and a post nobody answers;
`ReceiveServerShare` blocks, hits a bare entry or merges; `ChallengeVote` has five paths.
`_CheckSignatures` is part of both share handlers: it finds nothing, delivers, replays pending
challenges (and deadlocks with its own caller), or challenges (and its caller unlocks again,
which ends the process). A ballot stands for its hash and its contents, `ValidAt` says where
its share verifies, a signature is its signer's name; the server's own signature may be in a
list several times, which `ownCopies` counts.

### HandlerLocking

One server and the calls that reach it. `pc` says where each call is between two lock
operations: `receiverIdsLock` (`ids`), the entry's lock (`lock`), `shareLock`, the channel to
`addShare`. The look-up and the wait with `receiverIdsLock` are `Found` and `TakeLock`, a new
entry is `Create`; inside the entry the actions are those of the handlers (`Sign`, `Accept`,
`Merge`, `Deliver`, ...); `FirstRelease` and `Unlock` are the two releases of one lock,
`Delayed` and `Resume` the second lock of `sendDelayedMessage`, `Flood` the goroutines that read
a struct without a lock. The post handler copies a stored struct and stores the copy, which
`stored`, `sigs` and `object` keep apart. What the peers send is a set of calls fixed at the
start, and what the server challenges it also sends itself.

`SectionsAtomic` maps an entry to what it was when nobody was in it (`shown`) and says that every
step is then one of `VoteDelivery` or none, as long as no call *overtakes*: takes an entry's lock
between the two releases, or challenges an entry whose handler has decided but not left it.
These schedules are real, which is why the other properties do not exclude them. Two of them
were a surprise: a server's own challenge can come back while the entry that sent it is being
invalidated, and then leaks the lock of an entry that `VoteDelivery` calls settled; and a
challenge that takes the lock between the two releases makes the second release the one that
does no harm, so that the process survives for a while. In that window several handlers may be
inside one entry; what keeps it from harm is that `_CheckSignatures` invalidates the id before it
releases the lock (`CondemnedKept`: from then on nothing is signed, merged, delivered or
challenged in the entry, whoever's lock the second release takes).

### Membership

Handlers of this phase take no lock. Look-up, append and flood are separate steps, and an
append may write over one that came between. Handlers and requests are bags, since two of them
may be alike. `Patient` says whether operators wait until nothing is under way before they act:
nobody joining, and nobody between the signal and the start. A server may join after phase two has
begun, for nothing in `joinNetwork` refuses it: it gets on everyone's list, behind the part that was
sorted, and waits for a signal that never comes (section 6 says what follows for the delivery).
Addresses are integers; `Sorted` puts each entry of a list in the place that the entries before
it leave (`Place`), which is what `sort.Slice` arrives at.

### StartUp

`stage` is how far `StartNetwork` and `NewActiveMPCController` have come: the list sorted, `t`
and the primes, `ss`, `serverId`, the RPC methods, the observer. Handlers are those of
`VoteDelivery` at the same grain for ballots with ids of their own, and do what the code does
with what is set: sign as server 0, panic in `decryptShare` on the share of server 0 or in
`VerifyShare` on a nil `ss`, miss a call that is not registered yet, deliver to a nil observer.
The client is more detailed than in `VoteDelivery`: it takes the list of one server, encrypts
each share for the server in that place, and waits for answers. A server other than those in
`Late` is started already. `overtaken` records the servers a vote or a message met too early.
What `sendDelayedMessage` floods on is on the network already and left out, and so are the panics
of dials to processes that have ended.

### SecretSharing, ZeroKnowledge

The arithmetic is done, not abstracted, in the group of order 11 modulo 23 that the code's tests
use. Random numbers are nondeterministic choices from small sets, the hash of the zero-knowledge
proof answers the dealer's question with any value and other questions with another one. A
challenge of the zero-knowledge proof is the set of the positions of its ones, so that `Xor` is
the symmetric difference; `Number` gives its value where it is an exponent. `Power` takes the
modulus 0 for Go's `nil`, with which `Exp` does not reduce. Five assumptions say what the code
gets from its choice of primes and its draws: `SharingAssumption` (the sizes), `PrimeOrder` and
`PrimeModulus` (`q` and `p` have no divisors), `TwoBases` (the search in `SetCommitmentValues`
finds what it looks for) and `DrawsAssumption` (the ranges of `rand.Int`).

### Tally

The hand-over through the unbuffered channel, the replacement of the sum, the panics of `Add` (on
a share at another server's point, and on a proof longer than the one it has), and a client that
asks one server after the other. Votes may have any number of commitments: `VerifyShare` does not
compare it with anything, and a client that was given a longer list of servers (a late join) may
deal with a higher degree. `Add` multiplies as many commitments as the new vote has, so that a
shorter proof cuts the product off. A read that overlaps an unlocked write can return anything:
such a result is marked `mixed` and nothing is claimed of it.

### AuditLog

`StartLogger` takes one entry, or none for a second (`Take`, `Timeout`), then perhaps inserts
(`Prepare`, `Exec`) while callers of `LOG` wait. The database may refuse to prepare (the list
stays) or fail to execute (the list is lost). The order in which blocked callers get through is
that of their calls, as Go's channels have it.

## 3. Runs

| run | what is checked | bounds |
|---|---|---|
| `delivery_live` | `CountedOnce`, `NoQuorumWaiting`, `HonestBallotsHarmless`, `SignedBallotsCounted` | 4 servers, 1 good ballot, a client that gets to 3 and may stop anywhere, 1 stop of a server |
| `delivery_one_id` | `SignaturesAuthentic`, `OneSignaturePerSender`, `Agreement`, `ImplementsBroadcast` | 3 servers, 2 good ballots of one id |
| `delivery_bad_share` | `TypeOK`, `NeverBoth`, `BackedByQuorum`, `DecisionsFinal` | 3 servers, 2 ballots of one id, each posted to 2, 1 lost answer each, one bad at one server |
| `delivery_two_ids` | `HonestIdsUndisturbed` | 3 servers, 2 ids with a ballot each, posted to 2, 1 lost answer each, one bad at one server |
| `bad_share_stops` | **violates** `EveryServerStays` | 4 servers, 1 ballot bad at one |
| `handler_locking` | `HandedOverOnce`, `SectionsAtomic`, `EveryCallEnds`, `CondemnedKept`, `SignaturesTold` | 1 of 3 servers, 3 of 9 calls and the server's own challenges, 3 ballots, 2 ids |
| `membership_patient` | `TypeOK`, `EveryoneKnown`, `IndexesMatch`, `EveryoneStarts` | 4 servers, joining one by one, before the signals or after the start |
| `membership_together` | **violates** `EveryoneKnown` | 3 servers, two joining at once |
| `start_up` | `SharesReachTheirServers`, `CountedWithQuorum`, `OnlyOvertakenGetStuck`, `CountedByTheRest`, `PostsEnd` | 4 servers, 2 of them late, 1 ballot |
| `secret_sharing` | `HonestSharesVerify`, `AlteredProofsRejected`, `AnyQuorumReconstructs`, `AlteredSharesRejected`, `TSharesHideTheVote` | 7 servers, `t = 2`, all dealings from 3 coefficients |
| `tally` | `TypeOK`, `SumMatchesProof`, `StillReadExact`, `EveryShareAdded` | 4 servers, 4 votes, one at a wrong point, one of a higher degree, one reading |
| `audit_log` | `RowsInOrder`, `OneLossPerInsert`, `CallersReturn`, `NothingStays` | batches of 3, 8 entries, 2 refused statements |

Why the bounds are enough. Four servers are the fewest with `t = 1`, where a quorum is not
everyone and one server may be missing; three are the fewest the code accepts, and with two
ballots of one id and lost answers they reach every path of the share and challenge handlers,
including those that end a process. One stop is what `t = 1` allows. One lost answer is enough for
the second signature. With two ids the bad one leaves pending challenges, lost locks and entries
without maps at a server that delivers the good one. Three calls are one that is in an entry, one
that waits for it and one that waits for `receiverIdsLock`; the nine to choose from have posts of
good and bad ballots of one id and of another one, floods with too few and enough signatures, and
challenges, and the server's own challenges come on top. Membership needs four servers for a flood
that arrives over two ways, and the creator is neither first nor last in the order of addresses,
so that sorting changes its index. Of the late servers in `start_up` one is server 0, for which
the others sign before they know their index, and the other one is not; three servers are still
enough for a quorum when one is stuck, and with two late ones the quorum may need either. Seven
servers give quadratic polynomials. Two votes at all servers give sums of sums; the other two, at
one server each, end it or cut its proof off before, between or after them. Batches of three let
the list pass a batch several times. Where servers are alike, symmetry is used in safety runs
only.

The named bounds: `MaxRetries`, `MaxCrashes` (`VoteDelivery`), `MaxCalls` (`HandlerLocking`),
`MaxReads` (`Tally`), `MaxEntries`, `MaxRefusals` (`AuditLog`), `Coefs`, `Nonces`, `SimAnswers`
(`ZeroKnowledge`). All runs switch the deadlock check off: elections, logs and dealings end,
and servers stop. That handlers do not wait for each other is `EveryCallEnds`.

Fairness. `ServersProgress`: a server that runs gets to the calls that are under way and to its
flooding goroutines; the Go scheduler runs what is not blocked, and TCP delivers between
processes that run. Nothing is assumed of clients, which may stop anywhere.
`Membership!Progress`: requests are answered, and each server's `StartNetwork` receives; when
operators act is up to them. `HandlerLocking!Spec`: Go runs what is not blocked; calls are
finite and have no loops, so fairness of the whole lets each of them go on. `StartUp!Progress`:
servers go on starting, handlers and floods run, and the client, once it has its list, goes on
posting as `vote` does; receipt is fair except at servers that were met too early, which may
have missed a message for good. Every step of it changes something for good, so fairness of the
whole is enough. `AuditLog!LiveSpec`: the loop runs, time passes, and the database answers in
the end, if with an error; it refuses statements `MaxRefusals` times. `Tally!LiveSpec`: the two
sides of the channel run. The bound on losses in the live runs is zero: a broken connection is
never replaced in the code, and no liveness survives it.

## 4. Where the code differs from what it says

- `bad_share_stops`: `_CheckSignatures` releases the entry's lock before it returns and its callers
  release it again, which ends the process. The comment there says "bail out and return error".
- `membership_together`: of two servers that join at once one may never learn of the other; the
  comment at `newParticipantInNetwork` says "all people knows the ip of each others".

Found on the way and covered by properties that say what remains true: a client that posts a
ballot again makes the server sign again, and the test for a quorum counts list entries, so that
every lost answer may stand for a signer (`BackedByQuorum`); a server signs every ballot of an
id, so that two ballots of one id can be counted at different servers, where the README of the
program promises that "all points from a vote comes from the same polynomial" (`Agreement`: only
behind a server that signed both); a post that meets a server before it knows its index is signed
as server 0 and, repeated, stops the server (`OnlyOvertakenGetStuck`); the last test for a
rest in `StartLogger` never holds, so an entry is lost with every overfull batch
(`OneLossPerInsert`); the start share comes without its commitments and is replaced by the first
vote (`StillReadExact` holds because the start secret is 0); a challenge that finds its ballot
leaks the lock of the entry (`HonestIdsUndisturbed`: only of an id with a ballot that does not
verify everywhere); a server that joins late lengthens all lists and waits for ever (`IndexesMatch`:
indexes, points and thresholds of the started ones stay right); nobody compares the number of
commitments of a vote, so `Add` may cut them off or panic (`SumMatchesProof` and `StillReadExact`:
not while all votes are of the usual degree).

## 5. Proofs

Each theorem holds for all values of the constants that the named assumptions allow, which are
no more than types and what the code sets up: any finite set of at least three servers, any ids,
ballots, `ValidAt` and `PostedTo`, any number of stops (`ConstantsAssumption`); any calls that
do not carry the server's own signature, which finds itself in the list when it comes back
(`HandlerLockingAssumption`); any set of addresses, even an infinite one
(`MembershipAssumption`); any late servers (`StartUpAssumption`); any batch size
(`AuditLogAssumption`); any votes, with polynomials of any
degree (`TallyAssumption`; `SumsVerify` and `ResultsExact` are about sums of votes of `SecretGen`'s
degree, and need that: after a vote of another length the product of commitments is cut off); any
order `q` without
divisors and any draws (section 2). `EveryoneGetsKnown` and `IndexesAgree` have `Patient` as a
premise, and have to: `membership_together` shows how the first fails for other operators, and
their servers sort and number lists of different length. The same happens if a server joins
between a signal and the start it causes, which patient operators avoid too; joins after that are
in both theorems. `IndexesAgree` also has the premise of its property, lists without repetitions.

| theorem | property | strengthening |
|---|---|---|
| **VoteDeliveryProofs** | | |
| `TypeCorrect` | `TypeOK` | inductive in two parts, `Typed` and then `EntriesKnown`, which needs the former |
| `AuthenticSignatures` | `SignaturesAuthentic` | inductive with `TypeOK` |
| `OnePerSender` | `OneSignaturePerSender` | `PeersSeen`: a peer in a list is marked as seen for the id |
| `EachIdCountedOnce` | `CountedOnce` | inductive with `TypeOK` |
| `CountedBackedByQuorum` | `BackedByQuorum`: `n - t` signers, less the ballot's lost answers | `CopiesFromRetries`, `CountedListsLong` |
| `DisagreementNeedsDoubleSigner` | `Agreement`, if `MaxRetries = 0` | quorum intersection |
| `OneVerdict` | `NeverBoth` | inductive with `TypeOK` |
| `VerdictsStand` | `DecisionsFinal` (an action property) | from `EntryDecided`: a step works on one open entry |
| `QuorumsActedOn` | `NoQuorumWaiting` | inductive with `TypeOK` |
| `HonestIdsSafe` | `HonestIdsUndisturbed` | `Undisturbed`: nor is a challenge pending, or under way, or an entry bare |
| `HonestElectionSafe` | `HonestBallotsHarmless` | inductive with `Undisturbed` for all ids |
| `DeliveryImplementsBroadcast` | `ImplementsBroadcast`, if `MaxRetries = 0` | the invariants above, and one step or a stutter for each effect |
| `OneBackedBallotPerId`, `BroadcastAgreement` | what the abstract specification promises | inductive; quorum intersection |
| **HandlerLockingProofs** | | |
| `OneHandover` | `HandedOverOnce` | `LockingInv` |
| `CondemnedStay` | `CondemnedKept` (an action property) | `KeptInv`: `LockingInv`, and stored structs are of their ballot |
| `Atomic` | `SectionsAtomic` | `SectionInv`: what a call has made of an entry since it came into it |
| **MembershipProofs** | | |
| `MembershipTyped` | `TypeOK` | `AddressInv`: a server that was started has its own address, and Master's list always has Master's |
| `EveryoneGetsKnown` | `EveryoneKnown`, if `Patient` | `PatientInv` |
| `IndexesAgree` | `IndexesMatch`, if `Patient` | `PatientInv` |
| **StartUpProofs** | | |
| `SharesFindServers` | `SharesReachTheirServers` | `StartUpInv` |
| `EarlySignaturesHarmless` | `CountedWithQuorum` | `StartUpInv` |
| `StuckOnlyIfOvertaken` | `OnlyOvertakenGetStuck` | `StartUpInv` |
| **AuditLogProofs** | | |
| `NoRowTwice`, `FewEntriesLost` | `RowsInOrder`, `OneLossPerInsert` | `LogInv` |
| **SharingProofs** | | |
| `DealtShareMatches` | a dealt share matches its commitments | |
| `SumOfMatchingMatches` | `Add` keeps shares and commitments together | |
| `SecretReconstructed` | `Reconstruct` of more than `t` shares of one polynomial is its constant term | |
| `SharesFitEveryVote` | at most `t` shares and the commitments of a dealing are also those of a dealing of any other secret | |
| **TallyProofs** | | |
| `TallyTyped`, `SumsVerify` | `TypeOK`, `SumMatchesProof` | `TallyInv` |
| `ResultsExact` | `StillReadExact` | `ExactInv`: a sum is a share of the sum of the counted polynomials |
| **ZeroKnowledgeProofs** | | |
| `HonestDealingsAccepted` | `HonestSharesVerify` | `DealingInv` |
| `EveryQuorumReconstructs` | `AnyQuorumReconstructs` | `DealingInv` |
| `AlteredSharesRefused` | `AlteredSharesRejected` | `DealingInv` |
| `AlteredProofsRefused` | `AlteredProofsRejected` | `DealingInv` |
| `TSharesTellNothing` | `TSharesHideTheVote` | `DealingInv`, `SharesFitEveryVote` |

The arguments.

*Vote delivery.* A step has one of a few effects on the lists of signatures, the messages and
the tally (`StepEffect`), so that each later invariant is proved for three or four effects and
not for twenty actions. Signatures only grow, merge only what a message carries, and messages
carry what a list held: authenticity follows. A merge takes only senders not seen under the id
and marks them, so a peer is in one list of an id. `Deliver` needs an unsettled id and settles
it: counted once. The length of a list, which the code compares, is related to its signers:
each further copy of a server's own signature has cost the client a lost answer, and a client
that may still post to a server that signed already has one in hand (`CopiesFromRetries`); so a
list has as many signers as entries, less the answers lost. Without lost answers `Agreement`
follows from `2(n - t) > n` and authenticity; with them two quorums may have no server in common.
For verdicts a step is reduced once more, to `EntryDecided` or `NothingDecided`. Ids with good
ballots stay undisturbed because a challenge is only sent for a share that does not verify, and
a lock is only lost on a challenged entry; `HonestIdsUndisturbed` alone is not inductive, since
it says nothing of the challenges on the network.

*Refinement.* The mapping takes the servers that signed a ballot themselves and the ballots a
server counts. A signing step signs, a delivery counts, all else stutters. A step may sign and
deliver at once (a server's own signature can complete the quorum); `VoteBroadcast` has such a
step too. With lost answers the implementation does not refine it: see `BackedByQuorum`.

*Locking.* Handlers exclude each other until one releases a lock twice and so takes it from
whoever has it by then. That one has invalidated the id before its first release, so whoever
comes in finds the entry settled: `Excluded` says that a handler that still has something to
decide is alone. `CondemnedKept` follows: whoever writes into an entry has something to decide, and
a struct that is stored for another ballot is not written (`OwnStructs`).

*Sections.* `Atomic` says that the steps of `VoteDelivery` are as large as the locks make them. While
no call overtakes, a call between the look-up and its last release is alone in its entry (`Alone`),
and `Section` says, for each point of a handler, how the entry it sees (`View`) differs from the one
that was there when it came (`shown`): a ballot signed, a list merged, a challenge sent, and so on. The
steps inside an entry keep this, and change nothing that `VoteDelivery` is shown; the last one of a
handler shows the entry anew, and what `Section` says there is one of the actions of `VoteDelivery`
(`UnlockMapped`, `AgainMapped`, `BareMapped`, `LeakMapped`). Calls that wait for ever are such a step
too (`StickMapped`), and `NobodyReturns` says that nothing but floods comes after it. What a handler
keeps outside of its entry needs words of its own: the struct that a post replaces by its copy
(`Structs`), the challenges the server sends to itself, which are under way for `VoteDelivery` only when
the handler that sent them has left (`OwnCalls`), and the second lock of `sendDelayedMessage`, which
changes nothing. The invariant holds in the schedules without overtaking only; `LockingInv` holds
in all of them.

*Membership.* That the types are right is not obvious, for the index is the place of the last entry
with the server's own address, less one, and without such an entry `StartNetwork` would compute -1: an
append may write over another one, but it extends a list the server had, and each of these had the
address (`AddressesKnown`). With patient operators one server joins at a time. `EveryoneKnown` says
something of states at rest only; `PatientInv` says how the newcomer's address travels: every other
server either knows it or a post to it, an append at it or a flood that will send to it is under way,
and no other address is (`Spreading`, `AboutNewcomer`), before the signals or after everyone that got
one has started. `InOrder` says that the list the signals were sent to stays the beginning of every
list (`Begins`): the points and indexes are places in it, and newcomers only come behind it. That
`Sorted` sorts is proved without induction: `Place` takes the entries one to one into the places, so
that every place is taken (`EveryPlaceTaken`); two increasing lists of the same addresses have no
first place where they differ (`OneIncreasingList`), so all servers start with one list.

*Start-up.* What carries the proof is the order of two pairs of statements: the list is sorted
before the primes a client asks for are set, and `serverId` is set before the RPC methods are
registered. So a client votes with a sorted list, and a server that signs as server 0 panics
before the signature leaves.

*Audit log.* The list is the end of what was logged (`ListIsLast`), the table is older
(`TableIsOlder`), and the list is longer than a batch by one at most when it is inserted.

*Sharing.* `BC` takes exponents modulo `q` and `VerifyShare` does not: the bases have order `q`,
so both agree (`ExponentReduced`). A product of commitments, each raised to a power, is then the
commitment to two sums (`ProductOfCommitted`), which are the polynomials. Tally and dealing
follow, the latter with the two conversations of the proof, the honest and the simulated one
(`HonestAccepted`, `SimulatedAccepted`). That something altered is refused needs that `q` has no
divisors: then the first `q` powers of a base differ (`PowersDiffer`) and roots in the group are
unique (`RootsUnique`). It also needs that different challenges have different numbers below `q`
(`NumbersDiffer`), which is what `SetPrimes` chooses `TBit` for. That `p` is a prime is not
needed for any of this: the bases are invertible because they have an order.

*Reconstruction.* `ModInverse` exists because the least positive multiple of a number modulo `q`
divides `q` (`FieldInverse`). The weights of a set of points with and without a point `b` are tied
by `x * w + b * w' = b * w` (`LagrangeWithout`), and so are the values the points give at zero. Two
choices of `b` make the weights add up to 1 (`AtZeroOfOnes`); `k`-th powers then give 0 if there
are more than `k` points (`AtZeroOfPowers`), and of a polynomial the constant term is left
(`AtZeroOfPolynomial`). `Reconstruct` sums over shares and not over points, which is the same if
they have points of their own (`SumByPoint`). For the tally, a server adds an id only once, since
an id is arriving, being added or counted (`Fresh`); its sum is then the value of
`Total(counted[s])`, a polynomial whose constant term is the number of votes for 1. Servers that
have counted the same votes hold shares of the same polynomial, whatever order they added them in;
that the start secret drops out with the first vote is a case of its own (`TotalAdds`).

*Hiding.* Some polynomial vanishes at any `t` points and not at zero: one root after the other is
multiplied in (`TimesRoot`, `OneMoreVanishes`), and modulo a prime the constant term stays different
from 0. A multiple of it takes a dealt polynomial to one with any other constant term and the same
values at these points (`ValuesFitEverySecret`). Its coefficients can be committed to as the dealt
ones were, since one base is a power of the other (`OneBaseIsPower`), and this is what `p` being a
prime is needed for. Otherwise none of the products of `g` with a power of `h` is 1; the first `q`
powers of an element of order `q` that is not 1 add up to 0 modulo `p` (`AllPowersVanish`), so the
sum over all these products vanishes too. Taken the other way round, exponent by exponent, the sum
is `q` (`RowsAddUp`), which `p` does not divide. The second values of the shares then agree as well,
for the same commitments bind them (`CommittedBinds`). The theorem says that such a dealing exists,
and nothing of how likely each dealing is.

Powers, sums, products and numbers are recursive functions and folds. The induction theorems of
the library, which take an operator as a parameter, cannot be used here; instead each such proof
takes the least number, or a smallest set, for which the claim would be wrong (`LeastNatural`,
`MinimalSubset`). That the recursive functions exist at all is proved in the same way
(`PowersExist`, `FoldsExist`).

Only model-checked is liveness: `SignedBallotsCounted`, `EveryCallEnds`, `SignaturesTold`,
`EveryoneStarts`, `CountedByTheRest`, `PostsEnd`, `EveryShareAdded`, `CallersReturn`,
`NothingStays` (fairness and ENABLED are out of the provers' reach).

## 6. Not modelled

- AES, RSA and hashing: ideal. Which share verifies where is a constant of `VoteDelivery`.
- `decryptShare` panics on a share that cannot be decrypted (`NetworkHTTPSImpl.go` 990-1003): the
  lock of the entry is lost in an HTTP handler, and an RPC handler ends the process. `Verifies` of
  `VoteDelivery` and `HandlerLocking` does not tell such a share from one that decrypts and does
  not verify. Only `StartUp` has this panic, for shares of another server.
- Servers that deviate from the protocol: whoever signs, floods or challenges in the models runs
  the code of `src/`. Clients may post ballots that are bad at some servers, and several under one
  id.
- The vote id in the question to the random oracle (`SecretSharingImpl.go` 137): dealer and
  verifier take it from the same ballot, and no property is about a proof used under another id.
- The list of servers growing after phase two, outside of `Membership`. A late server is on every
  list and never votes, so `len(n.ipList) - n.t` grows with each one while `n.t` stays, and after
  more than `t` late joins no ballot finds enough signers. `VoteDelivery`, `HandlerLocking` and
  `StartUp` take the list to be the one at the signals. Clients that read the longer list deal for
  one server more, with another degree if `CalculateT` changes (6 servers to 7: 1 to 2); `Tally`
  has such votes.
- The search for primes in `util.go`: its one call in the program is commented out, the primes are
  constants; only tests run it.
- The client's command loop, debug output, TLS, JSON and the main programs.
- `RevokeVote` and `Multiply_const`: the one call (`NetworkHTTPSImpl.go` 759) comes after
  `json.Unmarshal` of the opened share into an `f.Share`, while `generateShares` marshals a
  `MarshalFriendlyShare` with strings for numbers: it fails each time. The state `RESULT` and
  `verifiedShares`, which nothing sets.
- Data races below the locks: torn slice headers while a flood marshals a list, the unlocked
  iteration over `receivedShares` in `sendCurrentShare`.
- That a sum wraps around modulo `q`: the code's `q` has 2048 bits.

## 7. Plan

Done, in this order: `VoteDelivery`, its first proofs, `Membership`, `SecretSharing`, `Tally`,
`AuditLog`, `HandlerLocking`, `StartUp`, the reworked `AuditLog` with blocked callers, the quorum
theorem with lost answers; then the proofs of section 5, those about `Membership`,
`TSharesHideTheVote` and `SectionsAtomic` last; then late joins, votes of any degree, a bad ballot
beside a good one, and the window between the two releases. Every safety property that a passing
run checks is now a theorem.

Next models, if the bounds allow: four patient servers with the check-then-append race of
`newParticipantInNetwork`, which can put an address on a list twice (`NoAddressTwice`); delivery on
a list that grows.
