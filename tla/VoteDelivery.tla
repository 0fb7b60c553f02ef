---------------------------- MODULE VoteDelivery ----------------------------
(***************************************************************************)
(* How a vote travels from a client to the tallies of the servers:         *)
(* server/src/NetworkHTTPSImpl.go, and the posting loop of                 *)
(* Client/client.go.                                                       *)
(*                                                                         *)
(* A client splits its vote into a ballot: one encrypted share per server, *)
(* with the commitments and the zero-knowledge proof.  It posts the ballot *)
(* to the servers one after the other.  A server signs the hash of what it *)
(* is posted and floods the ballot with the signatures it holds; servers   *)
(* merge and flood on the signatures they receive; a server that holds     *)
(* n - t signatures on a ballot hands its own share to the tally.  A       *)
(* server whose share does not verify challenges the ballot.               *)
(*                                                                         *)
(* Grain.  Every handler of a server takes receiverIdsLock, looks up the   *)
(* entry of the vote id, takes the entry's lock and lets receiverIdsLock   *)
(* go; from there to the unlock it is alone with the entry.  One action is *)
(* one such critical section.  A lock that is never given back is part of  *)
(* the state: `locked' holds the entries whose lock leaked, `idsHeld' the  *)
(* servers where a handler waits for such an entry and keeps               *)
(* receiverIdsLock, so that no handler runs any more.  HandlerLocking      *)
(* takes the locks one by one and says when a step for a section is right; *)
(* the schedules it is not right for (a handler between two releases of    *)
(* one lock, the unlocked look at `invalidated') end the process or leak   *)
(* the lock, both of which are steps here as well.                         *)
(*                                                                         *)
(* Operators that stand before a definition and share the beginning of its *)
(* name are versions of it with a slip in them; no specification uses      *)
(* them.  PROJECT.json pairs each with the property it breaks.             *)
(*                                                                         *)
(* Data.  A ballot stands for its hash and its content, and `ValidAt' says *)
(* at which servers its share verifies (_DecryptVerifyShare returns no     *)
(* error).  Signatures are unforgeable: a signature is its signer's name.  *)
(***************************************************************************)
EXTENDS Thresholds, FiniteSets

CONSTANTS
  Server,      \* the servers of ipList, the same list at every server
  Ballot,      \* the ballots the clients post
  VoteId,      \* the vote ids
  NilId,       \* the zero uuid of an empty f.Share
  IdOf,        \* the vote id in a ballot, [Ballot -> VoteId]
  ValidAt,     \* the servers whose share verifies, [Ballot -> SUBSET Server]
  PostedTo,    \* the servers the client of a ballot gets to before it leaves
  None,        \* a client that is between two servers
  MaxRetries,  \* bound: answers lost to a client, for each ballot
  MaxCrashes   \* bound: servers that stop by themselves

ASSUME ConstantsAssumption ==
  /\ IsFiniteSet(Server)
  /\ Cardinality(Server) >= MinParties
  /\ NilId \notin VoteId
  /\ IdOf \in [Ballot -> VoteId]
  /\ ValidAt \in [Ballot -> SUBSET Server]
  /\ PostedTo \in [Ballot -> SUBSET Server]
  /\ None \notin Server
  /\ MaxRetries \in Nat
  /\ MaxCrashes \in Nat

VARIABLES
  \* The clients, one loop of `vote' for each ballot.
  unsent,      \* servers the loop has not finished with
  target,      \* the server it retries, or None
  retries,     \* answers lost so far
  \* The map receivedShares of each server, field by field.
  known,       \* ids that have an entry
  bare,        \* entries ChallengeVote made, whose two maps are nil
  received,    \* the keys of sharesReceived
  signatures,  \* the signers in the Signatures of a received ballot
  ownCopies,   \* further copies of the server's own signature in that list
  seen,        \* signaturesSeenFrom, the senders mapped to true
  delivered,   \* entries with delivered set
  invalidated, \* entries with invalidated set
  challenges,  \* the pending challenges of all entries
  locked,      \* entries whose lock is held for good
  \* The rest of each server.
  idsHeld,     \* servers whose receiverIdsLock is held for good
  up,          \* servers whose process runs
  connected,   \* servers that hold an RPC connection to every peer
  outgoing,    \* ballots with a goroutine that is still to flood them
  tally,       \* how often NewShareArrived got a share of a ballot
  \* The network.
  shareMsgs,   \* ReceiveServerShare calls, flooded to every server
  inbox        \* ChallengeVote calls on their way to each server

clientVars == <<unsent, target, retries>>
entryVars  == <<known, bare, received, signatures, ownCopies, seen,
                delivered, invalidated, challenges, locked>>
serverVars == <<idsHeld, up, connected, outgoing, tally>>
netVars    == <<shareMsgs, inbox>>
vars       == <<clientVars, entryVars, serverVars, netVars>>

-----------------------------------------------------------------------------
(* Types and small helpers.                                                *)

EntryId   == VoteId \cup {NilId}
ShareMsg  == [ballot : Ballot, sigs : SUBSET Server]
Challenge == [id : EntryId, ballot : Ballot, sender : Server]

Typed ==
  /\ unsent      \in [Ballot -> SUBSET Server]
  /\ target      \in [Ballot -> Server \cup {None}]
  /\ retries     \in [Ballot -> 0 .. MaxRetries]
  /\ known       \in [Server -> SUBSET EntryId]
  /\ bare        \in [Server -> SUBSET EntryId]
  /\ received    \in [Server -> SUBSET Ballot]
  /\ signatures  \in [Server -> [Ballot -> SUBSET Server]]
  /\ ownCopies   \in [Server -> [Ballot -> Nat]]
  /\ seen        \in [Server -> [VoteId -> SUBSET Server]]
  /\ delivered   \in [Server -> SUBSET VoteId]
  /\ invalidated \in [Server -> SUBSET VoteId]
  /\ challenges  \in [Server -> SUBSET Challenge]
  /\ locked      \in [Server -> SUBSET EntryId]
  /\ idsHeld     \in SUBSET Server
  /\ up          \in SUBSET Server
  /\ connected   \in SUBSET Server
  /\ outgoing    \in [Server -> SUBSET Ballot]
  /\ tally       \in [Server -> [Ballot -> Nat]]
  /\ shareMsgs   \in SUBSET ShareMsg
  /\ inbox       \in [Server -> SUBSET Challenge]

(* What is recorded of an id is recorded in its entry. *)
EntriesKnown ==
  \A s \in Server :
    /\ bare[s] \cup delivered[s] \cup invalidated[s] \cup locked[s]
         \subseteq known[s]
    /\ \A b \in received[s] : IdOf[b] \in known[s] \ bare[s]

TypeOK == Typed /\ EntriesKnown

N      == Cardinality(Server)
Needed == SignaturesNeeded(N)

(* len(Signatures) of a list that holds each of `signers' once, and        *)
(* `copies' more times the server's own signature.                         *)
ListLengthPlusOwn(signers, copies) == Cardinality(signers) + copies + 1

ListLength(signers, copies) == Cardinality(signers) + copies

(* The ballots of an id that _CheckSignatures may pick: it ranges over the *)
(* map sharesReceived, in any order, and acts on the first with enough     *)
(* signatures.  `rec', `sigs' and `copies' are those of one server.        *)
Quorate(id, rec, sigs, copies) ==
  {c \in rec : IdOf[c] = id /\ ListLength(sigs[c], copies[c]) >= Needed}

(* _DecryptVerifyShare of the share for s in b returns no error.  Shares   *)
(* that cannot be decrypted, on which decryptShare panics, are not told    *)
(* from those that do not verify.                                          *)
Verifies(s, b) == s \in ValidAt[b]

(* Handlers of s run: the process is there, receiverIdsLock can be taken.  *)
Serving(s) == s \in up \ idsHeld

(* The early returns of receiveClientShare and ReceiveServerShare.         *)
SettledIfInvalidated(s, id) == id \in invalidated[s]
SettledIfDelivered(s, id) == id \in delivered[s]

Settled(s, id) == id \in delivered[s] \cup invalidated[s]

(* createRPCClient dials a peer on its first use.  Dial of a peer that is  *)
(* down leaves a nil client, on which Go panics.                           *)
DialPanicsAgain(s) == up # Server

DialPanics(s) == s \notin connected /\ up # Server

Init ==
  /\ unsent      = PostedTo
  /\ target      = [b \in Ballot |-> None]
  /\ retries     = [b \in Ballot |-> 0]
  /\ known       = [s \in Server |-> {}]
  /\ bare        = [s \in Server |-> {}]
  /\ received    = [s \in Server |-> {}]
  /\ signatures  = [s \in Server |-> [b \in Ballot |-> {}]]
  /\ ownCopies   = [s \in Server |-> [b \in Ballot |-> 0]]
  /\ seen        = [s \in Server |-> [i \in VoteId |-> {}]]
  /\ delivered   = [s \in Server |-> {}]
  /\ invalidated = [s \in Server |-> {}]
  /\ challenges  = [s \in Server |-> {}]
  /\ locked      = [s \in Server |-> {}]
  /\ idsHeld     = {}
  /\ up          = Server
  /\ connected   = {}
  /\ outgoing    = [s \in Server |-> {}]
  /\ tally       = [s \in Server |-> [b \in Ballot |-> 0]]
  /\ shareMsgs   = {}
  /\ inbox       = [s \in Server |-> {}]

-----------------------------------------------------------------------------
(* The client's side of one POST.                                          *)

(* `vote' posts to the servers in a shuffled order and goes on to the next *)
(* only after an answer.                                                   *)
MayPost(b, s) == s \in unsent[b] /\ target[b] \in {None, s}

(* The loop gets its answer, of whatever status, or a transport error and  *)
(* posts the same ballot to the same server again.                         *)
ClientAnswered(b, s) ==
  \/ /\ unsent' = [unsent EXCEPT ![b] = @ \ {s}]
     /\ target' = [target EXCEPT ![b] = None]
     /\ UNCHANGED retries
  \/ /\ retries[b] < MaxRetries
     /\ retries' = [retries EXCEPT ![b] = @ + 1]
     /\ target' = [target EXCEPT ![b] = s]
     /\ UNCHANGED unsent

(* No answer ever comes, or only transport errors: the loop stays at s.    *)
ClientStuck(b, s) ==
  /\ target' = [target EXCEPT ![b] = s]
  /\ UNCHANGED <<unsent, retries>>

(* The server is down, or the handler waits for receiverIdsLock for ever.  *)
PostUnanswered(b, s) ==
  /\ MayPost(b, s)
  /\ ~ Serving(s)
  /\ target[b] = None
  /\ ClientStuck(b, s)
  /\ UNCHANGED <<entryVars, serverVars, netVars>>

-----------------------------------------------------------------------------
(* _CheckSignatures, with the entry's lock held, on the updated entry.     *)

ReadyBefore(s, id) == Quorate(id, received[s], signatures[s], ownCopies[s])

Ready(s, id) == Quorate(id, received'[s], signatures'[s], ownCopies'[s])

PendingOfAnyId(s, id) == challenges[s]

Pending(s, id) == {c \in challenges[s] : c.id = id}

NothingReady(s, id) ==
  /\ Ready(s, id) = {}
  /\ UNCHANGED <<delivered, tally, invalidated, locked, idsHeld, up, inbox>>

(* delivered is set and observer.NewShareArrived gets the share.           *)
Deliver(s, id) ==
  \E c \in Ready(s, id) :
    /\ Verifies(s, c)
    /\ Pending(s, id) = {}
    /\ delivered' = [delivered EXCEPT ![s] = @ \cup {id}]
    /\ tally' = [tally EXCEPT ![s][c] = @ + 1]
    /\ UNCHANGED <<invalidated, locked, idsHeld, up, inbox>>

(* A pending challenge is run through n.ChallengeVote first: that takes    *)
(* receiverIdsLock and waits for the lock of this entry, which the caller  *)
(* holds.                                                                  *)
ReplayChallenge(s, id) ==
  /\ \E c \in Ready(s, id) : Verifies(s, c)
  /\ Pending(s, id) # {}
  /\ locked' = [locked EXCEPT ![s] = @ \cup {id}]
  /\ idsHeld' = idsHeld \cup {s}
  /\ UNCHANGED <<delivered, tally, invalidated, up, inbox>>

(* Challenges reach the peers that run; none is known to have gone out     *)
(* when the flood panics half way.                                         *)
FloodChallenge(c, peers) ==
  inbox' = [p \in Server |-> IF p \in peers THEN inbox[p] \cup {c} ELSE inbox[p]]

(* The server's own share of a ready ballot does not verify.  The flooded  *)
(* challenge carries the id of the empty share _DecryptVerifyShare         *)
(* returned.  Then the entry is invalidated and its lock released, and the *)
(* caller releases it a second time: Go ends the process.                  *)
ChallengeOwnShare(s, id) ==
  \E c \in Ready(s, id) :
    /\ ~ Verifies(s, c)
    /\ ~ DialPanics(s)
    /\ FloodChallenge([id |-> NilId, ballot |-> c, sender |-> s], Server)
    /\ invalidated' = [invalidated EXCEPT ![s] = @ \cup {id}]
    /\ up' = up \ {s}
    /\ UNCHANGED <<delivered, tally, locked, idsHeld>>

(* As above, but the flood panics.  net/http recovers the panic of a       *)
(* client's request, and the entry's lock is lost; in a goroutine of       *)
(* net/rpc it ends the process.                                            *)
ChallengeOwnSharePanics(s, id, recovered) ==
  \E c \in Ready(s, id), reached \in SUBSET up :
    /\ ~ Verifies(s, c)
    /\ DialPanics(s)
    /\ FloodChallenge([id |-> NilId, ballot |-> c, sender |-> s], reached)
    /\ IF recovered
       THEN locked' = [locked EXCEPT ![s] = @ \cup {id}] /\ up' = up
       ELSE up' = up \ {s} /\ locked' = locked
    /\ UNCHANGED <<delivered, tally, invalidated, idsHeld>>

CheckSignaturesReturns(s, id) == NothingReady(s, id) \/ Deliver(s, id)

CheckSignaturesNeverReturns(s, id, recovered) ==
  \/ ReplayChallenge(s, id)
  \/ ChallengeOwnShare(s, id)
  \/ ChallengeOwnSharePanics(s, id, recovered)

-----------------------------------------------------------------------------
(* receiveClientShare.                                                     *)

(* The handler looks up an entry whose lock is lost, and waits for it with *)
(* receiverIdsLock in its hands.                                           *)
ClientShareBlocks(b, s) ==
  /\ MayPost(b, s)
  /\ Serving(s)
  /\ IdOf[b] \in locked[s]
  /\ idsHeld' = idsHeld \cup {s}
  /\ ClientStuck(b, s)
  /\ UNCHANGED <<entryVars, up, connected, outgoing, tally, netVars>>

(* The handler gets the entry's lock. *)
ClientShareRuns(b, s) ==
  /\ MayPost(b, s)
  /\ Serving(s)
  /\ IdOf[b] \notin locked[s]

ClientShareIgnored(b, s) ==
  /\ ClientShareRuns(b, s)
  /\ Settled(s, IdOf[b])
  /\ ClientAnswered(b, s)
  /\ UNCHANGED <<entryVars, serverVars, netVars>>

(* sharesReceived is nil in an entry ChallengeVote made: storing into it   *)
(* panics, net/http recovers, nobody releases the entry's lock.            *)
ClientShareOnBareEntry(b, s) ==
  /\ ClientShareRuns(b, s)
  /\ IdOf[b] \in bare[s]
  /\ locked' = [locked EXCEPT ![s] = @ \cup {IdOf[b]}]
  /\ ClientStuck(b, s)
  /\ UNCHANGED <<known, bare, received, signatures, ownCopies, seen, delivered,
                 invalidated, challenges, serverVars, netVars>>

(* The server's signature is appended, whether or not the list has it, and *)
(* before the share is looked at.                                          *)
SignBallotInNoEntry(b, s) ==
  /\ received' = [received EXCEPT ![s] = @ \cup {b}]
  /\ signatures' = [signatures EXCEPT ![s][b] = @ \cup {s}]
  /\ UNCHANGED <<known, ownCopies>>

SignBallot(b, s) ==
  /\ known' = [known EXCEPT ![s] = @ \cup {IdOf[b]}]
  /\ received' = [received EXCEPT ![s] = @ \cup {b}]
  /\ IF s \in signatures[s][b]
     THEN /\ ownCopies' = [ownCopies EXCEPT ![s][b] = @ + 1]
          /\ UNCHANGED signatures
     ELSE /\ signatures' = [signatures EXCEPT ![s][b] = @ \cup {s}]
          /\ UNCHANGED ownCopies

ClientShareSigned(b, s) ==
  /\ ClientShareRuns(b, s)
  /\ ~ Settled(s, IdOf[b])
  /\ IdOf[b] \notin bare[s]
  /\ SignBallot(b, s)

(* The share verifies: the entry counts the signature as seen, the ballot  *)
(* is delivered if it has enough signatures, and it is flooded.            *)
ClientShareAccepted(b, s) ==
  /\ ClientShareSigned(b, s)
  /\ Verifies(s, b)
  /\ seen' = [seen EXCEPT ![s][IdOf[b]] = @ \cup {s}]
  /\ \/ /\ CheckSignaturesReturns(s, IdOf[b])
        /\ outgoing' = [outgoing EXCEPT ![s] = @ \cup {b}]
        /\ ClientAnswered(b, s)
     \/ /\ CheckSignaturesNeverReturns(s, IdOf[b], TRUE)
        /\ UNCHANGED outgoing
        /\ ClientStuck(b, s)
  /\ UNCHANGED <<bare, challenges, connected, shareMsgs>>

OwnListReady(b, s) ==
  ListLength(signatures'[s][b], ownCopies'[s][b]) >= Needed

(* A rejected ballot is not flooded, but a goroutine that floods what      *)
(* peers sent of it may still be under way and pick the signature up.      *)
EarlierFlood(b, s) ==
  \/ UNCHANGED outgoing
  \/ /\ signatures[s][b] # {}
     /\ outgoing' = [outgoing EXCEPT ![s] = @ \cup {b}]

(* The share does not verify and the ballot is short of signatures: status *)
(* 400.  The signature stays.                                              *)
ClientShareRejected(b, s) ==
  /\ ClientShareSigned(b, s)
  /\ ~ Verifies(s, b)
  /\ ~ OwnListReady(b, s)
  /\ ClientAnswered(b, s)
  /\ EarlierFlood(b, s)
  /\ UNCHANGED <<bare, seen, delivered, invalidated, challenges, locked,
                 idsHeld, up, connected, tally, netVars>>

(* With enough signatures, the ballot is challenged and its id dropped.    *)
ClientShareChallenged(b, s) ==
  /\ ClientShareSigned(b, s)
  /\ ~ Verifies(s, b)
  /\ OwnListReady(b, s)
  /\ LET c == [id |-> IdOf[b], ballot |-> b, sender |-> s]
     IN  \/ /\ ~ DialPanics(s)
            /\ FloodChallenge(c, Server)
            /\ connected' = connected \cup {s}
            /\ invalidated' = [invalidated EXCEPT ![s] = @ \cup {IdOf[b]}]
            /\ ClientAnswered(b, s)
            /\ UNCHANGED locked
         \/ /\ DialPanics(s)
            /\ \E reached \in SUBSET up : FloodChallenge(c, reached)
            /\ locked' = [locked EXCEPT ![s] = @ \cup {IdOf[b]}]
            /\ ClientStuck(b, s)
            /\ UNCHANGED <<connected, invalidated>>
  /\ EarlierFlood(b, s)
  /\ UNCHANGED <<bare, seen, delivered, challenges, idsHeld, up, tally,
                 shareMsgs>>

-----------------------------------------------------------------------------
(* ReceiveServerShare.  A flooded message reaches a server at any time,    *)
(* once, again or never.                                                   *)

ServerShareBlocks(s, m) ==
  /\ Serving(s)
  /\ IdOf[m.ballot] \in locked[s]
  /\ idsHeld' = idsHeld \cup {s}
  /\ UNCHANGED <<clientVars, entryVars, up, connected, outgoing, tally, netVars>>

ServerShareRuns(s, m) ==
  /\ Serving(s)
  /\ IdOf[m.ballot] \notin locked[s]
  /\ ~ Settled(s, IdOf[m.ballot])

(* Storing into the nil maps, in a goroutine of net/rpc: the process ends. *)
ServerShareOnBareEntry(s, m) ==
  /\ ServerShareRuns(s, m)
  /\ IdOf[m.ballot] \in bare[s]
  /\ up' = up \ {s}
  /\ UNCHANGED <<clientVars, entryVars, idsHeld, connected, outgoing, tally,
                 netVars>>

(* findNewSignatures: of senders not seen under this id and not in the     *)
(* list of this ballot.                                                    *)
NewSignaturesPerBallot(s, m) == m.sigs \ signatures[s][m.ballot]

NewSignatures(s, m) ==
  m.sigs \ (seen[s][IdOf[m.ballot]] \cup signatures[s][m.ballot])

ServerShareMerged(s, m) ==
  LET b   == m.ballot
      id  == IdOf[b]
      new == NewSignatures(s, m)
  IN  /\ ServerShareRuns(s, m)
      /\ id \notin bare[s]
      /\ known' = [known EXCEPT ![s] = @ \cup {id}]
      /\ received' = [received EXCEPT ![s] = @ \cup {b}]
      /\ signatures' = [signatures EXCEPT ![s][b] = @ \cup new]
      /\ seen' = [seen EXCEPT ![s][id] = @ \cup new]
      /\ UNCHANGED ownCopies
      /\ \/ /\ CheckSignaturesReturns(s, id)
            /\ outgoing' = IF new = {} THEN outgoing
                           ELSE [outgoing EXCEPT ![s] = @ \cup {b}]
         \/ /\ CheckSignaturesNeverReturns(s, id, FALSE)
            /\ UNCHANGED outgoing
      /\ UNCHANGED <<clientVars, bare, challenges, connected, shareMsgs>>

-----------------------------------------------------------------------------
(* The goroutines that flood a ballot with its signatures: one for each    *)
(* peer after receiveClientShare, sendDelayedMessage after                 *)
(* ReceiveServerShare.  Those of one ballot are taken together: they send  *)
(* what the list holds by then.  sendDelayedMessage takes the entry's lock *)
(* first and waits for ever for one that leaked; here it may go out.       *)

CurrentMsgOfAllSeen(s, b) ==
  [ballot |-> b, sigs |-> signatures[s][b] \cup seen[s][IdOf[b]]]

CurrentMsg(s, b) == [ballot |-> b, sigs |-> signatures[s][b]]

FloodsUnlessDelivered(s, b) ==
  s \in up /\ b \in outgoing[s] /\ IdOf[b] \notin delivered[s]

Floods(s, b) == s \in up /\ b \in outgoing[s]

Send(s, b) ==
  /\ Floods(s, b)
  /\ ~ DialPanics(s)
  /\ shareMsgs' = shareMsgs \cup {CurrentMsg(s, b)}
  /\ connected' = connected \cup {s}
  /\ outgoing' = [outgoing EXCEPT ![s] = @ \ {b}]
  /\ UNCHANGED <<clientVars, entryVars, idsHeld, up, tally, inbox>>

(* Go on the nil client of a peer that is down, in a goroutine.            *)
SendPanics(s, b) ==
  /\ Floods(s, b)
  /\ DialPanics(s)
  /\ shareMsgs' \in {shareMsgs, shareMsgs \cup {CurrentMsg(s, b)}}
  /\ up' = up \ {s}
  /\ UNCHANGED <<clientVars, entryVars, idsHeld, connected, outgoing, tally,
                 inbox>>

-----------------------------------------------------------------------------
(* ChallengeVote, called by a peer.                                        *)

TakeChallenge(s, c) ==
  /\ Serving(s)
  /\ c \in inbox[s]
  /\ inbox' = [inbox EXCEPT ![s] = @ \ {c}]
  /\ UNCHANGED <<clientVars, shareMsgs, up, connected, outgoing, tally>>

KeepChallenge(s, c) == challenges' = [challenges EXCEPT ![s] = @ \cup {c}]

(* The id is unknown: an entry is made that has no maps.                   *)
ChallengeUnknownId(s, c) ==
  /\ TakeChallenge(s, c)
  /\ c.id \notin known[s]
  /\ known' = [known EXCEPT ![s] = @ \cup {c.id}]
  /\ bare' = [bare EXCEPT ![s] = @ \cup {c.id}]
  /\ KeepChallenge(s, c)
  /\ UNCHANGED <<received, signatures, ownCopies, seen, delivered, invalidated,
                 locked, idsHeld>>

ChallengeIgnored(s, c) ==
  /\ TakeChallenge(s, c)
  /\ c.id \in invalidated[s]
  /\ UNCHANGED <<entryVars, idsHeld>>

ChallengeRuns(s, c) ==
  /\ TakeChallenge(s, c)
  /\ c.id \in known[s]
  /\ c.id \notin invalidated[s]

ChallengeBlocks(s, c) ==
  /\ ChallengeRuns(s, c)
  /\ c.id \in locked[s]
  /\ idsHeld' = idsHeld \cup {s}
  /\ UNCHANGED entryVars

(* The ballots an entry holds: a challenge looks only into its own entry,  *)
(* so one with the zero id finds no ballot anywhere.                       *)
ReceivedUnder(s, id) == {b \in received[s] : IdOf[b] = id}

(* The ballot is unknown there: the challenge waits for it.                *)
ChallengeKept(s, c) ==
  /\ ChallengeRuns(s, c)
  /\ c.id \notin locked[s]
  /\ c.ballot \notin ReceivedUnder(s, c.id)
  /\ KeepChallenge(s, c)
  /\ UNCHANGED <<known, bare, received, signatures, ownCopies, seen, delivered,
                 invalidated, locked, idsHeld>>

(* The ballot is known.  Every return behind this point leaves the entry   *)
(* locked; the json.Unmarshal of the revealed share always fails, for it   *)
(* has strings where f.Share has big.Int.                                  *)
ChallengeLeaksLock(s, c) ==
  /\ ChallengeRuns(s, c)
  /\ c.id \notin locked[s]
  /\ c.ballot \in ReceivedUnder(s, c.id)
  /\ IF c.ballot \in Quorate(c.id, received[s], signatures[s], ownCopies[s])
     THEN UNCHANGED challenges
     ELSE KeepChallenge(s, c)
  /\ locked' = [locked EXCEPT ![s] = @ \cup {c.id}]
  /\ UNCHANGED <<known, bare, received, signatures, ownCopies, seen, delivered,
                 invalidated, idsHeld>>

-----------------------------------------------------------------------------
(* A server stops by itself, and stays away: nothing is persisted.         *)
Crash(s) ==
  /\ s \in up
  /\ Cardinality(Server \ up) < MaxCrashes
  /\ up' = up \ {s}
  /\ UNCHANGED <<clientVars, entryVars, idsHeld, connected, outgoing, tally,
                 netVars>>

Post(b, s) ==
  \/ PostUnanswered(b, s)
  \/ ClientShareBlocks(b, s)
  \/ ClientShareIgnored(b, s)
  \/ ClientShareOnBareEntry(b, s)
  \/ ClientShareAccepted(b, s)
  \/ ClientShareRejected(b, s)
  \/ ClientShareChallenged(b, s)

ReceiveServerShare(s, m) ==
  \/ ServerShareBlocks(s, m)
  \/ ServerShareOnBareEntry(s, m)
  \/ ServerShareMerged(s, m)

ChallengeVote(s, c) ==
  \/ ChallengeUnknownId(s, c)
  \/ ChallengeIgnored(s, c)
  \/ ChallengeBlocks(s, c)
  \/ ChallengeKept(s, c)
  \/ ChallengeLeaksLock(s, c)

Flood(s, b) == Send(s, b) \/ SendPanics(s, b)

Next ==
  \/ \E b \in Ballot, s \in Server : Post(b, s)
  \/ \E s \in Server : \E m \in shareMsgs : ReceiveServerShare(s, m)
  \/ \E s \in Server, b \in Ballot : Flood(s, b)
  \/ \E s \in Server : \E c \in inbox[s] : ChallengeVote(s, c)
  \/ \E s \in Server : Crash(s)

Spec == Init /\ [][Next]_vars

(* The runtime runs a goroutine that is not blocked, and TCP delivers      *)
(* between processes that run.                                             *)
ServersProgress ==
  \A s \in Server :
    /\ WF_vars(\E m \in shareMsgs : ReceiveServerShare(s, m))
    /\ WF_vars(\E c \in inbox[s] : ChallengeVote(s, c))
    /\ \A b \in Ballot : WF_vars(Flood(s, b))

-----------------------------------------------------------------------------
(* Safety.                                                                 *)

HonestBallot(b) == ValidAt[b] = Server

(* Only signatures that their signer made are ever in a list or a message. *)
SignaturesAuthentic ==
  /\ \A s, v \in Server, b \in Ballot :
       v \in signatures[s][b] => v \in signatures[v][b]
  /\ \A m \in shareMsgs, v \in Server :
       v \in m.sigs => v \in signatures[v][m.ballot]

(* "If we have already verified a signature from the given sender we wont  *)
(* look at any other signatures from that server" (findNewSignatures): a   *)
(* server counts a peer for at most one of the ballots of an id.           *)
OneSignaturePerSender ==
  \A s \in Server : \A v \in Server \ {s} : \A b, c \in Ballot :
    /\ v \in signatures[s][b] \cap signatures[s][c]
    /\ IdOf[b] = IdOf[c]
    => b = c

(* The tally gets at most one ballot of an id, once, only a share that     *)
(* verifies, and exactly when the id is marked as delivered.               *)
CountedOnce ==
  \A s \in Server, i \in VoteId :
    LET counted == {b \in Ballot : IdOf[b] = i /\ tally[s][b] > 0}
    IN  /\ counted # {} <=> i \in delivered[s]
        /\ \A b, c \in counted : b = c /\ tally[s][b] = 1 /\ Verifies(s, b)

(* No id is both delivered and invalidated at a server.                    *)
NeverBoth == \A s \in Server : delivered[s] \cap invalidated[s] = {}

(* A ballot with enough signatures does not wait: the id is settled, or    *)
(* the handler that found the ballot ready has not come back.              *)
NoQuorumWaiting ==
  \A s \in up : \A i \in VoteId :
    \/ Quorate(i, received[s], signatures[s], ownCopies[s]) = {}
    \/ Settled(s, i)
    \/ i \in locked[s]

(* Behind a ballot that a server counts stand n - t signers, less one for  *)
(* each post the client repeated: the code compares the length of a list,  *)
(* and a server signs on every post.                                       *)
BackedByQuorum ==
  \A s \in Server, b \in Ballot :
    tally[s][b] > 0 =>
      Cardinality({v \in Server : v \in signatures[v][b]}) + retries[b] >= Needed

(* Two servers count different ballots of an id only if some server was    *)
(* posted, and signed, both; while clients get every answer.               *)
Agreement ==
  \A s, r \in Server : \A b, c \in Ballot :
    /\ tally[s][b] > 0
    /\ tally[r][c] > 0
    /\ IdOf[b] = IdOf[c]
    /\ b # c
    => \E v \in Server : v \in signatures[v][b] \cap signatures[v][c]

(* An id all of whose ballots verify everywhere is never invalidated and   *)
(* its lock never lost, whatever challenges, lost locks and entries        *)
(* without maps the ballots of other ids leave behind.                     *)
HonestIdsUndisturbed ==
  \A i \in VoteId :
    (\A b \in Ballot : IdOf[b] = i => HonestBallot(b))
    => \A s \in Server : i \notin locked[s] \cup invalidated[s]

(* As long as every ballot verifies everywhere, no handler waits for ever, *)
(* and a server that has reached all peers once survives the end of a      *)
(* peer: without servers that stop by themselves none leaves.              *)
HonestBallotsHarmless ==
  (\A b \in Ballot : HonestBallot(b))
  => /\ idsHeld = {}
     /\ Cardinality(connected \ up) <= MaxCrashes
     /\ MaxCrashes = 0 => up = Server

(* What a step may never do: take back a decision, or touch the lists of a *)
(* decided id.                                                             *)
DecisionsFinal ==
  [][\A s \in Server : \A i \in VoteId :
       i \in delivered[s] \cup invalidated[s] =>
         /\ i \in delivered[s] <=> i \in delivered'[s]
         /\ i \in invalidated[s] <=> i \in invalidated'[s]
         /\ \A b \in Ballot : IdOf[b] = i =>
              /\ signatures'[s][b] = signatures[s][b]
              /\ tally'[s][b] = tally[s][b]]_vars

-----------------------------------------------------------------------------
(* Refinement.                                                             *)

(* The servers that signed a ballot, and the ballots a server counts.      *)
Signers(b) == {v \in Server : v \in signatures[v][b]}
Counted(s) == {b \in Ballot : tally[s][b] > 0}

Broadcast == INSTANCE VoteBroadcast WITH
               signers <- [b \in Ballot |-> Signers(b)],
               counted <- [s \in Server |-> Counted(s)]

(* While no answer to a client is lost, the servers implement the          *)
(* broadcast: no delivered ballot without n - t signers, no second ballot  *)
(* of an id.                                                               *)
ImplementsBroadcast == Broadcast!Spec

-----------------------------------------------------------------------------
(* What a comment promises and the code does not do.                       *)

(* "Verify received share. If fail, bail out and return error on RPC"      *)
(* (_CheckSignatures): a share that does not verify ends no server.        *)
EveryServerStays == MaxCrashes = 0 => up = Server

-----------------------------------------------------------------------------
(* Liveness.                                                               *)

LiveSpec == Spec /\ ServersProgress

(* A ballot that n - t servers have signed ends up in every tally, also    *)
(* when its client stops there, unless a server stops.                     *)
SignedBallotsCounted ==
  \A b \in Ballot :
    Cardinality(Signers(b)) >= Needed
      ~> \/ \A s \in Server : tally[s][b] = 1
         \/ up # Server

=============================================================================
