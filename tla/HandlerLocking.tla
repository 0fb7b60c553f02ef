--------------------------- MODULE HandlerLocking ---------------------------
(***************************************************************************)
(* One server, lock by lock: the handlers receiveClientShare,              *)
(* ReceiveServerShare and ChallengeVote of server/src/NetworkHTTPSImpl.go  *)
(* as goroutines that take receiverIdsLock, the lock of an entry and the   *)
(* shareLock of MPCControllerImpl.go, and hand shares to addShare over an  *)
(* unbuffered channel.                                                     *)
(*                                                                         *)
(* VoteDelivery takes all between the lock of an entry and its unlock as   *)
(* one step.  SectionsAtomic says when that is right: while no call        *)
(* `overtakes' another (Overtakes, LooksEarly).  The other         *)
(* properties hold of those schedules as well.                             *)
(*                                                                         *)
(* The peers run and are connected; what they send is a set of calls that  *)
(* is chosen at the start, and each call comes at any time.                *)
(***************************************************************************)
EXTENDS Thresholds, FiniteSets

CONSTANTS
  Server, Ballot, VoteId, NilId, IdOf, ValidAt, None,  \* as in VoteDelivery
  Here,        \* the server
  PeerCalls,   \* the calls of clients and peers that may reach it
  MaxCalls     \* bound: how many of them do

EntryId == VoteId \cup {NilId}

(* The calls: a POST, a ReceiveServerShare with the signatures of `from',  *)
(* a ChallengeVote of the sender in `from'.                                *)
PostOf(b) == [kind |-> "post", id |-> IdOf[b], ballot |-> b, from |-> {}]
ShareOf(b, S) == [kind |-> "share", id |-> IdOf[b], ballot |-> b, from |-> S]
ChallengeOf(i, b, v) ==
  [kind |-> "challenge", id |-> i, ballot |-> b, from |-> {v}]

(* Challenges the server floods, also to itself, with the id of the ballot *)
(* or that of the empty share.                                             *)
OwnChallenges ==
  {c \in {ChallengeOf(i, b, Here) : i \in EntryId, b \in Ballot} :
     c.id \in {IdOf[c.ballot], NilId}}

Call == PeerCalls \cup OwnChallenges

(* A ballot is posted once, and peers flood the signatures of each other:  *)
(* the server's own comes back to it only in calls that find it in the     *)
(* list, and do what they do without it.                                   *)
ASSUME HandlerLockingAssumption ==
  /\ IsFiniteSet(Server)
  /\ Here \in Server
  /\ IdOf \in [Ballot -> VoteId]
  /\ NilId \notin VoteId
  /\ PeerCalls \subseteq
       {PostOf(b) : b \in Ballot}
       \cup {ShareOf(b, S) : b \in Ballot, S \in SUBSET (Server \ {Here})}
       \cup {ChallengeOf(i, b, v) : i \in EntryId, b \in Ballot, v \in Server \ {Here}}
  /\ None \notin Call

VARIABLES
  pc,          \* where each call is
  ids,         \* who holds receiverIdsLock, or None
  lock,        \* who holds the lock of an entry, or None
  shareLock,   \* who holds shareLock, or None
  addShare,    \* the goroutine addShare "receives" or "adds"
  up,          \* the process runs
  known, bare, delivered, invalidated, seen, challenges, tally,
               \* the entries and the tally, as in VoteDelivery
  stored,      \* sharesReceived: the call that made the struct, or None
  sigs,        \* the signers in the struct a call made
  object,      \* the struct a call works on
  chosen,      \* the ballot whose share a call hands over
  tells,       \* calls that flood their struct in the end
  flooded,     \* own challenges that went out
  sent,        \* ballots that went out, with their signatures
  shown,       \* auxiliary: an entry as it was while nobody was in it
  overtaken,   \* auxiliary: a call overtook
  stuck        \* auxiliary: a call that keeps receiverIdsLock for ever

locks   == <<ids, lock, shareLock, addShare, up>>
entries == <<known, bare, delivered, invalidated, seen, challenges, stored, sigs>>
rest    == <<object, chosen, tells, flooded, sent, tally, stuck>>
vars    == <<pc, locks, entries, rest, overtaken, shown>>

(* Where a call is alone with its entry; "again" is behind the first of    *)
(* two releases.                                                           *)
Inside == {"check", "verify", "invalidate", "signatures", "doubt", "again",
           "handover", "send", "replay", "find", "unlock"}

Received(i) == {b \in Ballot : IdOf[b] = i /\ stored[b] # None}
List(b)     == IF stored[b] = None THEN {} ELSE sigs[stored[b]]
Enough(S)   == Cardinality(S) >= SignaturesNeeded(Cardinality(Server))
Ready(i)    == {b \in Received(i) : Enough(List(b))}
Pending(i)  == {c \in challenges : c.id = i}

(* Shares that cannot be decrypted, on which decryptShare panics, are not  *)
(* told from those that do not verify.                                     *)
Verifies(b) == Here \in ValidAt[b]

(* What is in an entry, and what handlers made of it outside.              *)
View(i) ==
  [known |-> i \in known, bare |-> i \in bare, delivered |-> i \in delivered,
   invalidated |-> i \in invalidated, received |-> Received(i),
   seen |-> IF i = NilId THEN {} ELSE seen[i], pending |-> Pending(i),
   lists |-> [b \in Ballot |-> IF IdOf[b] = i THEN List(b) ELSE {}],
   tally |-> [b \in Ballot |-> IF IdOf[b] = i THEN tally[b] ELSE 0],
   flooded |-> {c \in flooded : IdOf[c.ballot] = i}]

Occupied(i) == \E t \in Call : t.id = i /\ pc[t] \in Inside /\ t # stuck

(* A call gets the lock of an entry between the two releases, or of one    *)
(* that was invalidated since ChallengeVote looked.                        *)
Overtakes(t) ==
  \/ \E u \in Call : u.id = t.id /\ pc[u] = "again"
  \/ t.kind = "challenge" /\ t.id \in invalidated

(* ChallengeVote looks at an entry without its lock: it sees the decision  *)
(* of a handler that is still in the entry; or the challenge is the        *)
(* server's own, from such a handler.                                      *)
LooksEarly(t) ==
  \/ t.kind = "challenge" /\ t.id \in invalidated /\ Occupied(t.id)
  \/ t \in OwnChallenges /\ t \notin shown[IdOf[t.ballot]].flooded

Init ==
  /\ \E calls \in SUBSET PeerCalls :
       /\ Cardinality(calls) = MaxCalls
       /\ pc = [t \in Call |-> IF t \in calls THEN "start" ELSE "absent"]
  /\ ids = None
  /\ lock = [i \in EntryId |-> None]
  /\ shareLock = None
  /\ addShare = "receives"
  /\ up = TRUE
  /\ known = {} /\ bare = {} /\ delivered = {} /\ invalidated = {}
  /\ seen = [i \in VoteId |-> {}]
  /\ challenges = {}
  /\ tally = [b \in Ballot |-> 0]
  /\ stored = [b \in Ballot |-> None]
  /\ sigs = [t \in Call |-> {}]
  /\ object = [t \in Call |-> t]
  /\ chosen = [t \in Call |-> t.ballot]
  /\ tells = {}
  /\ flooded = {}
  /\ sent = {}
  /\ shown = [i \in EntryId |-> View(i)]
  /\ overtaken = FALSE
  /\ stuck = None

Goes(t, from, to) == up /\ pc[t] = from /\ pc' = [pc EXCEPT ![t] = to]

-----------------------------------------------------------------------------
(* receiverIdsLock, the look-up, and the lock of the entry.                *)

LookUp(t, to) ==
  /\ ids = None
  /\ Goes(t, "start", to)
  /\ overtaken' = (overtaken \/ LooksEarly(t))

(* The entry is there: wait for it, with receiverIdsLock.                  *)
Found(t) ==
  /\ LookUp(t, "wait")
  /\ t.id \in known
  /\ t.kind = "challenge" => t.id \notin invalidated
  /\ ids' = t
  /\ UNCHANGED <<lock, shareLock, addShare, up, entries, rest>>

ChallengeIgnored(t) ==
  /\ LookUp(t, "done")
  /\ t.kind = "challenge" /\ t.id \in invalidated
  /\ UNCHANGED <<locks, entries, rest>>

ChallengeUnknownId(t) ==
  /\ LookUp(t, "done")
  /\ t.kind = "challenge" /\ t.id \notin known
  /\ known' = known \cup {t.id}
  /\ bare' = bare \cup {t.id}
  /\ challenges' = challenges \cup {t}
  /\ UNCHANGED <<locks, delivered, invalidated, seen, stored, sigs, rest>>

(* A new entry is locked before receiverIdsLock is let go.                 *)
CreateUnlocked(t) ==
  /\ LookUp(t, "check")
  /\ t.kind \in {"post", "share"} /\ t.id \notin known
  /\ known' = known \cup {t.id}
  /\ UNCHANGED <<locks, bare, delivered, invalidated, seen, challenges, stored,
                 sigs, rest>>

Create(t) ==
  /\ LookUp(t, "check")
  /\ t.kind \in {"post", "share"} /\ t.id \notin known
  /\ known' = known \cup {t.id}
  /\ lock' = [lock EXCEPT ![t.id] = t]
  /\ UNCHANGED <<ids, shareLock, addShare, up, bare, delivered, invalidated, seen,
                 challenges, stored, sigs, rest>>

TakeLock(t) ==
  /\ Goes(t, "wait", IF t.kind = "challenge" THEN "find" ELSE "check")
  /\ lock[t.id] = None
  /\ lock' = [lock EXCEPT ![t.id] = t]
  /\ ids' = None
  /\ overtaken' = (overtaken \/ Overtakes(t))
  /\ UNCHANGED <<shareLock, addShare, up, entries, rest>>

-----------------------------------------------------------------------------
(* receiveClientShare and ReceiveServerShare inside the entry.             *)

Settled(t) == t.id \in delivered \cup invalidated

ReturnLocked(t) ==
  /\ Goes(t, "check", "done")
  /\ Settled(t)
  /\ UNCHANGED <<locks, entries, rest, overtaken>>

Return(t) ==
  /\ Goes(t, "check", "unlock")
  /\ Settled(t)
  /\ UNCHANGED <<locks, entries, rest, overtaken>>

(* Maps that are nil: net/http recovers and the lock is lost, net/rpc ends *)
(* the process.                                                            *)
OnBareEntry(t) ==
  /\ Goes(t, "check", IF t.kind = "post" THEN "panicked" ELSE "ended")
  /\ ~ Settled(t) /\ t.id \in bare
  /\ up' = (t.kind = "post")
  /\ UNCHANGED <<ids, lock, shareLock, addShare, entries, rest, overtaken>>

(* The own signature goes into the struct of the POST, or into the stored  *)
(* one, of which the POST takes a copy.                                    *)
SignCopy(t) ==
  /\ Goes(t, "check", "verify")
  /\ t.kind = "post" /\ ~ Settled(t) /\ t.id \notin bare
  /\ stored' = [stored EXCEPT ![t.ballot] = IF @ = None THEN t ELSE @]
  /\ sigs' = [sigs EXCEPT ![t] = List(t.ballot) \cup {Here}]
  /\ UNCHANGED <<locks, known, bare, delivered, invalidated, seen, challenges, rest,
                 overtaken>>

Sign(t) ==
  /\ Goes(t, "check", "verify")
  /\ t.kind = "post" /\ ~ Settled(t) /\ t.id \notin bare
  /\ LET signed == List(t.ballot) \cup {Here}
     IN  IF stored[t.ballot] = None
         THEN /\ stored' = [stored EXCEPT ![t.ballot] = t]
              /\ sigs' = [sigs EXCEPT ![t] = signed]
         ELSE /\ sigs' = [sigs EXCEPT ![t] = signed, ![stored[t.ballot]] = signed]
              /\ UNCHANGED stored
  /\ UNCHANGED <<locks, known, bare, delivered, invalidated, seen, challenges, rest,
                 overtaken>>

(* The share verifies; from now on the copy is the stored struct.          *)
Accept(t) ==
  /\ Goes(t, "verify", "signatures")
  /\ Verifies(t.ballot)
  /\ seen' = [seen EXCEPT ![t.id] = @ \cup {Here}]
  /\ stored' = [stored EXCEPT ![t.ballot] = t]
  /\ tells' = tells \cup {t}
  /\ UNCHANGED <<locks, known, bare, delivered, invalidated, challenges, sigs,
                 object, chosen, flooded, sent, tally, stuck, overtaken>>

Reject(t) ==
  /\ Goes(t, "verify", "unlock")
  /\ ~ Verifies(t.ballot) /\ ~ Enough(sigs[t])
  /\ UNCHANGED <<locks, entries, rest, overtaken>>

(* c goes to all servers, this one among them.                             *)
FloodChallenge(t, from, to, c) ==
  /\ up /\ pc[t] = from
  /\ pc' = [pc EXCEPT ![t] = to, ![c] = IF @ = "absent" THEN "start" ELSE @]
  /\ flooded' = flooded \cup {c}
  /\ UNCHANGED <<locks, entries, object, chosen, tells, sent, tally, stuck, overtaken>>

ChallengeBallot(t) ==
  /\ ~ Verifies(t.ballot) /\ Enough(sigs[t])
  /\ FloodChallenge(t, "verify", "invalidate", ChallengeOf(t.id, t.ballot, Here))

Invalidate(t) ==
  /\ Goes(t, "invalidate", "unlock")
  /\ invalidated' = invalidated \cup {t.id}
  /\ UNCHANGED <<locks, known, bare, delivered, seen, challenges, stored, sigs, rest,
                 overtaken>>

Merge(t) ==
  /\ Goes(t, "check", "signatures")
  /\ t.kind = "share" /\ ~ Settled(t) /\ t.id \notin bare
  /\ LET into == IF stored[t.ballot] = None THEN t ELSE stored[t.ballot]
         new  == t.from \ (seen[t.id] \cup List(t.ballot))
     IN  /\ object' = [object EXCEPT ![t] = into]
         /\ stored' = [stored EXCEPT ![t.ballot] = into]
         /\ sigs' = [sigs EXCEPT ![into] = @ \cup new]
         /\ seen' = [seen EXCEPT ![t.id] = @ \cup new]
         /\ tells' = IF new = {} THEN tells ELSE tells \cup {t}
  /\ UNCHANGED <<locks, known, bare, delivered, invalidated, challenges, chosen,
                 flooded, sent, tally, stuck, overtaken>>

-----------------------------------------------------------------------------
(* _CheckSignatures and NewShareArrived.                                   *)

NothingReady(t) ==
  /\ Goes(t, "signatures", "unlock")
  /\ Ready(t.id) = {}
  /\ UNCHANGED <<locks, entries, rest, overtaken>>

Deliver(t) ==
  /\ Goes(t, "signatures", "handover")
  /\ Pending(t.id) = {}
  /\ \E b \in Ready(t.id) : Verifies(b) /\ chosen' = [chosen EXCEPT ![t] = b]
  /\ delivered' = delivered \cup {t.id}
  /\ UNCHANGED <<locks, known, bare, invalidated, seen, challenges, stored, sigs,
                 object, tells, flooded, sent, tally, stuck, overtaken>>

TakeShareLock(t) ==
  /\ Goes(t, "handover", "send")
  /\ shareLock = None
  /\ shareLock' = t
  /\ UNCHANGED <<ids, lock, addShare, up, entries, rest, overtaken>>

(* The share goes over the channel when addShare receives.                 *)
SendShare(t) ==
  /\ Goes(t, "send", "unlock")
  /\ addShare = "receives"
  /\ addShare' = "adds"
  /\ tally' = [tally EXCEPT ![chosen[t]] = @ + 1]
  /\ shareLock' = None
  /\ UNCHANGED <<ids, lock, up, entries, object, chosen, tells, flooded, sent, stuck,
                 overtaken>>

AddShare ==
  /\ up /\ addShare = "adds"
  /\ addShare' = "receives"
  /\ UNCHANGED <<pc, ids, lock, shareLock, up, entries, rest, overtaken>>

(* A pending challenge is replayed by a call of ChallengeVote, which wants *)
(* receiverIdsLock and then the lock the caller has.                       *)
Replay(t) ==
  /\ Goes(t, "signatures", "replay")
  /\ Pending(t.id) # {}
  /\ \E b \in Ready(t.id) : Verifies(b)
  /\ UNCHANGED <<locks, entries, rest, overtaken>>

ReplayTakesIds(t) ==
  /\ Goes(t, "replay", "replay")
  /\ ids = None
  /\ ids' = t
  /\ UNCHANGED <<lock, shareLock, addShare, up, entries, rest, overtaken>>

ChallengeOwnShare(t) ==
  \E b \in Ready(t.id) :
    /\ ~ Verifies(b)
    /\ FloodChallenge(t, "signatures", "doubt", ChallengeOf(NilId, b, Here))

(* _CheckSignatures invalidates, and releases what its caller releases.    *)
FirstReleaseUndecided(t) ==
  /\ Goes(t, "doubt", "again")
  /\ lock' = [lock EXCEPT ![t.id] = None]
  /\ UNCHANGED <<ids, shareLock, addShare, up, entries, rest, overtaken>>

FirstRelease(t) ==
  /\ Goes(t, "doubt", "again")
  /\ invalidated' = invalidated \cup {t.id}
  /\ lock' = [lock EXCEPT ![t.id] = None]
  /\ UNCHANGED <<ids, shareLock, addShare, up, known, bare, delivered, seen,
                 challenges, stored, sigs, rest, overtaken>>

-----------------------------------------------------------------------------
(* The end of a handler and the floods.                                    *)

(* lock.Unlock of a lock that nobody holds ends the process.  It does not  *)
(* ask who holds it.                                                       *)
Release(t, from, to) ==
  /\ Goes(t, from, IF lock[t.id] = None THEN "ended" ELSE to)
  /\ up' = (lock[t.id] # None)
  /\ lock' = [lock EXCEPT ![t.id] = None]
  /\ UNCHANGED <<ids, shareLock, addShare, entries, rest, overtaken>>

TellsUnlessDelivered(t) == t \in tells /\ t.id \notin delivered

Tells(t) == t \in tells

Unlock(t) ==
  \E from \in {"unlock", "again"} :
    Release(t, from, IF ~ Tells(t) THEN "done"
                     ELSE IF t.kind = "post" THEN "flood" ELSE "delayed")

(* sendDelayedMessage takes the entry's lock once more.                    *)
Delayed(t) ==
  /\ Goes(t, "delayed", "resume")
  /\ lock[t.id] = None
  /\ lock' = [lock EXCEPT ![t.id] = t]
  /\ overtaken' = (overtaken \/ Overtakes(t))
  /\ UNCHANGED <<ids, shareLock, addShare, up, entries, rest>>

Resume(t) == Release(t, "resume", "flood")

(* Without a lock, whatever is in the struct by now.                       *)
Flood(t) ==
  /\ Goes(t, "flood", "done")
  /\ sent' = sent \cup {[ballot |-> t.ballot, sigs |-> sigs[object[t]]]}
  /\ UNCHANGED <<locks, entries, object, chosen, tells, flooded, tally, stuck, overtaken>>

-----------------------------------------------------------------------------
(* ChallengeVote inside the entry.                                         *)

ChallengeKept(t) ==
  /\ Goes(t, "find", "unlock")
  /\ t.ballot \notin Received(t.id)
  /\ challenges' = challenges \cup {t}
  /\ UNCHANGED <<locks, known, bare, delivered, invalidated, seen, stored, sigs, rest,
                 overtaken>>

ChallengeLeaksLock(t) ==
  /\ Goes(t, "find", "leaked")
  /\ t.ballot \in Received(t.id)
  /\ challenges' = IF t.ballot \in Ready(t.id) THEN challenges
                   ELSE challenges \cup {t}
  /\ UNCHANGED <<locks, known, bare, delivered, invalidated, seen, stored, sigs, rest,
                 overtaken>>

-----------------------------------------------------------------------------
(* A call waits for a lock that is lost, or replays and waits for itself,  *)
(* with receiverIdsLock taken.  The auxiliary step says so once nobody     *)
(* else is in an entry and could still leave it.                           *)
Lost(i) == lock[i] # None /\ pc[lock[i]] \in {"leaked", "panicked"}

Replays(t) == pc[t] = "replay"

WaitsForEver(t) ==
  \/ Replays(t)
  \/ pc[t] = "wait" /\ (Lost(t.id) \/ (lock[t.id] # None /\ Replays(lock[t.id])))

Stick(t) ==
  /\ up /\ stuck = None
  /\ ids # None /\ WaitsForEver(ids)
  /\ \/ ids = t /\ pc[t] = "wait" /\ Lost(t.id)
     \/ Replays(t)
  /\ \A u \in Call \ {t} : pc[u] \in Inside => Replays(u) /\ Replays(t)
  /\ stuck' = t
  /\ UNCHANGED <<pc, locks, entries, object, chosen, tells, flooded, sent, tally, overtaken>>

Step(t) ==
  \/ Found(t) \/ ChallengeIgnored(t) \/ ChallengeUnknownId(t) \/ Create(t)
  \/ TakeLock(t) \/ Return(t) \/ OnBareEntry(t)
  \/ Sign(t) \/ Accept(t) \/ Reject(t) \/ ChallengeBallot(t) \/ Invalidate(t)
  \/ Merge(t) \/ NothingReady(t) \/ Deliver(t) \/ TakeShareLock(t) \/ SendShare(t)
  \/ Replay(t) \/ ReplayTakesIds(t) \/ ChallengeOwnShare(t) \/ FirstRelease(t)
  \/ Unlock(t) \/ Delayed(t) \/ Resume(t) \/ Flood(t)
  \/ ChallengeKept(t) \/ ChallengeLeaksLock(t)
  \/ Stick(t)

Shows == shown' = [i \in EntryId |-> IF Occupied(i)' THEN shown[i] ELSE View(i)']

Next == (AddShare \/ \E t \in Call : Step(t)) /\ Shows

(* Go runs what is not blocked.  Calls are finite and do not loop, so that *)
(* fairness to all of them together lets each one go on.                   *)
Spec == Init /\ [][Next]_vars /\ WF_vars(Next)

-----------------------------------------------------------------------------
(* Several handlers of one entry may be inside it in the schedules that    *)
(* overtake.  Even then the tally gets one ballot of an id at most, once,  *)
(* and none of an id that is invalidated.                                  *)
HandedOverOnce ==
  \A b \in Ballot : tally[b] > 0 =>
    /\ tally[b] = 1
    /\ IdOf[b] \notin invalidated
    /\ \A c \in Ballot : IdOf[c] = IdOf[b] /\ c # b => tally[c] = 0

(* A handler lost a lock, panicked, replayed a challenge or ended the      *)
(* process.                                                                *)
Failed == \E t \in Call : pc[t] \in {"leaked", "panicked", "replay", "ended"}

(* Locks are taken in one order: receiverIdsLock, entry, shareLock.  Every *)
(* call comes to its end, unless a handler failed.                         *)
EveryCallEnds == <>[](Failed \/ \A t \in Call : pc[t] \in {"absent", "done"})

(* Other calls get the entry between the two releases, and more than one   *)
(* may be in it then.  From the first release on they find it invalidated: *)
(* they sign, merge, deliver and challenge nothing any more, whoever's     *)
(* lock the second release takes.  Challenges may still be kept.           *)
Condemned(i) ==
  i \in invalidated \/ \E t \in Call : t.id = i /\ pc[t] = "again"

CondemnedKept ==
  [][\A i \in VoteId : Condemned(i) =>
       View(i)' = [View(i) EXCEPT !.pending = Pending(i)']]_vars

(* A signature in the list of a ballot that verifies here is told to the   *)
(* peers, although later posts replace the struct and what is flooded is   *)
(* read without a lock; unless a handler failed.                           *)
SignaturesTold ==
  <>[](Failed \/ \A b \in Ballot : Verifies(b) =>
         \A v \in List(b) : \E m \in sent : m.ballot = b /\ v \in m.sigs)

-----------------------------------------------------------------------------
(* VoteDelivery, with its network at its worst: any message may be there.  *)
(* What it speaks of is what is shown of the entries here.                 *)
ForHere(S, empty) == [s \in Server |-> IF s = Here THEN S ELSE empty]

Posts(b, points) ==
  \E t \in Call : t.kind = "post" /\ t.ballot = b /\ pc[t] \in points

StaysWith(b) ==
  Posts(b, {"panicked", "ended"}) \/ (stuck # None /\ stuck = PostOf(b))

AsChallenge(c) == [id |-> c.id, ballot |-> c.ballot, sender |-> CHOOSE v \in c.from : TRUE]

AllFlooded == UNION {shown[i].flooded : i \in VoteId}

UnderWay ==
  {t \in Call : /\ t.kind = "challenge" /\ t # stuck
                /\ pc[t] \in Inside \cup {"start", "wait"}
                /\ t \in OwnChallenges => t \in AllFlooded}

ShownUnsent ==
  [b \in Ballot |->
    IF Posts(b, Inside \cup {"start", "wait", "panicked", "ended"}) THEN {Here} ELSE {}]
ShownTarget == [b \in Ballot |-> IF StaysWith(b) THEN Here ELSE None]
ShownRetries == [b \in Ballot |-> 0]
ShownKnown == ForHere({i \in EntryId : shown[i].known}, {})
ShownBare == ForHere({i \in EntryId : shown[i].bare}, {})
ShownReceived == ForHere(UNION {shown[i].received : i \in VoteId}, {})
ShownSignatures ==
  ForHere([b \in Ballot |-> shown[IdOf[b]].lists[b]], [b \in Ballot |-> {}])
ShownOwnCopies == ForHere([b \in Ballot |-> 0], [b \in Ballot |-> 0])
ShownSeen == ForHere([i \in VoteId |-> shown[i].seen], [i \in VoteId |-> {}])
ShownDelivered == ForHere({i \in VoteId : shown[i].delivered}, {})
ShownInvalidated == ForHere({i \in VoteId : shown[i].invalidated}, {})
ShownChallenges ==
  ForHere({AsChallenge(c) : c \in UNION {shown[i].pending : i \in EntryId}}, {})
ShownLocked ==
  ForHere({i \in EntryId : Lost(i) \/ (stuck # None /\ stuck.id = i /\ Replays(stuck))}, {})
ShownIdsHeld == IF stuck = None THEN {} ELSE {Here}
ShownUp == IF up THEN Server ELSE Server \ {Here}
ShownOutgoing ==
  ForHere({t.ballot : t \in {u \in Call : pc[u] \in {"delayed", "resume", "flood"}}}, {})
ShownTally ==
  ForHere([b \in Ballot |-> shown[IdOf[b]].tally[b]], [b \in Ballot |-> 0])
AnyShareMsgs == [ballot : Ballot, sigs : SUBSET Server]
ShownInbox ==
  [s \in Server |-> {AsChallenge(c) : c \in IF s = Here THEN UnderWay ELSE AllFlooded}]

Delivery == INSTANCE VoteDelivery WITH
  PostedTo <- [b \in Ballot |-> {Here}], MaxRetries <- 0, MaxCrashes <- 0,
  unsent <- ShownUnsent, target <- ShownTarget, retries <- ShownRetries,
  known <- ShownKnown, bare <- ShownBare, received <- ShownReceived,
  signatures <- ShownSignatures, ownCopies <- ShownOwnCopies, seen <- ShownSeen,
  delivered <- ShownDelivered, invalidated <- ShownInvalidated,
  challenges <- ShownChallenges, locked <- ShownLocked,
  idsHeld <- ShownIdsHeld, up <- ShownUp, connected <- Server,
  outgoing <- ShownOutgoing, tally <- ShownTally,
  shareMsgs <- AnyShareMsgs, inbox <- ShownInbox

(* While no call overtakes, a handler is one step of VoteDelivery, and all *)
(* its other steps change nothing VoteDelivery speaks of.                  *)
SectionsAtomic == [][overtaken' \/ Delivery!Next]_(Delivery!vars)
=============================================================================
