------------------------- MODULE VoteDeliveryProofs -------------------------
(***************************************************************************)
(* Theorems about VoteDelivery, for every set of servers, ballots and      *)
(* vote ids.                                                               *)
(***************************************************************************)
EXTENDS VoteDelivery, FiniteSetTheorems, TLAPS

-----------------------------------------------------------------------------
(* Type correctness.                                                       *)

(* Adding to one of the sets a function holds. *)
LEMMA AddTyped ==
  ASSUME NEW S, NEW T, NEW f \in [S -> SUBSET T], NEW s \in S, NEW e \in T
  PROVE  [f EXCEPT ![s] = @ \cup {e}] \in [S -> SUBSET T]
OBVIOUS

LEMMA FloodTyped ==
  ASSUME Typed, NEW c \in Challenge, NEW peers, FloodChallenge(c, peers)
  PROVE  inbox' \in [Server -> SUBSET Challenge]
BY DEF Typed, FloodChallenge

(* What _CheckSignatures writes keeps its type. *)
LEMMA CheckSignaturesTyped ==
  ASSUME Typed, NEW s \in Server, NEW id \in VoteId, NEW recovered \in BOOLEAN,
         received' \in [Server -> SUBSET Ballot],
         \/ CheckSignaturesReturns(s, id)
         \/ CheckSignaturesNeverReturns(s, id, recovered)
  PROVE  /\ delivered'   \in [Server -> SUBSET VoteId]
         /\ invalidated' \in [Server -> SUBSET VoteId]
         /\ locked'      \in [Server -> SUBSET EntryId]
         /\ idsHeld'     \in SUBSET Server
         /\ up'          \in SUBSET Server
         /\ tally'       \in [Server -> [Ballot -> Nat]]
         /\ inbox'       \in [Server -> SUBSET Challenge]
<1>1. CASE NothingReady(s, id)
  BY <1>1 DEF NothingReady, Typed
<1>r. Ready(s, id) \subseteq Ballot
  BY DEF Ready, Quorate
<1>2. CASE Deliver(s, id)
  BY <1>2, <1>r DEF Deliver, Typed
<1>3. CASE ReplayChallenge(s, id)
  BY <1>3 DEF ReplayChallenge, Typed, EntryId
<1>4. CASE ChallengeOwnShare(s, id)
  <2>1. PICK c \in Ballot :
          /\ FloodChallenge([id |-> NilId, ballot |-> c, sender |-> s], Server)
          /\ invalidated' = [invalidated EXCEPT ![s] = @ \cup {id}]
          /\ up' = up \ {s}
          /\ UNCHANGED <<delivered, tally, locked, idsHeld>>
    BY <1>4, <1>r DEF ChallengeOwnShare
  <2>2. inbox' \in [Server -> SUBSET Challenge]
    BY <2>1, FloodTyped DEF EntryId, Challenge
  <2> QED
    BY <2>1, <2>2 DEF Typed
<1>5. CASE ChallengeOwnSharePanics(s, id, recovered)
  <2>1. PICK c \in Ballot, reached \in SUBSET up :
          /\ FloodChallenge([id |-> NilId, ballot |-> c, sender |-> s], reached)
          /\ IF recovered
             THEN locked' = [locked EXCEPT ![s] = @ \cup {id}] /\ up' = up
             ELSE up' = up \ {s} /\ locked' = locked
          /\ UNCHANGED <<delivered, tally, invalidated, idsHeld>>
    BY <1>5, <1>r DEF ChallengeOwnSharePanics
  <2>2. inbox' \in [Server -> SUBSET Challenge]
    BY <2>1, FloodTyped DEF EntryId, Challenge
  <2>3. locked' \in [Server -> SUBSET EntryId] /\ up' \in SUBSET Server
    <3>1. /\ locked \in [Server -> SUBSET EntryId]
          /\ up \in SUBSET Server
          /\ id \in EntryId
      BY DEF Typed, EntryId
    <3>2. /\ locked' = [locked EXCEPT ![s] = @ \cup {id}] \/ locked' = locked
          /\ up' = up \/ up' = up \ {s}
      BY <2>1
    <3> QED
      BY <3>1, <3>2, AddTyped
  <2> QED
    BY <2>1, <2>2, <2>3 DEF Typed
<1> QED
  BY <1>1, <1>2, <1>3, <1>4, <1>5
  DEF CheckSignaturesReturns, CheckSignaturesNeverReturns

(* What a POST writes on the client's side keeps its type. *)
LEMMA ClientTyped ==
  ASSUME Typed, NEW b \in Ballot, NEW s \in Server,
         ClientAnswered(b, s) \/ ClientStuck(b, s)
  PROVE  /\ unsent'  \in [Ballot -> SUBSET Server]
         /\ target'  \in [Ballot -> Server \cup {None}]
         /\ retries' \in [Ballot -> 0 .. MaxRetries]
<1>1. CASE ClientStuck(b, s)
  BY <1>1 DEF ClientStuck, Typed
<1>2. CASE ClientAnswered(b, s)
  <2>1. CASE /\ unsent' = [unsent EXCEPT ![b] = @ \ {s}]
             /\ target' = [target EXCEPT ![b] = None]
             /\ UNCHANGED retries
    BY <2>1 DEF Typed
  <2>2. CASE /\ retries[b] < MaxRetries
             /\ retries' = [retries EXCEPT ![b] = @ + 1]
             /\ target' = [target EXCEPT ![b] = s]
             /\ UNCHANGED unsent
    BY <2>2, ConstantsAssumption DEF Typed
  <2> QED
    BY <1>2, <2>1, <2>2 DEF ClientAnswered
<1> QED
  BY <1>1, <1>2

(* The server's signature. *)
LEMMA SignTyped ==
  ASSUME Typed, NEW b \in Ballot, NEW s \in Server, SignBallot(b, s)
  PROVE  /\ known'      \in [Server -> SUBSET EntryId]
         /\ received'   \in [Server -> SUBSET Ballot]
         /\ signatures' \in [Server -> [Ballot -> SUBSET Server]]
         /\ ownCopies'  \in [Server -> [Ballot -> Nat]]
<1>1. IdOf[b] \in EntryId
  BY ConstantsAssumption DEF EntryId
<1>t. /\ signatures \in [Server -> [Ballot -> SUBSET Server]]
      /\ ownCopies \in [Server -> [Ballot -> Nat]]
  BY DEF Typed
<1>2. known' \in [Server -> SUBSET EntryId] /\ received' \in [Server -> SUBSET Ballot]
  BY <1>1 DEF SignBallot, Typed
<1>3. CASE s \in signatures[s][b]
  <2>1. /\ ownCopies' = [ownCopies EXCEPT ![s][b] = @ + 1]
        /\ signatures' = signatures
    BY <1>3 DEF SignBallot
  <2> QED
    BY <1>2, <1>t, <2>1
<1>4. CASE s \notin signatures[s][b]
  <2>1. /\ signatures' = [signatures EXCEPT ![s][b] = @ \cup {s}]
        /\ ownCopies' = ownCopies
    BY <1>4 DEF SignBallot
  <2> QED
    BY <1>2, <1>t, <2>1
<1> QED
  BY <1>3, <1>4

LEMMA PostTyped ==
  ASSUME Typed, NEW b \in Ballot, NEW s \in Server, Post(b, s)
  PROVE  Typed'
<1>id. IdOf[b] \in VoteId /\ IdOf[b] \in EntryId
  BY ConstantsAssumption DEF EntryId
<1>1. CASE PostUnanswered(b, s)
  BY <1>1, ClientTyped
  DEF PostUnanswered, Typed, entryVars, serverVars, netVars
<1>2. CASE ClientShareBlocks(b, s)
  BY <1>2, ClientTyped DEF ClientShareBlocks, Typed, entryVars, netVars
<1>3. CASE ClientShareIgnored(b, s)
  BY <1>3, ClientTyped
  DEF ClientShareIgnored, Typed, entryVars, serverVars, netVars
<1>4. CASE ClientShareOnBareEntry(b, s)
  BY <1>4, <1>id, ClientTyped
  DEF ClientShareOnBareEntry, Typed, serverVars, netVars
<1>5. CASE ClientShareAccepted(b, s)
  <2>1. /\ known'      \in [Server -> SUBSET EntryId]
        /\ received'   \in [Server -> SUBSET Ballot]
        /\ signatures' \in [Server -> [Ballot -> SUBSET Server]]
        /\ ownCopies'  \in [Server -> [Ballot -> Nat]]
    BY <1>5, SignTyped DEF ClientShareAccepted, ClientShareSigned
  <2>2. /\ delivered'   \in [Server -> SUBSET VoteId]
        /\ invalidated' \in [Server -> SUBSET VoteId]
        /\ locked'      \in [Server -> SUBSET EntryId]
        /\ idsHeld'     \in SUBSET Server
        /\ up'          \in SUBSET Server
        /\ tally'       \in [Server -> [Ballot -> Nat]]
        /\ inbox'       \in [Server -> SUBSET Challenge]
    BY <1>5, <1>id, <2>1, CheckSignaturesTyped DEF ClientShareAccepted
  <2>3. /\ unsent'  \in [Ballot -> SUBSET Server]
        /\ target'  \in [Ballot -> Server \cup {None}]
        /\ retries' \in [Ballot -> 0 .. MaxRetries]
    BY <1>5, ClientTyped DEF ClientShareAccepted
  <2>4. outgoing' \in [Server -> SUBSET Ballot]
    <3>1. \/ UNCHANGED outgoing
          \/ outgoing' = [outgoing EXCEPT ![s] = @ \cup {b}]
      BY <1>5 DEF ClientShareAccepted
    <3>2. outgoing \in [Server -> SUBSET Ballot]
      BY DEF Typed
    <3> QED
      BY <3>1, <3>2, AddTyped
  <2>5. seen' \in [Server -> [VoteId -> SUBSET Server]]
    BY <1>5, <1>id DEF ClientShareAccepted, Typed
  <2> QED
    BY <1>5, <2>1, <2>2, <2>3, <2>4, <2>5 DEF ClientShareAccepted, Typed
<1>6. CASE ClientShareRejected(b, s)
  <2>1. outgoing' \in [Server -> SUBSET Ballot]
    <3>1. \/ UNCHANGED outgoing
          \/ outgoing' = [outgoing EXCEPT ![s] = @ \cup {b}]
      BY <1>6 DEF ClientShareRejected, EarlierFlood
    <3>2. outgoing \in [Server -> SUBSET Ballot]
      BY DEF Typed
    <3> QED
      BY <3>1, <3>2, AddTyped
  <2> QED
    BY <1>6, <2>1, SignTyped, ClientTyped
    DEF ClientShareRejected, ClientShareSigned, Typed, netVars
<1>7. CASE ClientShareChallenged(b, s)
  <2>1. outgoing' \in [Server -> SUBSET Ballot]
    <3>1. \/ UNCHANGED outgoing
          \/ outgoing' = [outgoing EXCEPT ![s] = @ \cup {b}]
      BY <1>7 DEF ClientShareChallenged, EarlierFlood
    <3>2. outgoing \in [Server -> SUBSET Ballot]
      BY DEF Typed
    <3> QED
      BY <3>1, <3>2, AddTyped
  <2>2. [id |-> IdOf[b], ballot |-> b, sender |-> s] \in Challenge
    BY <1>id DEF Challenge
  <2>3. inbox' \in [Server -> SUBSET Challenge]
    BY <1>7, <2>2, FloodTyped DEF ClientShareChallenged
  <2>4. /\ locked' \in [Server -> SUBSET EntryId]
        /\ invalidated' \in [Server -> SUBSET VoteId]
        /\ connected' \in SUBSET Server
    <3>1. /\ \/ UNCHANGED locked
             \/ locked' = [locked EXCEPT ![s] = @ \cup {IdOf[b]}]
          /\ \/ UNCHANGED invalidated
             \/ invalidated' = [invalidated EXCEPT ![s] = @ \cup {IdOf[b]}]
          /\ UNCHANGED connected \/ connected' = connected \cup {s}
      BY <1>7 DEF ClientShareChallenged
    <3>2. /\ locked \in [Server -> SUBSET EntryId]
          /\ invalidated \in [Server -> SUBSET VoteId]
          /\ connected \in SUBSET Server
      BY DEF Typed
    <3> QED
      BY <3>1, <3>2, <1>id, AddTyped
  <2>5. /\ unsent'  \in [Ballot -> SUBSET Server]
        /\ target'  \in [Ballot -> Server \cup {None}]
        /\ retries' \in [Ballot -> 0 .. MaxRetries]
    BY <1>7, ClientTyped DEF ClientShareChallenged
  <2> QED
    BY <1>7, <2>1, <2>3, <2>4, <2>5, SignTyped
    DEF ClientShareChallenged, ClientShareSigned, Typed
<1> QED
  BY <1>1, <1>2, <1>3, <1>4, <1>5, <1>6, <1>7 DEF Post

LEMMA ReceiveTyped ==
  ASSUME Typed, NEW s \in Server, NEW m \in shareMsgs, ReceiveServerShare(s, m)
  PROVE  Typed'
<1>m. m.ballot \in Ballot /\ m.sigs \subseteq Server
  BY DEF Typed, ShareMsg
<1>id. IdOf[m.ballot] \in VoteId /\ IdOf[m.ballot] \in EntryId
  BY <1>m, ConstantsAssumption DEF EntryId
<1>1. CASE ServerShareBlocks(s, m)
  BY <1>1 DEF ServerShareBlocks, Typed, clientVars, entryVars, netVars
<1>2. CASE ServerShareOnBareEntry(s, m)
  BY <1>2 DEF ServerShareOnBareEntry, Typed, clientVars, entryVars, netVars
<1>3. CASE ServerShareMerged(s, m)
  <2> DEFINE b   == m.ballot
             id  == IdOf[m.ballot]
             new == NewSignatures(s, m)
  <2>1. new \subseteq Server
    BY <1>m DEF NewSignatures
  <2>2. /\ known' = [known EXCEPT ![s] = @ \cup {id}]
        /\ received' = [received EXCEPT ![s] = @ \cup {b}]
        /\ signatures' = [signatures EXCEPT ![s][b] = @ \cup new]
        /\ seen' = [seen EXCEPT ![s][id] = @ \cup new]
        /\ UNCHANGED ownCopies
        /\ \/ outgoing' = [outgoing EXCEPT ![s] = @ \cup {b}]
           \/ UNCHANGED outgoing
        /\ \/ CheckSignaturesReturns(s, id)
           \/ CheckSignaturesNeverReturns(s, id, FALSE)
        /\ UNCHANGED <<clientVars, bare, challenges, connected, shareMsgs>>
    BY <1>3 DEF ServerShareMerged
  <2> HIDE DEF new
  <2>3. /\ known'      \in [Server -> SUBSET EntryId]
        /\ received'   \in [Server -> SUBSET Ballot]
        /\ signatures' \in [Server -> [Ballot -> SUBSET Server]]
        /\ ownCopies'  \in [Server -> [Ballot -> Nat]]
        /\ seen'       \in [Server -> [VoteId -> SUBSET Server]]
        /\ outgoing'   \in [Server -> SUBSET Ballot]
    <3>1. known' \in [Server -> SUBSET EntryId] /\ received' \in [Server -> SUBSET Ballot]
      BY <1>m, <1>id, <2>2 DEF Typed
    <3>2. signatures' \in [Server -> [Ballot -> SUBSET Server]]
      BY <1>m, <2>1, <2>2 DEF Typed
    <3>3. seen' \in [Server -> [VoteId -> SUBSET Server]]
      BY <1>id, <2>1, <2>2 DEF Typed
    <3>4. outgoing' \in [Server -> SUBSET Ballot] /\ ownCopies' = ownCopies
      <4>1. outgoing \in [Server -> SUBSET Ballot]
        BY DEF Typed
      <4> QED
        BY <1>m, <2>2, <4>1, AddTyped
    <3> QED
      BY <3>1, <3>2, <3>3, <3>4 DEF Typed
  <2>4. /\ delivered'   \in [Server -> SUBSET VoteId]
        /\ invalidated' \in [Server -> SUBSET VoteId]
        /\ locked'      \in [Server -> SUBSET EntryId]
        /\ idsHeld'     \in SUBSET Server
        /\ up'          \in SUBSET Server
        /\ tally'       \in [Server -> [Ballot -> Nat]]
        /\ inbox'       \in [Server -> SUBSET Challenge]
    BY <1>id, <2>2, <2>3, CheckSignaturesTyped
  <2> QED
    BY <2>2, <2>3, <2>4 DEF Typed, clientVars
<1> QED
  BY <1>1, <1>2, <1>3 DEF ReceiveServerShare

LEMMA FloodMsgTyped ==
  ASSUME Typed, NEW s \in Server, NEW b \in Ballot, Flood(s, b)
  PROVE  Typed'
<1>m. CurrentMsg(s, b) \in ShareMsg
  BY DEF CurrentMsg, ShareMsg, Typed
<1>1. CASE Send(s, b)
  BY <1>1, <1>m DEF Send, Typed, clientVars, entryVars
<1>2. CASE SendPanics(s, b)
  BY <1>2, <1>m DEF SendPanics, Typed, clientVars, entryVars
<1> QED
  BY <1>1, <1>2 DEF Flood

LEMMA ChallengeTyped ==
  ASSUME Typed, NEW s \in Server, NEW c \in inbox[s], ChallengeVote(s, c)
  PROVE  Typed'
<1>c. c \in Challenge /\ c.id \in EntryId
  BY DEF Typed, Challenge
<1>t. TakeChallenge(s, c)
  BY DEF ChallengeVote, ChallengeUnknownId, ChallengeIgnored, ChallengeBlocks,
         ChallengeKept, ChallengeLeaksLock, ChallengeRuns
<1>1. CASE ChallengeUnknownId(s, c)
  BY <1>1, <1>c, <1>t
  DEF ChallengeUnknownId, TakeChallenge, KeepChallenge, Typed, clientVars
<1>2. CASE ChallengeIgnored(s, c)
  BY <1>2, <1>c, <1>t
  DEF ChallengeIgnored, TakeChallenge, Typed, clientVars, entryVars
<1>3. CASE ChallengeBlocks(s, c)
  BY <1>3, <1>c, <1>t
  DEF ChallengeBlocks, TakeChallenge, Typed, clientVars, entryVars
<1>4. CASE ChallengeKept(s, c)
  BY <1>4, <1>c, <1>t
  DEF ChallengeKept, TakeChallenge, KeepChallenge, Typed, clientVars
<1>5. CASE ChallengeLeaksLock(s, c)
  <2>1. /\ UNCHANGED challenges \/ challenges' = [challenges EXCEPT ![s] = @ \cup {c}]
        /\ locked' = [locked EXCEPT ![s] = @ \cup {c.id}]
        /\ UNCHANGED <<known, bare, received, signatures, ownCopies, seen,
                       delivered, invalidated, idsHeld>>
    BY <1>5 DEF ChallengeLeaksLock, KeepChallenge
  <2>2. challenges' \in [Server -> SUBSET Challenge] /\ locked' \in [Server -> SUBSET EntryId]
    <3>1. challenges \in [Server -> SUBSET Challenge] /\ locked \in [Server -> SUBSET EntryId]
      BY DEF Typed
    <3> QED
      BY <2>1, <1>c, <3>1, AddTyped
  <2> QED
    BY <2>1, <2>2, <1>t DEF TakeChallenge, Typed, clientVars
<1> QED
  BY <1>1, <1>2, <1>3, <1>4, <1>5 DEF ChallengeVote

LEMMA InitTyped == Init => Typed
BY ConstantsAssumption DEF Init, Typed, EntryId

LEMMA NextTyped == Typed /\ [Next]_vars => Typed'
<1> SUFFICES ASSUME Typed, [Next]_vars PROVE Typed'
  OBVIOUS
<1>1. CASE UNCHANGED vars
  BY <1>1 DEF Typed, vars, clientVars, entryVars, serverVars, netVars
<1>2. CASE \E s \in Server : Crash(s)
  BY <1>2 DEF Crash, Typed, clientVars, entryVars, netVars
<1> QED
  BY <1>1, <1>2, PostTyped, ReceiveTyped, FloodMsgTyped, ChallengeTyped DEF Next
-----------------------------------------------------------------------------
(* What a step does to the lists of signatures, the messages and the       *)
(* tallies, whichever action it is.                                        *)

ListsKept == UNCHANGED <<signatures, ownCopies, seen>>

ListSigned ==
  \E s \in Server, b \in Ballot :
    /\ SignBallot(b, s)
    /\ \/ UNCHANGED seen
       \/ seen' = [seen EXCEPT ![s][IdOf[b]] = @ \cup {s}]

ListMerged ==
  \E s \in Server, m \in shareMsgs :
    /\ signatures' = [signatures EXCEPT ![s][m.ballot] = @ \cup NewSignatures(s, m)]
    /\ seen' = [seen EXCEPT ![s][IdOf[m.ballot]] = @ \cup NewSignatures(s, m)]
    /\ UNCHANGED ownCopies

MessagesGrow ==
  \/ UNCHANGED shareMsgs
  \/ /\ UNCHANGED signatures
     /\ \E s \in Server, b \in Ballot :
          shareMsgs' \subseteq shareMsgs \cup {CurrentMsg(s, b)}

TallyGrows ==
  \/ UNCHANGED <<tally, delivered>>
  \/ \E s \in Server, id \in VoteId : ~ Settled(s, id) /\ Deliver(s, id)

StepEffect ==
  /\ ListsKept \/ ListSigned \/ ListMerged
  /\ MessagesGrow
  /\ TallyGrows

LEMMA CheckSignaturesEffect ==
  ASSUME NEW s, NEW id \in VoteId, NEW recovered,
         \/ CheckSignaturesReturns(s, id)
         \/ CheckSignaturesNeverReturns(s, id, recovered)
  PROVE  UNCHANGED <<tally, delivered>> \/ Deliver(s, id)
BY DEF CheckSignaturesReturns, CheckSignaturesNeverReturns, NothingReady,
       ReplayChallenge, ChallengeOwnShare, ChallengeOwnSharePanics

LEMMA PostEffect ==
  ASSUME NEW b \in Ballot, NEW s \in Server, Post(b, s)
  PROVE  StepEffect
<1>id. IdOf[b] \in VoteId
  BY ConstantsAssumption
<1>1. CASE PostUnanswered(b, s)
  BY <1>1 DEF PostUnanswered, StepEffect, ListsKept, MessagesGrow, TallyGrows,
              entryVars, serverVars, netVars
<1>2. CASE ClientShareBlocks(b, s)
  BY <1>2 DEF ClientShareBlocks, StepEffect, ListsKept, MessagesGrow, TallyGrows,
              entryVars, netVars
<1>3. CASE ClientShareIgnored(b, s)
  BY <1>3 DEF ClientShareIgnored, StepEffect, ListsKept, MessagesGrow, TallyGrows,
              entryVars, serverVars, netVars
<1>4. CASE ClientShareOnBareEntry(b, s)
  BY <1>4 DEF ClientShareOnBareEntry, StepEffect, ListsKept, MessagesGrow,
              TallyGrows, serverVars, netVars
<1>5. CASE ClientShareAccepted(b, s)
  <2>1. ListSigned /\ MessagesGrow
    BY <1>5 DEF ClientShareAccepted, ClientShareSigned, ListSigned, MessagesGrow
  <2>2. UNCHANGED <<tally, delivered>> \/ Deliver(s, IdOf[b])
    BY <1>5, <1>id, CheckSignaturesEffect DEF ClientShareAccepted
  <2>3. ~ Settled(s, IdOf[b])
    BY <1>5 DEF ClientShareAccepted, ClientShareSigned
  <2> QED
    BY <1>id, <2>1, <2>2, <2>3 DEF StepEffect, TallyGrows
<1>6. CASE ClientShareRejected(b, s)
  BY <1>6 DEF ClientShareRejected, ClientShareSigned, StepEffect, ListSigned,
              MessagesGrow, TallyGrows, netVars
<1>7. CASE ClientShareChallenged(b, s)
  BY <1>7 DEF ClientShareChallenged, ClientShareSigned, StepEffect, ListSigned,
              MessagesGrow, TallyGrows
<1> QED
  BY <1>1, <1>2, <1>3, <1>4, <1>5, <1>6, <1>7 DEF Post

LEMMA ReceiveEffect ==
  ASSUME Typed, NEW s \in Server, NEW m \in shareMsgs, ReceiveServerShare(s, m)
  PROVE  StepEffect
<1>id. IdOf[m.ballot] \in VoteId
  BY ConstantsAssumption DEF Typed, ShareMsg
<1>1. CASE ServerShareBlocks(s, m)
  BY <1>1 DEF ServerShareBlocks, StepEffect, ListsKept, MessagesGrow, TallyGrows,
              entryVars, netVars
<1>2. CASE ServerShareOnBareEntry(s, m)
  BY <1>2 DEF ServerShareOnBareEntry, StepEffect, ListsKept, MessagesGrow,
              TallyGrows, entryVars, netVars
<1>3. CASE ServerShareMerged(s, m)
  <2>1. ListMerged /\ MessagesGrow
    BY <1>3 DEF ServerShareMerged, ListMerged, MessagesGrow
  <2>2. UNCHANGED <<tally, delivered>> \/ Deliver(s, IdOf[m.ballot])
    BY <1>3, <1>id, CheckSignaturesEffect DEF ServerShareMerged
  <2>3. ~ Settled(s, IdOf[m.ballot])
    BY <1>3 DEF ServerShareMerged, ServerShareRuns
  <2> QED
    BY <1>id, <2>1, <2>2, <2>3 DEF StepEffect, TallyGrows
<1> QED
  BY <1>1, <1>2, <1>3 DEF ReceiveServerShare

LEMMA FloodEffect ==
  ASSUME NEW s \in Server, NEW b \in Ballot, Flood(s, b)
  PROVE  StepEffect
BY DEF Flood, Send, SendPanics, StepEffect, ListsKept, MessagesGrow, TallyGrows,
       entryVars

LEMMA ChallengeEffect ==
  ASSUME NEW s \in Server, NEW c \in inbox[s], ChallengeVote(s, c)
  PROVE  StepEffect
BY DEF ChallengeVote, ChallengeUnknownId, ChallengeIgnored, ChallengeBlocks,
       ChallengeKept, ChallengeLeaksLock, ChallengeRuns, TakeChallenge,
       StepEffect, ListsKept, MessagesGrow, TallyGrows, entryVars

LEMMA NextEffect == Typed /\ [Next]_vars => StepEffect
<1> SUFFICES ASSUME Typed, [Next]_vars PROVE StepEffect
  OBVIOUS
<1>1. CASE UNCHANGED vars
  BY <1>1 DEF vars, entryVars, serverVars, netVars, StepEffect, ListsKept,
              MessagesGrow, TallyGrows
<1>2. CASE \E s \in Server : Crash(s)
  BY <1>2 DEF Crash, entryVars, netVars, StepEffect, ListsKept, MessagesGrow,
              TallyGrows
<1> QED
  BY <1>1, <1>2, PostEffect, ReceiveEffect, FloodEffect, ChallengeEffect DEF Next
-----------------------------------------------------------------------------
(* What is recorded of an id is recorded in its entry.                     *)

(* A step on the entry of `id' at s that finds or makes the entry. *)
EntryStep(s, id) ==
  /\ id \in known'[s]
  /\ \A r \in Server :
       /\ known[r] \subseteq known'[r]
       /\ r # s => /\ bare'[r] = bare[r] /\ delivered'[r] = delivered[r]
                   /\ invalidated'[r] = invalidated[r] /\ locked'[r] = locked[r]
                   /\ received'[r] = received[r]
  /\ delivered'[s] \subseteq delivered[s] \cup {id}
  /\ invalidated'[s] \subseteq invalidated[s] \cup {id}
  /\ locked'[s] \subseteq locked[s] \cup {id}
  /\ \/ /\ bare'[s] = bare[s]
        /\ \/ received'[s] = received[s]
           \/ /\ id \notin bare[s]
              /\ \A b \in received'[s] \ received[s] : IdOf[b] = id
     \/ /\ bare'[s] = bare[s] \cup {id}
        /\ id \notin known[s]
        /\ received'[s] = received[s]

EntriesKept ==
  UNCHANGED <<known, bare, received, delivered, invalidated, locked>>

LEMMA EntryStepKnown ==
  ASSUME EntriesKnown, NEW s \in Server, NEW id, EntryStep(s, id)
  PROVE  EntriesKnown'
<1> SUFFICES ASSUME NEW r \in Server
             PROVE  /\ bare'[r] \cup delivered'[r] \cup invalidated'[r] \cup locked'[r]
                         \subseteq known'[r]
                    /\ \A b \in received'[r] : IdOf[b] \in known'[r] \ bare'[r]
  BY DEF EntriesKnown
<1>1. CASE r # s
  BY <1>1 DEF EntryStep, EntriesKnown
<1>2. CASE r = s
  BY <1>2 DEF EntryStep, EntriesKnown
<1> QED
  BY <1>1, <1>2

LEMMA CheckSignaturesEntries ==
  ASSUME Typed, NEW s \in Server, NEW id, NEW recovered,
         \/ CheckSignaturesReturns(s, id)
         \/ CheckSignaturesNeverReturns(s, id, recovered)
  PROVE  /\ \A r \in Server \ {s} :
              /\ delivered'[r] = delivered[r]
              /\ invalidated'[r] = invalidated[r]
              /\ locked'[r] = locked[r]
         /\ delivered'[s] \subseteq delivered[s] \cup {id}
         /\ invalidated'[s] \subseteq invalidated[s] \cup {id}
         /\ locked'[s] \subseteq locked[s] \cup {id}
<1>1. /\ delivered' \in {delivered, [delivered EXCEPT ![s] = @ \cup {id}]}
      /\ invalidated' \in {invalidated, [invalidated EXCEPT ![s] = @ \cup {id}]}
      /\ locked' \in {locked, [locked EXCEPT ![s] = @ \cup {id}]}
  BY DEF CheckSignaturesReturns, CheckSignaturesNeverReturns, NothingReady,
         Deliver, ReplayChallenge, ChallengeOwnShare, ChallengeOwnSharePanics
<1>2. /\ delivered \in [Server -> SUBSET VoteId]
      /\ invalidated \in [Server -> SUBSET VoteId]
      /\ locked \in [Server -> SUBSET EntryId]
  BY DEF Typed
<1> QED
  BY <1>1, <1>2

LEMMA PostEntries ==
  ASSUME Typed, EntriesKnown, NEW b \in Ballot, NEW s \in Server, Post(b, s)
  PROVE  EntriesKept \/ EntryStep(s, IdOf[b])
<1>1. CASE PostUnanswered(b, s)
  BY <1>1 DEF PostUnanswered, EntriesKept, entryVars
<1>2. CASE ClientShareBlocks(b, s)
  BY <1>2 DEF ClientShareBlocks, EntriesKept, entryVars
<1>3. CASE ClientShareIgnored(b, s)
  BY <1>3 DEF ClientShareIgnored, EntriesKept, entryVars
<1>4. CASE ClientShareOnBareEntry(b, s)
  BY <1>4 DEF ClientShareOnBareEntry, EntryStep, EntriesKnown, Typed
<1>s. ASSUME ClientShareSigned(b, s), bare' = bare
      PROVE  /\ IdOf[b] \in known'[s]
             /\ \A r \in Server : known[r] \subseteq known'[r]
             /\ \A r \in Server \ {s} : received'[r] = received[r]
             /\ IdOf[b] \notin bare[s]
             /\ \A c \in received'[s] \ received[s] : IdOf[c] = IdOf[b]
  BY <1>s DEF ClientShareSigned, SignBallot, Typed
<1>5. CASE ClientShareAccepted(b, s)
  <2>1. ClientShareSigned(b, s) /\ bare' = bare
    BY <1>5 DEF ClientShareAccepted
  <2>2. \/ CheckSignaturesReturns(s, IdOf[b])
        \/ CheckSignaturesNeverReturns(s, IdOf[b], TRUE)
    BY <1>5 DEF ClientShareAccepted
  <2> QED
    BY <1>s, <2>1, <2>2, CheckSignaturesEntries DEF EntryStep
<1>6. CASE ClientShareRejected(b, s)
  <2>1. ClientShareSigned(b, s) /\ bare' = bare
    BY <1>6 DEF ClientShareRejected
  <2>2. UNCHANGED <<delivered, invalidated, locked>>
    BY <1>6 DEF ClientShareRejected
  <2> QED
    BY <1>s, <2>1, <2>2 DEF EntryStep
<1>7. CASE ClientShareChallenged(b, s)
  <2>1. ClientShareSigned(b, s) /\ bare' = bare
    BY <1>7 DEF ClientShareChallenged
  <2>2. /\ UNCHANGED delivered
        /\ invalidated' \in {invalidated, [invalidated EXCEPT ![s] = @ \cup {IdOf[b]}]}
        /\ locked' \in {locked, [locked EXCEPT ![s] = @ \cup {IdOf[b]}]}
    BY <1>7 DEF ClientShareChallenged
  <2>3. /\ \A r \in Server \ {s} :
              invalidated'[r] = invalidated[r] /\ locked'[r] = locked[r]
        /\ invalidated'[s] \subseteq invalidated[s] \cup {IdOf[b]}
        /\ locked'[s] \subseteq locked[s] \cup {IdOf[b]}
    BY <2>2 DEF Typed
  <2> QED
    BY <1>s, <2>1, <2>2, <2>3 DEF EntryStep
<1> QED
  BY <1>1, <1>2, <1>3, <1>4, <1>5, <1>6, <1>7 DEF Post
LEMMA ReceiveEntries ==
  ASSUME Typed, EntriesKnown, NEW s \in Server, NEW m \in shareMsgs,
         ReceiveServerShare(s, m)
  PROVE  EntriesKept \/ EntryStep(s, IdOf[m.ballot])
<1>1. CASE ServerShareBlocks(s, m)
  BY <1>1 DEF ServerShareBlocks, EntriesKept, entryVars
<1>2. CASE ServerShareOnBareEntry(s, m)
  BY <1>2 DEF ServerShareOnBareEntry, EntriesKept, entryVars
<1>3. CASE ServerShareMerged(s, m)
  <2>1. /\ IdOf[m.ballot] \notin bare[s]
        /\ bare' = bare
        /\ known' = [known EXCEPT ![s] = @ \cup {IdOf[m.ballot]}]
        /\ received' = [received EXCEPT ![s] = @ \cup {m.ballot}]
    BY <1>3 DEF ServerShareMerged
  <2>2. /\ IdOf[m.ballot] \in known'[s]
        /\ \A r \in Server : known[r] \subseteq known'[r]
        /\ \A r \in Server \ {s} : received'[r] = received[r]
        /\ \A c \in received'[s] \ received[s] : IdOf[c] = IdOf[m.ballot]
    BY <2>1 DEF Typed
  <2>3. \/ CheckSignaturesReturns(s, IdOf[m.ballot])
        \/ CheckSignaturesNeverReturns(s, IdOf[m.ballot], FALSE)
    BY <1>3 DEF ServerShareMerged
  <2>4. /\ \A r \in Server \ {s} :
              /\ delivered'[r] = delivered[r]
              /\ invalidated'[r] = invalidated[r]
              /\ locked'[r] = locked[r]
        /\ delivered'[s] \subseteq delivered[s] \cup {IdOf[m.ballot]}
        /\ invalidated'[s] \subseteq invalidated[s] \cup {IdOf[m.ballot]}
        /\ locked'[s] \subseteq locked[s] \cup {IdOf[m.ballot]}
    BY <2>3, CheckSignaturesEntries
  <2> QED
    BY <2>1, <2>2, <2>4 DEF EntryStep
<1> QED
  BY <1>1, <1>2, <1>3 DEF ReceiveServerShare

LEMMA ChallengeEntries ==
  ASSUME Typed, EntriesKnown, NEW s \in Server, NEW c \in inbox[s],
         ChallengeVote(s, c)
  PROVE  EntriesKept \/ EntryStep(s, c.id)
<1>1. CASE ChallengeUnknownId(s, c)
  <2>1. /\ c.id \notin known[s]
        /\ known' = [known EXCEPT ![s] = @ \cup {c.id}]
        /\ bare' = [bare EXCEPT ![s] = @ \cup {c.id}]
        /\ UNCHANGED <<received, delivered, invalidated, locked>>
    BY <1>1 DEF ChallengeUnknownId
  <2> QED
    BY <2>1 DEF EntryStep, Typed
<1>2. CASE ChallengeIgnored(s, c) \/ ChallengeBlocks(s, c) \/ ChallengeKept(s, c)
  BY <1>2 DEF ChallengeIgnored, ChallengeBlocks, ChallengeKept, EntriesKept,
              entryVars
<1>3. CASE ChallengeLeaksLock(s, c)
  <2>1. /\ c.id \in known[s]
        /\ locked' = [locked EXCEPT ![s] = @ \cup {c.id}]
        /\ UNCHANGED <<known, bare, received, delivered, invalidated>>
    BY <1>3 DEF ChallengeLeaksLock, ChallengeRuns
  <2> QED
    BY <2>1 DEF EntryStep, Typed
<1> QED
  BY <1>1, <1>2, <1>3 DEF ChallengeVote

LEMMA NextEntriesKnown == Typed /\ EntriesKnown /\ [Next]_vars => EntriesKnown'
<1> SUFFICES ASSUME Typed, EntriesKnown, [Next]_vars PROVE EntriesKnown'
  OBVIOUS
<1>0. ASSUME EntriesKept PROVE EntriesKnown'
  BY <1>0 DEF EntriesKept, EntriesKnown
<1>1. CASE UNCHANGED vars
  BY <1>0, <1>1 DEF vars, entryVars, EntriesKept
<1>2. CASE \E b \in Ballot, s \in Server : Post(b, s)
  BY <1>0, <1>2, PostEntries, EntryStepKnown
<1>3. CASE \E s \in Server : \E m \in shareMsgs : ReceiveServerShare(s, m)
  BY <1>0, <1>3, ReceiveEntries, EntryStepKnown
<1>4. CASE \E s \in Server, b \in Ballot : Flood(s, b)
  BY <1>0, <1>4 DEF Flood, Send, SendPanics, entryVars, EntriesKept
<1>5. CASE \E s \in Server : \E c \in inbox[s] : ChallengeVote(s, c)
  BY <1>0, <1>5, ChallengeEntries, EntryStepKnown
<1>6. CASE \E s \in Server : Crash(s)
  BY <1>0, <1>6 DEF Crash, entryVars, EntriesKept
<1> QED
  BY <1>1, <1>2, <1>3, <1>4, <1>5, <1>6 DEF Next

(* Every reachable state has its types, and whatever a server recorded of  *)
(* an id it recorded in an entry with maps, known under that id.           *)
THEOREM TypeCorrect == Spec => []TypeOK
<1>1. Init => TypeOK
  BY InitTyped DEF TypeOK, Init, EntriesKnown
<1>2. TypeOK /\ [Next]_vars => TypeOK'
  BY NextTyped, NextEntriesKnown DEF TypeOK
<1> QED
  BY <1>1, <1>2, PTL DEF Spec

-----------------------------------------------------------------------------
(* Signatures are authentic.                                               *)

LEMMA SignaturesGrow ==
  ASSUME Typed, ListsKept \/ ListSigned \/ ListMerged,
         NEW s \in Server, NEW b \in Ballot
  PROVE  signatures[s][b] \subseteq signatures'[s][b]
<1>t. signatures \in [Server -> [Ballot -> SUBSET Server]]
  BY DEF Typed
<1>1. CASE ListsKept
  BY <1>1 DEF ListsKept
<1>2. CASE ListSigned
  <2>1. PICK r \in Server, c \in Ballot :
          signatures' \in {signatures, [signatures EXCEPT ![r][c] = @ \cup {r}]}
    BY <1>2 DEF ListSigned, SignBallot
  <2> QED
    BY <2>1, <1>t
<1>3. CASE ListMerged
  <2>1. PICK r \in Server, m \in shareMsgs :
          signatures' = [signatures EXCEPT ![r][m.ballot]
                                      = @ \cup NewSignatures(r, m)]
    BY <1>3 DEF ListMerged
  <2> QED
    BY <2>1, <1>t
<1> QED
  BY <1>1, <1>2, <1>3

LEMMA AuthenticStep ==
  ASSUME Typed, SignaturesAuthentic, StepEffect
  PROVE  SignaturesAuthentic'
<1>lists. ListsKept \/ ListSigned \/ ListMerged
  BY DEF StepEffect
<1>t. signatures \in [Server -> [Ballot -> SUBSET Server]]
  BY DEF Typed
<1>1. ASSUME NEW s \in Server, NEW v \in Server, NEW b \in Ballot,
             v \in signatures'[s][b]
      PROVE  v \in signatures'[v][b]
  <2>1. CASE v \in signatures[s][b]
    BY <1>lists, <2>1, SignaturesGrow DEF SignaturesAuthentic
  <2>2. CASE v \notin signatures[s][b] /\ ListSigned
    <3>1. PICK r \in Server, c \in Ballot :
            signatures' \in {signatures, [signatures EXCEPT ![r][c] = @ \cup {r}]}
      BY <2>2 DEF ListSigned, SignBallot
    <3>2. v = s
      BY <1>1, <1>t, <2>2, <3>1
    <3> QED
      BY <1>1, <3>2
  <2>3. CASE v \notin signatures[s][b] /\ ListMerged
    <3>1. PICK r \in Server, m \in shareMsgs :
            signatures' = [signatures EXCEPT ![r][m.ballot]
                                        = @ \cup NewSignatures(r, m)]
      BY <2>3 DEF ListMerged
    <3>2. m.ballot \in Ballot
      BY DEF Typed, ShareMsg
    <3>3. v \in NewSignatures(r, m) /\ b = m.ballot
      BY <1>1, <2>3, <3>1, <3>2 DEF Typed
    <3>4. v \in signatures[v][b]
      BY <3>3 DEF NewSignatures, SignaturesAuthentic
    <3> QED
      BY <1>lists, <3>4, SignaturesGrow
  <2>4. CASE v \notin signatures[s][b] /\ ListsKept
    BY <1>1, <2>4 DEF ListsKept
  <2> QED
    BY <1>lists, <2>1, <2>2, <2>3, <2>4
<1>2. ASSUME NEW m \in shareMsgs', NEW v \in Server, v \in m.sigs
      PROVE  v \in signatures'[v][m.ballot]
  <2>1. CASE m \in shareMsgs
    <3>1. v \in signatures[v][m.ballot] /\ m.ballot \in Ballot
      BY <1>2, <2>1 DEF SignaturesAuthentic, Typed, ShareMsg
    <3> QED
      BY <1>lists, <3>1, SignaturesGrow
  <2>2. CASE m \notin shareMsgs
    <3>1. UNCHANGED signatures /\ \E s \in Server, b \in Ballot : m = CurrentMsg(s, b)
      BY <1>2, <2>2 DEF StepEffect, MessagesGrow
    <3> QED
      BY <1>2, <3>1 DEF CurrentMsg, SignaturesAuthentic
  <2> QED
    BY <2>1, <2>2
<1> QED
  BY <1>1, <1>2 DEF SignaturesAuthentic

(* Only signatures their signer made are ever in a list or in a message.   *)
THEOREM AuthenticSignatures == Spec => []SignaturesAuthentic
<1>1. Init => SignaturesAuthentic
  BY DEF Init, SignaturesAuthentic
<1>2. TypeOK /\ SignaturesAuthentic /\ [Next]_vars => SignaturesAuthentic'
  BY NextEffect, AuthenticStep DEF TypeOK
<1> QED
  BY <1>1, <1>2, TypeCorrect, PTL DEF Spec
-----------------------------------------------------------------------------
(* A server counts a peer for one ballot of an id.                         *)

(* Every signature of a peer in a list is recorded as seen. *)
PeersSeen ==
  \A s \in Server, b \in Ballot :
    signatures[s][b] \ {s} \subseteq seen[s][IdOf[b]]

LEMMA OneSignatureStep ==
  ASSUME Typed, PeersSeen, OneSignaturePerSender, StepEffect
  PROVE  PeersSeen' /\ OneSignaturePerSender'
<1>t. /\ signatures \in [Server -> [Ballot -> SUBSET Server]]
      /\ seen \in [Server -> [VoteId -> SUBSET Server]]
      /\ \A b \in Ballot : IdOf[b] \in VoteId
  BY ConstantsAssumption DEF Typed
<1>1. CASE ListsKept
  BY <1>1 DEF ListsKept, PeersSeen, OneSignaturePerSender
<1>2. CASE ListSigned
  <2>1. PICK r \in Server, c \in Ballot :
          /\ signatures' \in {signatures, [signatures EXCEPT ![r][c] = @ \cup {r}]}
          /\ seen' \in {seen, [seen EXCEPT ![r][IdOf[c]] = @ \cup {r}]}
    BY <1>2 DEF ListSigned, SignBallot
  <2>2. \A s \in Server, b \in Ballot :
          /\ signatures'[s][b] \ {s} = signatures[s][b] \ {s}
          /\ seen[s][IdOf[b]] \subseteq seen'[s][IdOf[b]]
    <3> TAKE s \in Server, b \in Ballot
    <3>1. \/ signatures'[s][b] = signatures[s][b]
          \/ (s = r /\ signatures'[s][b] = signatures[s][b] \cup {r})
      BY <1>t, <2>1
    <3>2. IdOf[b] \in VoteId /\ IdOf[c] \in VoteId
      BY <1>t
    <3>3. seen'[s][IdOf[b]] = seen[s][IdOf[b]]
          \/ seen'[s][IdOf[b]] = seen[s][IdOf[b]] \cup {r}
      <4>1. CASE seen' = seen
        BY <4>1
      <4>2. CASE seen' = [seen EXCEPT ![r][IdOf[c]] = @ \cup {r}]
        <5> DEFINE i == IdOf[b]  j == IdOf[c]
        <5> HIDE DEF i, j
        <5>1. i \in VoteId /\ j \in VoteId
          BY <3>2 DEF i, j
        <5>2. seen' = [seen EXCEPT ![r][j] = @ \cup {r}]
          BY <4>2 DEF j
        <5>3. seen'[s][i] = seen[s][i] \/ seen'[s][i] = seen[s][i] \cup {r}
          BY <1>t, <5>1, <5>2
        <5> QED
          BY <5>3 DEF i
      <4> QED
        BY <2>1, <4>1, <4>2
    <3> QED
      BY <3>1, <3>3
  <2> QED
    BY <2>2 DEF PeersSeen, OneSignaturePerSender
<1>3. CASE ListMerged
  <2>1. PICK r \in Server, m \in shareMsgs :
          /\ signatures' = [signatures EXCEPT ![r][m.ballot]
                                       = @ \cup NewSignatures(r, m)]
          /\ seen' = [seen EXCEPT ![r][IdOf[m.ballot]] = @ \cup NewSignatures(r, m)]
    BY <1>3 DEF ListMerged
  <2>2. m.ballot \in Ballot /\ IdOf[m.ballot] \in VoteId
    BY <1>t DEF Typed, ShareMsg
  <2>3. NewSignatures(r, m) \cap seen[r][IdOf[m.ballot]] = {}
    BY DEF NewSignatures
  <2>4. \A s \in Server, b \in Ballot :
          IF s = r /\ b = m.ballot
          THEN signatures'[s][b] = signatures[s][b] \cup NewSignatures(r, m)
          ELSE signatures'[s][b] = signatures[s][b]
    BY <1>t, <2>1, <2>2
  <2>5. \A s \in Server, b \in Ballot :
          IF s = r /\ IdOf[b] = IdOf[m.ballot]
          THEN seen'[s][IdOf[b]] = seen[s][IdOf[b]] \cup NewSignatures(r, m)
          ELSE seen'[s][IdOf[b]] = seen[s][IdOf[b]]
    BY <1>t, <2>1, <2>2
  <2>6. PeersSeen'
    BY <2>4, <2>5 DEF PeersSeen
  <2>7. ASSUME NEW s \in Server, NEW v \in Server \ {s},
               NEW b \in Ballot, NEW c \in Ballot,
               v \in signatures'[s][b], v \in signatures'[s][c],
               IdOf[b] = IdOf[c], b # c
        PROVE  FALSE
    <3>1. v \notin signatures[s][b] \/ v \notin signatures[s][c]
      BY <2>7 DEF OneSignaturePerSender
    <3>2. v \in signatures[s][b] => v \in seen[s][IdOf[b]]
      BY DEF PeersSeen
    <3>3. v \in signatures[s][c] => v \in seen[s][IdOf[b]]
      BY <2>7 DEF PeersSeen
    <3>4. v \notin signatures[s][b] => b = m.ballot /\ v \notin seen[s][IdOf[b]]
      BY <2>3, <2>4, <2>7
    <3>5. v \notin signatures[s][c] => c = m.ballot /\ v \notin seen[s][IdOf[b]]
      BY <2>3, <2>4, <2>7
    <3> QED
      BY <2>7, <3>1, <3>2, <3>3, <3>4, <3>5
  <2>8. OneSignaturePerSender'
    BY <2>7 DEF OneSignaturePerSender
  <2> QED
    BY <2>6, <2>8
<1> QED
  BY <1>1, <1>2, <1>3 DEF StepEffect

(* Whatever ballots share an id, a server has a peer's signature in the    *)
(* list of one of them.                                                    *)
THEOREM OnePerSender == Spec => []OneSignaturePerSender
<1>1. Init => PeersSeen /\ OneSignaturePerSender
  BY DEF Init, PeersSeen, OneSignaturePerSender
<1>2. /\ TypeOK
      /\ PeersSeen /\ OneSignaturePerSender
      /\ [Next]_vars
      => PeersSeen' /\ OneSignaturePerSender'
  BY NextEffect, OneSignatureStep DEF TypeOK
<1> QED
  BY <1>1, <1>2, TypeCorrect, PTL DEF Spec

-----------------------------------------------------------------------------
(* The tally.                                                              *)

LEMMA CountedOnceStep ==
  ASSUME Typed, Typed', CountedOnce, StepEffect
  PROVE  CountedOnce'
<1>1. CASE UNCHANGED <<tally, delivered>>
  BY <1>1 DEF CountedOnce, Verifies
<1>2. ASSUME NEW s \in Server, NEW id \in VoteId, ~ Settled(s, id), Deliver(s, id)
      PROVE  CountedOnce'
  <2>t. /\ tally \in [Server -> [Ballot -> Nat]]
        /\ delivered \in [Server -> SUBSET VoteId]
    BY DEF Typed
  <2>1. PICK c \in Ready(s, id) :
          /\ Verifies(s, c)
          /\ delivered' = [delivered EXCEPT ![s] = @ \cup {id}]
          /\ tally' = [tally EXCEPT ![s][c] = @ + 1]
    BY <1>2 DEF Deliver
  <2>2. IdOf[c] = id
    BY <2>1 DEF Ready, Quorate
  <2>3. id \notin delivered[s]
    BY <1>2 DEF Settled
  <2>4. \A b \in Ballot : IdOf[b] = id => tally[s][b] = 0
    BY <2>3, <2>t DEF CountedOnce
  <2> SUFFICES ASSUME NEW r \in Server, NEW i \in VoteId
               PROVE  LET counted == {b \in Ballot : IdOf[b] = i /\ tally'[r][b] > 0}
                      IN  /\ counted # {} <=> i \in delivered'[r]
                          /\ \A b, d \in counted :
                               b = d /\ tally'[r][b] = 1 /\ Verifies(r, b)
    BY DEF CountedOnce, Verifies
  <2>5. CASE r = s /\ i = id
    <3>1. c \in Ballot
      BY <2>1, <1>2 DEF Ready, Quorate, Typed
    <3>2. \A b \in Ballot : IdOf[b] = id => tally'[s][b] = IF b = c THEN 1 ELSE 0
      BY <2>1, <2>4, <2>t
    <3>3. {b \in Ballot : IdOf[b] = i /\ tally'[r][b] > 0} = {c}
      BY <2>2, <2>5, <3>1, <3>2
    <3>4. i \in delivered'[r]
      BY <2>1, <2>5, <2>t
    <3>5. tally'[r][c] = 1 /\ Verifies(r, c)
      BY <2>1, <2>2, <2>5, <3>1, <3>2
    <3> QED
      BY <3>3, <3>4, <3>5
  <2>6. CASE ~ (r = s /\ i = id)
    <3>1. i \in delivered'[r] <=> i \in delivered[r]
      BY <2>1, <2>6, <2>t
    <3>2. \A b \in Ballot : IdOf[b] = i => tally'[r][b] = tally[r][b]
      BY <2>1, <2>2, <2>6, <2>t
    <3> QED
      BY <3>1, <3>2 DEF CountedOnce
  <2> QED
    BY <2>5, <2>6
<1> QED
  BY <1>1, <1>2 DEF StepEffect, TallyGrows

(* A server hands its tally at most one share for a vote id, once, a share *)
(* that verifies, and marks the id as delivered then and only then.        *)
THEOREM EachIdCountedOnce == Spec => []CountedOnce
<1>1. Init => CountedOnce
  BY DEF Init, CountedOnce
<1>2. TypeOK /\ CountedOnce /\ [Next]_vars => CountedOnce'
  BY NextEffect, NextTyped, CountedOnceStep DEF TypeOK
<1> QED
  BY <1>1, <1>2, TypeCorrect, PTL DEF Spec

-----------------------------------------------------------------------------
(* The quorum behind a counted ballot, and the agreement that follows from *)
(* it.  The code compares the length of a list of signatures with n - t.   *)
(* A list is longer than the set of its signers by the further copies of   *)
(* the server's own signature, and every such copy costs the client of the *)
(* ballot a lost answer (CopiesFromRetries): what a quorum lacks, repeated *)
(* posts have paid for.                                                    *)

(* The client may still post b to s, which signed it already and runs.     *)
Repostable(s, b) ==
  s \in unsent[b] \cap signatures[s][b] \cap up /\ IdOf[b] \notin locked[s]

(* A lost answer pays for each further copy, and for the one that may come *)
(* next.                                                                   *)
CopiesFromRetries ==
  \A s \in Server, b \in Ballot :
    ownCopies[s][b] + (IF Repostable(s, b) THEN 1 ELSE 0) <= retries[b]

(* The list of a counted ballot is long enough, now as when it was counted.*)
CountedListsLong ==
  \A s \in Server, b \in Ballot :
    tally[s][b] > 0 => ListLength(signatures[s][b], ownCopies[s][b]) >= Needed

-----------------------------------------------------------------------------
(* A step either gives no server a new signature of its own, or is a post. *)

NothingRevived ==
  /\ up' \subseteq up
  /\ \A s \in Server : locked[s] \subseteq locked'[s]

QuietStep ==
  /\ NothingRevived
  /\ UNCHANGED ownCopies
  /\ \A b \in Ballot : retries[b] <= retries'[b] /\ unsent'[b] \subseteq unsent[b]
  /\ \A s \in Server, b \in Ballot :
       s \in signatures'[s][b] => s \in signatures[s][b]

SigningStep ==
  \E b \in Ballot, s \in Server :
    /\ NothingRevived
    /\ SignBallot(b, s)
    /\ s \in unsent[b] \cap up
    /\ IdOf[b] \notin locked[s]
    /\ \/ ClientAnswered(b, s)
       \/ ClientStuck(b, s) /\ (s \notin up' \/ IdOf[b] \in locked'[s])

LEMMA CheckSignaturesRevivesNothing ==
  ASSUME Typed, NEW s \in Server, NEW id \in VoteId
  PROVE  /\ CheckSignaturesReturns(s, id) => NothingRevived
         /\ CheckSignaturesNeverReturns(s, id, TRUE) =>
              NothingRevived /\ (s \notin up' \/ id \in locked'[s])
         /\ CheckSignaturesNeverReturns(s, id, FALSE) => NothingRevived
<1>l. locked \in [Server -> SUBSET EntryId] /\ id \in EntryId
  BY DEF Typed, EntryId
<1>1. NothingReady(s, id) => NothingRevived
  BY DEF NothingReady, NothingRevived
<1>2. Deliver(s, id) => NothingRevived
  BY DEF Deliver, NothingRevived
<1>3. ReplayChallenge(s, id) => NothingRevived /\ id \in locked'[s]
  BY <1>l DEF ReplayChallenge, NothingRevived
<1>4. ChallengeOwnShare(s, id) => NothingRevived /\ s \notin up'
  BY DEF ChallengeOwnShare, NothingRevived
<1>5. ChallengeOwnSharePanics(s, id, TRUE) => NothingRevived /\ id \in locked'[s]
  BY <1>l DEF ChallengeOwnSharePanics, NothingRevived
<1>6. ChallengeOwnSharePanics(s, id, FALSE) => NothingRevived
  BY <1>l DEF ChallengeOwnSharePanics, NothingRevived
<1> QED
  BY <1>1, <1>2, <1>3, <1>4, <1>5, <1>6
     DEF CheckSignaturesReturns, CheckSignaturesNeverReturns

LEMMA ClientQuiet ==
  ASSUME Typed, NEW b \in Ballot, NEW s \in Server,
         ClientAnswered(b, s) \/ ClientStuck(b, s)
  PROVE  \A c \in Ballot : retries[c] <= retries'[c] /\ unsent'[c] \subseteq unsent[c]
<1>t. /\ unsent \in [Ballot -> SUBSET Server]
      /\ retries \in [Ballot -> Int]
  BY ConstantsAssumption DEF Typed
<1> QED
  BY <1>t DEF ClientAnswered, ClientStuck

LEMMA PostPays ==
  ASSUME Typed, NEW b \in Ballot, NEW s \in Server, Post(b, s)
  PROVE  QuietStep \/ SigningStep
<1>t. /\ IdOf[b] \in VoteId
      /\ locked \in [Server -> SUBSET EntryId]
  BY ConstantsAssumption DEF Typed
<1>q. ClientAnswered(b, s) \/ ClientStuck(b, s)
      => \A c \in Ballot : retries[c] <= retries'[c] /\ unsent'[c] \subseteq unsent[c]
  BY ClientQuiet
<1>s. ClientShareSigned(b, s) =>
        /\ SignBallot(b, s)
        /\ s \in unsent[b] \cap up
        /\ IdOf[b] \notin locked[s]
  BY DEF ClientShareSigned, ClientShareRuns, MayPost, Serving
<1>1. CASE PostUnanswered(b, s)
  BY <1>1, <1>q DEF PostUnanswered, QuietStep, NothingRevived, entryVars,
                    serverVars
<1>2. CASE ClientShareBlocks(b, s)
  BY <1>2, <1>q DEF ClientShareBlocks, QuietStep, NothingRevived, entryVars
<1>3. CASE ClientShareIgnored(b, s)
  BY <1>3, <1>q DEF ClientShareIgnored, QuietStep, NothingRevived, entryVars,
                    serverVars
<1>4. CASE ClientShareOnBareEntry(b, s)
  <2>1. NothingRevived
    BY <1>4, <1>t DEF ClientShareOnBareEntry, NothingRevived, serverVars
  <2> QED
    BY <1>4, <1>q, <2>1 DEF ClientShareOnBareEntry, QuietStep
<1>5. CASE ClientShareAccepted(b, s)
  <2>1. CASE CheckSignaturesReturns(s, IdOf[b]) /\ ClientAnswered(b, s)
    BY <1>5, <1>s, <1>t, <2>1, CheckSignaturesRevivesNothing
       DEF ClientShareAccepted, SigningStep
  <2>2. CASE /\ CheckSignaturesNeverReturns(s, IdOf[b], TRUE)
             /\ ClientStuck(b, s)
    BY <1>5, <1>s, <1>t, <2>2, CheckSignaturesRevivesNothing
       DEF ClientShareAccepted, SigningStep
  <2> QED
    BY <1>5, <2>1, <2>2 DEF ClientShareAccepted
<1>6. CASE ClientShareRejected(b, s)
  BY <1>6, <1>s DEF ClientShareRejected, SigningStep, NothingRevived
<1>7. CASE ClientShareChallenged(b, s)
  <2>1. CASE ClientAnswered(b, s) /\ UNCHANGED locked
    BY <1>7, <1>s, <2>1 DEF ClientShareChallenged, SigningStep, NothingRevived
  <2>2. CASE /\ locked' = [locked EXCEPT ![s] = @ \cup {IdOf[b]}]
             /\ ClientStuck(b, s)
    <3>1. (\A r \in Server : locked[r] \subseteq locked'[r]) /\ IdOf[b] \in locked'[s]
      BY <1>t, <2>2
    <3> QED
      BY <1>7, <1>s, <2>2, <3>1 DEF ClientShareChallenged, SigningStep,
                                   NothingRevived
  <2> QED
    BY <1>7, <2>1, <2>2 DEF ClientShareChallenged
<1> QED
  BY <1>1, <1>2, <1>3, <1>4, <1>5, <1>6, <1>7 DEF Post

LEMMA ReceiveQuiet ==
  ASSUME Typed, SignaturesAuthentic, NEW s \in Server, NEW m \in shareMsgs,
         ReceiveServerShare(s, m)
  PROVE  QuietStep
<1>r. \A b \in Ballot : retries[b] <= retries[b]
  BY ConstantsAssumption DEF Typed
<1>1. CASE ServerShareBlocks(s, m)
  BY <1>1, <1>r DEF ServerShareBlocks, QuietStep, NothingRevived, clientVars,
                    entryVars
<1>2. CASE ServerShareOnBareEntry(s, m)
  BY <1>2, <1>r DEF ServerShareOnBareEntry, QuietStep, NothingRevived, clientVars,
                    entryVars
<1>3. CASE ServerShareMerged(s, m)
  <2>t. /\ m.ballot \in Ballot /\ IdOf[m.ballot] \in VoteId
        /\ signatures \in [Server -> [Ballot -> SUBSET Server]]
    BY ConstantsAssumption DEF Typed, ShareMsg
  <2>1. s \in m.sigs => s \in signatures[s][m.ballot]
    BY DEF SignaturesAuthentic
  <2>2. s \notin NewSignatures(s, m)
    BY <2>1 DEF NewSignatures
  <2>3. signatures' = [signatures EXCEPT ![s][m.ballot] = @ \cup NewSignatures(s, m)]
    BY <1>3 DEF ServerShareMerged
  <2>4. \A r \in Server, b \in Ballot :
          r \in signatures'[r][b] => r \in signatures[r][b]
    BY <2>t, <2>2, <2>3
  <2>5. NothingRevived
    BY <1>3, <2>t, CheckSignaturesRevivesNothing DEF ServerShareMerged
  <2> QED
    BY <1>3, <1>r, <2>4, <2>5 DEF ServerShareMerged, QuietStep, clientVars
<1> QED
  BY <1>1, <1>2, <1>3 DEF ReceiveServerShare

LEMMA NextPays ==
  Typed /\ SignaturesAuthentic /\ [Next]_vars => QuietStep \/ SigningStep
<1> SUFFICES ASSUME Typed, SignaturesAuthentic, [Next]_vars
             PROVE  QuietStep \/ SigningStep
  OBVIOUS
<1>t. locked \in [Server -> SUBSET EntryId]
  BY DEF Typed
<1>r. \A b \in Ballot : retries[b] <= retries[b]
  BY ConstantsAssumption DEF Typed
<1>1. CASE UNCHANGED vars
  BY <1>1, <1>r DEF vars, clientVars, entryVars, serverVars, QuietStep,
                    NothingRevived
<1>2. CASE \E s \in Server : Crash(s)
  BY <1>2, <1>r DEF Crash, clientVars, entryVars, QuietStep, NothingRevived
<1>3. CASE \E s \in Server, b \in Ballot : Flood(s, b)
  BY <1>3, <1>r DEF Flood, Send, SendPanics, clientVars, entryVars, QuietStep,
                    NothingRevived
<1>4. ASSUME NEW s \in Server, NEW c \in inbox[s], ChallengeVote(s, c)
      PROVE  QuietStep
  <2>1. \A r \in Server : locked[r] \subseteq locked'[r]
    BY <1>4, <1>t DEF ChallengeVote, ChallengeUnknownId, ChallengeIgnored,
         ChallengeBlocks, ChallengeKept, ChallengeLeaksLock, ChallengeRuns,
         TakeChallenge, entryVars
  <2>2. UNCHANGED <<unsent, retries, signatures, ownCopies, up>>
    BY <1>4 DEF ChallengeVote, ChallengeUnknownId, ChallengeIgnored,
         ChallengeBlocks, ChallengeKept, ChallengeLeaksLock, ChallengeRuns,
         TakeChallenge, entryVars, clientVars
  <2> QED
    BY <1>r, <2>1, <2>2 DEF QuietStep, NothingRevived
<1> QED
  BY <1>1, <1>2, <1>3, <1>4, PostPays, ReceiveQuiet DEF Next
-----------------------------------------------------------------------------
LEMMA CopiesStep ==
  ASSUME Typed, Typed', CopiesFromRetries, QuietStep \/ SigningStep
  PROVE  CopiesFromRetries'
<1>t. /\ unsent \in [Ballot -> SUBSET Server]
      /\ retries \in [Ballot -> Int] /\ retries' \in [Ballot -> Int]
      /\ signatures \in [Server -> [Ballot -> SUBSET Server]]
      /\ ownCopies \in [Server -> [Ballot -> Int]]
  BY ConstantsAssumption DEF Typed
<1> SUFFICES ASSUME NEW r \in Server, NEW c \in Ballot
             PROVE  ownCopies'[r][c] + (IF Repostable(r, c)' THEN 1 ELSE 0)
                      <= retries'[c]
  BY DEF CopiesFromRetries
<1>i. ownCopies[r][c] + (IF Repostable(r, c) THEN 1 ELSE 0) <= retries[c]
  BY DEF CopiesFromRetries
<1>1. CASE QuietStep
  <2>1. Repostable(r, c)' => Repostable(r, c)
    BY <1>1 DEF QuietStep, NothingRevived, Repostable
  <2>2. ownCopies'[r][c] = ownCopies[r][c] /\ retries[c] <= retries'[c]
    BY <1>1 DEF QuietStep
  <2> QED
    BY <1>i, <1>t, <2>1, <2>2
<1>2. CASE SigningStep
  <2>1. PICK b \in Ballot, s \in Server :
          /\ NothingRevived
          /\ SignBallot(b, s)
          /\ s \in unsent[b] \cap up
          /\ IdOf[b] \notin locked[s]
          /\ \/ ClientAnswered(b, s)
             \/ ClientStuck(b, s) /\ (s \notin up' \/ IdOf[b] \in locked'[s])
    BY <1>2 DEF SigningStep
  <2>2. retries[c] <= retries'[c] /\ unsent'[c] \subseteq unsent[c]
    BY <2>1, ClientQuiet
  <2>3. CASE r = s /\ c = b
    <3>1. ownCopies'[s][b] = ownCopies[s][b] + (IF Repostable(s, b) THEN 1 ELSE 0)
      BY <1>t, <2>1 DEF SignBallot, Repostable
    <3>2. CASE retries'[b] = retries[b] + 1
      BY <1>i, <1>t, <2>3, <3>1, <3>2
    <3>3. CASE ~ Repostable(s, b)'
      BY <1>i, <1>t, <2>2, <2>3, <3>1, <3>3
    <3>4. retries'[b] = retries[b] + 1 \/ ~ Repostable(s, b)'
      BY <1>t, <2>1 DEF ClientAnswered, ClientStuck, Repostable
    <3> QED
      BY <3>2, <3>3, <3>4
  <2>4. CASE ~ (r = s /\ c = b)
    <3>1. ownCopies'[r][c] = ownCopies[r][c] /\ signatures'[r][c] = signatures[r][c]
      BY <1>t, <2>1, <2>4 DEF SignBallot
    <3>2. Repostable(r, c)' => Repostable(r, c)
      BY <2>1, <2>2, <3>1 DEF NothingRevived, Repostable
    <3> QED
      BY <1>i, <1>t, <2>2, <3>1, <3>2
  <2> QED
    BY <2>3, <2>4
<1> QED
  BY <1>1, <1>2

LEMMA ListLengthGrows ==
  ASSUME NEW P \in SUBSET Server, NEW Q \in SUBSET Server, P \subseteq Q,
         NEW i \in Nat, NEW j \in Nat, i <= j
  PROVE  ListLength(P, i) <= ListLength(Q, j)
<1>1. IsFiniteSet(Q)
  BY ConstantsAssumption, FS_Subset
<1>2. Cardinality(P) <= Cardinality(Q) /\ IsFiniteSet(P)
  BY <1>1, FS_Subset
<1>3. Cardinality(P) \in Nat /\ Cardinality(Q) \in Nat
  BY <1>1, <1>2, FS_CardinalityType
<1> QED
  BY <1>2, <1>3 DEF ListLength

LEMMA NeededInt == Cardinality(Server) \in Nat /\ N \in Nat /\ Needed \in Int
BY ConstantsAssumption, FS_CardinalityType DEF N, Needed, SignaturesNeeded, CalculateT

LEMMA LongStep ==
  ASSUME Typed, Typed', CountedListsLong, StepEffect
  PROVE  CountedListsLong'
<1>t. /\ signatures  \in [Server -> [Ballot -> SUBSET Server]]
      /\ signatures' \in [Server -> [Ballot -> SUBSET Server]]
      /\ ownCopies   \in [Server -> [Ballot -> Nat]]
      /\ ownCopies'  \in [Server -> [Ballot -> Nat]]
      /\ tally       \in [Server -> [Ballot -> Nat]]
  BY DEF Typed
<1>g. \A s \in Server, b \in Ballot :
        /\ signatures[s][b] \subseteq signatures'[s][b]
        /\ ownCopies[s][b] <= ownCopies'[s][b]
  <2>1. CASE ListsKept
    BY <1>t, <2>1 DEF ListsKept
  <2>2. CASE ListSigned
    <3>1. PICK r \in Server, c \in Ballot : SignBallot(c, r)
      BY <2>2 DEF ListSigned
    <3>2. \/ ownCopies' = ownCopies
          \/ ownCopies' = [ownCopies EXCEPT ![r][c] = @ + 1]
      BY <3>1 DEF SignBallot
    <3>3. ASSUME NEW s \in Server, NEW b \in Ballot
          PROVE  ownCopies[s][b] <= ownCopies'[s][b]
      <4>t. /\ ownCopies \in [Server -> [Ballot -> Int]]
            /\ ownCopies[s][b] \in Int
        BY <1>t
      <4>1. CASE ownCopies' = ownCopies
        BY <4>t, <4>1
      <4>2. CASE ownCopies' = [ownCopies EXCEPT ![r][c] = @ + 1]
        <5>1. ownCopies'[s][b] \in {ownCopies[s][b], ownCopies[s][b] + 1}
          BY <4>t, <4>2
        <5> QED
          BY <4>t, <5>1
      <4> QED
        BY <3>2, <4>1, <4>2
    <3> QED
      BY <2>2, <3>3, SignaturesGrow
  <2>3. CASE ListMerged
    <3>1. \A s \in Server, b \in Ballot : ownCopies[s][b] <= ownCopies'[s][b]
      BY <1>t, <2>3 DEF ListMerged
    <3> QED
      BY <2>3, <3>1, SignaturesGrow
  <2> QED
    BY <2>1, <2>2, <2>3 DEF StepEffect
<1> SUFFICES ASSUME NEW s \in Server, NEW b \in Ballot, tally'[s][b] > 0
             PROVE  ListLength(signatures'[s][b], ownCopies'[s][b]) >= Needed
  BY DEF CountedListsLong
<1>1. CASE tally[s][b] > 0
  <2>1. ListLength(signatures[s][b], ownCopies[s][b]) >= Needed
    BY <1>1 DEF CountedListsLong
  <2>2. ListLength(signatures[s][b], ownCopies[s][b])
          <= ListLength(signatures'[s][b], ownCopies'[s][b])
    BY <1>t, <1>g, ListLengthGrows
  <2>3. /\ ListLength(signatures[s][b], ownCopies[s][b]) \in Int
        /\ ListLength(signatures'[s][b], ownCopies'[s][b]) \in Int
    <3>1. \A P \in SUBSET Server : \A i \in Nat : ListLength(P, i) \in Int
      BY ConstantsAssumption, FS_Subset, FS_CardinalityType DEF ListLength
    <3>2. /\ signatures[s][b] \in SUBSET Server /\ ownCopies[s][b] \in Nat
          /\ signatures'[s][b] \in SUBSET Server /\ ownCopies'[s][b] \in Nat
      BY <1>t
    <3> QED
      BY <3>1, <3>2
  <2> QED
    BY <2>1, <2>2, <2>3, NeededInt
<1>2. CASE ~ tally[s][b] > 0
  <2>1. PICK r \in Server, id \in VoteId : Deliver(r, id)
    BY <1>2 DEF StepEffect, TallyGrows
  <2>2. PICK c \in Ready(r, id) : tally' = [tally EXCEPT ![r][c] = @ + 1]
    BY <2>1 DEF Deliver
  <2>3. s = r /\ b = c
    BY <1>2, <1>t, <2>2
  <2> QED
    BY <2>2, <2>3 DEF Ready, Quorate
<1> QED
  BY <1>1, <1>2

QuorumInv ==
  TypeOK /\ SignaturesAuthentic /\ CopiesFromRetries /\ CountedListsLong

LEMMA QuorumInvariant == Spec => []QuorumInv
<1>1. Init => CopiesFromRetries /\ CountedListsLong
  BY DEF Init, CopiesFromRetries, CountedListsLong, Repostable
<1>2. /\ TypeOK /\ TypeOK' /\ SignaturesAuthentic
      /\ CopiesFromRetries /\ CountedListsLong
      /\ [Next]_vars
      => CopiesFromRetries' /\ CountedListsLong'
  BY NextPays, NextEffect, CopiesStep, LongStep DEF TypeOK
<1> QED
  BY <1>1, <1>2, TypeCorrect, AuthenticSignatures, PTL DEF Spec, QuorumInv
-----------------------------------------------------------------------------
LEMMA QuorumOfSigners == QuorumInv => BackedByQuorum
<1> SUFFICES ASSUME QuorumInv,
                    NEW s \in Server, NEW b \in Ballot, tally[s][b] > 0
             PROVE  Cardinality(Signers(b)) + retries[b] >= Needed
  BY DEF BackedByQuorum, Signers
<1>t. /\ signatures \in [Server -> [Ballot -> SUBSET Server]]
      /\ ownCopies \in [Server -> [Ballot -> Nat]]
      /\ ownCopies[s][b] \in Int /\ retries[b] \in Int
  BY ConstantsAssumption DEF QuorumInv, TypeOK, Typed
<1>1. ownCopies[s][b] <= retries[b]
  BY <1>t DEF QuorumInv, CopiesFromRetries
<1>2. ListLength(signatures[s][b], ownCopies[s][b]) >= Needed
  BY DEF QuorumInv, CountedListsLong
<1>3. signatures[s][b] \subseteq Signers(b) /\ Signers(b) \subseteq Server
  BY <1>t DEF QuorumInv, SignaturesAuthentic, Signers
<1>4. ListLength(signatures[s][b], 0) <= ListLength(Signers(b), 0)
  BY <1>t, <1>3, ListLengthGrows
<1>5. \A P \in SUBSET Server : Cardinality(P) \in Int
  BY ConstantsAssumption, FS_Subset, FS_CardinalityType
<1> QED
  BY <1>t, <1>1, <1>2, <1>3, <1>4, <1>5, NeededInt DEF ListLength

(* Two sets of n - t servers have a server in common: n > 2t.              *)
LEMMA QuorumsIntersect ==
  ASSUME NEW P \in SUBSET Server, NEW Q \in SUBSET Server,
         Cardinality(P) >= Needed, Cardinality(Q) >= Needed
  PROVE  P \cap Q # {}
<1>1. /\ N = Cardinality(Server) /\ N \in Nat /\ N >= 3
      /\ Cardinality(P) \in Int /\ Cardinality(Q) \in Int
  BY ConstantsAssumption, FS_Subset, FS_CardinalityType DEF N, MinParties
<1>2. Needed + Needed > N
  BY <1>1 DEF Needed, SignaturesNeeded, CalculateT
<1>3. Cardinality(P) + Cardinality(Q) > Cardinality(Server)
  BY <1>1, <1>2, NeededInt
<1> QED
  BY <1>3, ConstantsAssumption, FS_MajoritiesIntersect

(* A counted ballot has the signatures of n - t different servers, less    *)
(* one for each post its client repeated.                                  *)
THEOREM CountedBackedByQuorum == Spec => []BackedByQuorum
BY QuorumOfSigners, QuorumInvariant, PTL

(* While no answer to a client is lost, servers count different ballots of *)
(* an id only if some server signed both.                                  *)
THEOREM DisagreementNeedsDoubleSigner ==
  ASSUME MaxRetries = 0
  PROVE  Spec => []Agreement
<1>1. Typed /\ BackedByQuorum => Agreement
  <2> SUFFICES ASSUME Typed, BackedByQuorum, NEW s \in Server, NEW r \in Server,
                      NEW b \in Ballot, NEW c \in Ballot,
                      tally[s][b] > 0, tally[r][c] > 0
               PROVE  \E v \in Server : v \in signatures[v][b] \cap signatures[v][c]
    BY DEF Agreement
  <2>1. retries[b] = 0 /\ retries[c] = 0
    BY DEF Typed
  <2>2. /\ Cardinality(Signers(b)) + 0 >= Needed /\ Signers(b) \in SUBSET Server
        /\ Cardinality(Signers(c)) + 0 >= Needed /\ Signers(c) \in SUBSET Server
    BY <2>1 DEF BackedByQuorum, Signers
  <2>3. \A P \in SUBSET Server : Cardinality(P) \in Int
    BY ConstantsAssumption, FS_Subset, FS_CardinalityType
  <2>4. PICK v \in Signers(b) \cap Signers(c) : TRUE
    BY <2>2, <2>3, NeededInt, QuorumsIntersect
  <2> QED
    BY <2>4 DEF Signers
<1> QED
  BY <1>1, CountedBackedByQuorum, TypeCorrect, PTL DEF TypeOK

-----------------------------------------------------------------------------
(* What a server decides about a vote id: that it decides once, for good,  *)
(* and as soon as a ballot has its quorum; and that ballots whose shares   *)
(* verify everywhere are never invalidated, nor a lock lost on them,       *)
(* whatever becomes of the others.  With these a step of the servers is a  *)
(* step of the abstract broadcast while no answer is lost.                 *)

(* The entry of `id' at s is the only one a critical section works on: it  *)
(* was open, at most one verdict is written to it, and if a ballot of the  *)
(* id becomes ready, something comes of it.                                *)
EntryDecided(s, id) ==
  /\ ~ Settled(s, id)
  /\ delivered' \in {delivered, [delivered EXCEPT ![s] = @ \cup {id}]}
  /\ invalidated' \in {invalidated, [invalidated EXCEPT ![s] = @ \cup {id}]}
  /\ UNCHANGED delivered \/ UNCHANGED invalidated
  /\ \A r \in Server, b \in Ballot :
       r # s \/ IdOf[b] # id =>
         /\ b \in received'[r] <=> b \in received[r]
         /\ signatures'[r][b] = signatures[r][b]
         /\ ownCopies'[r][b] = ownCopies[r][b]
         /\ tally'[r][b] = tally[r][b]
  /\ \/ s \notin up'
     \/ id \in delivered'[s] \cup invalidated'[s] \cup locked'[s]
     \/ Ready(s, id) \subseteq ReadyBefore(s, id)

NothingDecided ==
  UNCHANGED <<received, signatures, ownCopies, delivered, invalidated, tally>>

-----------------------------------------------------------------------------
(* Every step decides at most one entry.                                   *)

LEMMA CheckSignaturesDecides ==
  ASSUME Typed, NEW s \in Server, NEW id \in VoteId, NEW recovered,
         \/ CheckSignaturesReturns(s, id)
         \/ CheckSignaturesNeverReturns(s, id, recovered)
  PROVE  /\ delivered' \in {delivered, [delivered EXCEPT ![s] = @ \cup {id}]}
         /\ invalidated' \in {invalidated, [invalidated EXCEPT ![s] = @ \cup {id}]}
         /\ UNCHANGED delivered \/ UNCHANGED invalidated
         /\ \A r \in Server, b \in Ballot :
              r # s \/ IdOf[b] # id => tally'[r][b] = tally[r][b]
         /\ \/ s \notin up'
            \/ id \in delivered'[s] \cup invalidated'[s] \cup locked'[s]
            \/ Ready(s, id) = {}
<1>t. /\ delivered \in [Server -> SUBSET VoteId]
      /\ invalidated \in [Server -> SUBSET VoteId]
      /\ locked \in [Server -> SUBSET EntryId]
      /\ tally \in [Server -> [Ballot -> Nat]]
      /\ up \subseteq Server
  BY DEF Typed
<1>1. CASE NothingReady(s, id)
  BY <1>1 DEF NothingReady
<1>2. CASE Deliver(s, id)
  <2>1. PICK c \in Ready(s, id) :
          /\ delivered' = [delivered EXCEPT ![s] = @ \cup {id}]
          /\ tally' = [tally EXCEPT ![s][c] = @ + 1]
          /\ UNCHANGED invalidated
    BY <1>2 DEF Deliver
  <2>2. IdOf[c] = id
    BY DEF Ready, Quorate
  <2>3. \A r \in Server, b \in Ballot :
          r # s \/ IdOf[b] # id => tally'[r][b] = tally[r][b]
    BY <1>t, <2>1, <2>2
  <2> QED
    BY <1>t, <2>1, <2>3
<1>3. CASE ReplayChallenge(s, id)
  BY <1>3, <1>t DEF ReplayChallenge
<1>4. CASE ChallengeOwnShare(s, id)
  BY <1>4, <1>t DEF ChallengeOwnShare
<1>5. CASE ChallengeOwnSharePanics(s, id, recovered)
  BY <1>5, <1>t DEF ChallengeOwnSharePanics
<1> QED
  BY <1>1, <1>2, <1>3, <1>4, <1>5
  DEF CheckSignaturesReturns, CheckSignaturesNeverReturns

LEMMA SignedElsewhereKept ==
  ASSUME Typed, NEW b \in Ballot, NEW s \in Server, SignBallot(b, s)
  PROVE  \A r \in Server, c \in Ballot :
           r # s \/ c # b =>
             /\ c \in received'[r] <=> c \in received[r]
             /\ signatures'[r][c] = signatures[r][c]
             /\ ownCopies'[r][c] = ownCopies[r][c]
<1>t. /\ received \in [Server -> SUBSET Ballot]
      /\ signatures \in [Server -> [Ballot -> SUBSET Server]]
      /\ ownCopies \in [Server -> [Ballot -> Nat]]
  BY DEF Typed
<1>1. /\ received' = [received EXCEPT ![s] = @ \cup {b}]
      /\ signatures' \in {signatures, [signatures EXCEPT ![s][b] = @ \cup {s}]}
      /\ ownCopies' \in {ownCopies, [ownCopies EXCEPT ![s][b] = @ + 1]}
  BY DEF SignBallot
<1> QED
  BY <1>1, <1>t

LEMMA PostDecides ==
  ASSUME Typed, NEW b \in Ballot, NEW s \in Server, Post(b, s)
  PROVE  NothingDecided \/ EntryDecided(s, IdOf[b])
<1>id. IdOf[b] \in VoteId
  BY ConstantsAssumption
<1>t. /\ locked \in [Server -> SUBSET EntryId]
      /\ invalidated \in [Server -> SUBSET VoteId]
  BY DEF Typed
<1>e. ASSUME ClientShareSigned(b, s)
      PROVE  /\ ~ Settled(s, IdOf[b])
             /\ \A r \in Server, c \in Ballot :
                  r # s \/ c # b =>
                    /\ c \in received'[r] <=> c \in received[r]
                    /\ signatures'[r][c] = signatures[r][c]
                    /\ ownCopies'[r][c] = ownCopies[r][c]
  BY <1>e, SignedElsewhereKept DEF ClientShareSigned
<1>1. CASE PostUnanswered(b, s) \/ ClientShareBlocks(b, s)
  BY <1>1 DEF PostUnanswered, ClientShareBlocks, NothingDecided, entryVars,
              serverVars
<1>2. CASE ClientShareIgnored(b, s) \/ ClientShareOnBareEntry(b, s)
  BY <1>2 DEF ClientShareIgnored, ClientShareOnBareEntry, NothingDecided,
              entryVars, serverVars
<1>3. CASE ClientShareAccepted(b, s)
  <2>1. \/ CheckSignaturesReturns(s, IdOf[b])
        \/ CheckSignaturesNeverReturns(s, IdOf[b], TRUE)
    BY <1>3 DEF ClientShareAccepted
  <2>2. ClientShareSigned(b, s)
    BY <1>3 DEF ClientShareAccepted
  <2>3. /\ delivered' \in {delivered, [delivered EXCEPT ![s] = @ \cup {IdOf[b]}]}
        /\ invalidated' \in {invalidated, [invalidated EXCEPT ![s] = @ \cup {IdOf[b]}]}
        /\ UNCHANGED delivered \/ UNCHANGED invalidated
        /\ \A r \in Server, c \in Ballot :
             r # s \/ IdOf[c] # IdOf[b] => tally'[r][c] = tally[r][c]
        /\ \/ s \notin up'
           \/ IdOf[b] \in delivered'[s] \cup invalidated'[s] \cup locked'[s]
           \/ Ready(s, IdOf[b]) = {}
    BY <1>id, <2>1, CheckSignaturesDecides
  <2> QED
    BY <1>e, <2>2, <2>3 DEF EntryDecided
<1>4. CASE ClientShareRejected(b, s)
  <2>1. ClientShareSigned(b, s) /\ UNCHANGED <<delivered, invalidated, tally>>
    BY <1>4 DEF ClientShareRejected
  <2>2. Ready(s, IdOf[b]) \subseteq ReadyBefore(s, IdOf[b])
    <3> SUFFICES ASSUME NEW c \in Ready(s, IdOf[b])
                 PROVE  c \in ReadyBefore(s, IdOf[b])
      OBVIOUS
    <3>1. c # b
      BY <1>4 DEF ClientShareRejected, OwnListReady, Ready, Quorate
    <3>2. c \in received'[s] /\ received' = [received EXCEPT ![s] = @ \cup {b}]
      BY <2>1 DEF Ready, Quorate, ClientShareSigned, SignBallot
    <3>3. c \in received[s] /\ c \in Ballot
      BY <3>1, <3>2 DEF Typed
    <3> QED
      BY <1>e, <2>1, <3>1, <3>3 DEF Ready, ReadyBefore, Quorate
  <2> QED
    BY <1>e, <2>1, <2>2 DEF EntryDecided
<1>5. CASE ClientShareChallenged(b, s)
  <2>1. ClientShareSigned(b, s) /\ UNCHANGED <<delivered, tally>>
    BY <1>5 DEF ClientShareChallenged
  <2>2. \/ invalidated' = [invalidated EXCEPT ![s] = @ \cup {IdOf[b]}]
        \/ /\ locked' = [locked EXCEPT ![s] = @ \cup {IdOf[b]}]
           /\ UNCHANGED invalidated
    BY <1>5 DEF ClientShareChallenged
  <2>3. IdOf[b] \in invalidated'[s] \cup locked'[s]
    BY <1>t, <2>2
  <2> QED
    BY <1>e, <2>1, <2>2, <2>3 DEF EntryDecided
<1> QED
  BY <1>1, <1>2, <1>3, <1>4, <1>5 DEF Post

LEMMA ReceiveDecides ==
  ASSUME Typed, NEW s \in Server, NEW m \in shareMsgs, ReceiveServerShare(s, m)
  PROVE  NothingDecided \/ EntryDecided(s, IdOf[m.ballot])
<1>1. CASE ServerShareBlocks(s, m) \/ ServerShareOnBareEntry(s, m)
  BY <1>1 DEF ServerShareBlocks, ServerShareOnBareEntry, NothingDecided, entryVars
<1>2. CASE ServerShareMerged(s, m)
  <2>b. m.ballot \in Ballot /\ IdOf[m.ballot] \in VoteId
    BY ConstantsAssumption DEF Typed, ShareMsg
  <2>1. \/ CheckSignaturesReturns(s, IdOf[m.ballot])
        \/ CheckSignaturesNeverReturns(s, IdOf[m.ballot], FALSE)
    BY <1>2 DEF ServerShareMerged
  <2>2. /\ received' = [received EXCEPT ![s] = @ \cup {m.ballot}]
        /\ signatures' = [signatures EXCEPT ![s][m.ballot]
                                     = @ \cup NewSignatures(s, m)]
        /\ UNCHANGED ownCopies
        /\ ~ Settled(s, IdOf[m.ballot])
    BY <1>2 DEF ServerShareMerged, ServerShareRuns
  <2>3. \A r \in Server, c \in Ballot :
          r # s \/ c # m.ballot =>
            /\ c \in received'[r] <=> c \in received[r]
            /\ signatures'[r][c] = signatures[r][c]
            /\ ownCopies'[r][c] = ownCopies[r][c]
    BY <2>2 DEF Typed
  <2>4. /\ delivered' \in {delivered, [delivered EXCEPT ![s] = @ \cup {IdOf[m.ballot]}]}
        /\ invalidated' \in {invalidated, [invalidated EXCEPT ![s] = @ \cup {IdOf[m.ballot]}]}
        /\ UNCHANGED delivered \/ UNCHANGED invalidated
        /\ \A r \in Server, c \in Ballot :
             r # s \/ IdOf[c] # IdOf[m.ballot] => tally'[r][c] = tally[r][c]
        /\ \/ s \notin up'
           \/ IdOf[m.ballot] \in delivered'[s] \cup invalidated'[s] \cup locked'[s]
           \/ Ready(s, IdOf[m.ballot]) = {}
    BY <2>b, <2>1, CheckSignaturesDecides
  <2> QED
    BY <2>2, <2>3, <2>4 DEF EntryDecided
<1> QED
  BY <1>1, <1>2 DEF ReceiveServerShare

LEMMA NextDecides ==
  Typed /\ [Next]_vars =>
    NothingDecided \/ \E s \in Server, id \in VoteId : EntryDecided(s, id)
<1> SUFFICES ASSUME Typed, [Next]_vars
             PROVE  NothingDecided \/ \E s \in Server, id \in VoteId : EntryDecided(s, id)
  OBVIOUS
<1>i. \A b \in Ballot : IdOf[b] \in VoteId
  BY ConstantsAssumption
<1>1. CASE UNCHANGED vars \/ \E s \in Server : Crash(s)
  BY <1>1 DEF vars, entryVars, serverVars, Crash, NothingDecided
<1>2. CASE \E b \in Ballot, s \in Server : Post(b, s)
  BY <1>2, <1>i, PostDecides
<1>3. CASE \E s \in Server : \E m \in shareMsgs : ReceiveServerShare(s, m)
  <2>1. \A m \in shareMsgs : m.ballot \in Ballot
    BY DEF Typed, ShareMsg
  <2> QED
    BY <1>3, <1>i, <2>1, ReceiveDecides
<1>4. CASE \E s \in Server, b \in Ballot : Flood(s, b)
  BY <1>4 DEF Flood, Send, SendPanics, entryVars, NothingDecided
<1>5. CASE \E s \in Server : \E c \in inbox[s] : ChallengeVote(s, c)
  BY <1>5 DEF ChallengeVote, ChallengeUnknownId, ChallengeIgnored,
         ChallengeBlocks, ChallengeKept, ChallengeLeaksLock, ChallengeRuns,
         TakeChallenge, entryVars, NothingDecided
<1> QED
  BY <1>1, <1>2, <1>3, <1>4, <1>5 DEF Next
-----------------------------------------------------------------------------
(* Decisions.                                                              *)

LEMMA NeverBothStep ==
  ASSUME Typed, NeverBoth, [Next]_vars
  PROVE  NeverBoth'
<1>t. /\ delivered \in [Server -> SUBSET VoteId]
      /\ invalidated \in [Server -> SUBSET VoteId]
  BY DEF Typed
<1>1. CASE NothingDecided
  BY <1>1 DEF NothingDecided, NeverBoth
<1>2. ASSUME NEW s \in Server, NEW id \in VoteId, EntryDecided(s, id)
      PROVE  NeverBoth'
  <2>1. CASE UNCHANGED invalidated
    BY <1>2, <1>t, <2>1 DEF EntryDecided, Settled, NeverBoth
  <2>2. CASE UNCHANGED delivered
    BY <1>2, <1>t, <2>2 DEF EntryDecided, Settled, NeverBoth
  <2> QED
    BY <1>2, <2>1, <2>2 DEF EntryDecided
<1> QED
  BY <1>1, <1>2, NextDecides

(* No server ever both counts a vote id and drops it.                      *)
THEOREM OneVerdict == Spec => []NeverBoth
<1>1. Init => NeverBoth
  BY DEF Init, NeverBoth
<1>2. TypeOK /\ NeverBoth /\ [Next]_vars => NeverBoth'
  BY NeverBothStep DEF TypeOK
<1> QED
  BY <1>1, <1>2, TypeCorrect, PTL DEF Spec

(* What a server has decided about an id stands, and neither the lists nor *)
(* the tally of the ballots of that id change any more.                    *)
THEOREM VerdictsStand == Spec => DecisionsFinal
<1> DEFINE Stands ==
      \A s \in Server : \A i \in VoteId :
        i \in delivered[s] \cup invalidated[s] =>
          /\ i \in delivered[s] <=> i \in delivered'[s]
          /\ i \in invalidated[s] <=> i \in invalidated'[s]
          /\ \A b \in Ballot : IdOf[b] = i =>
               /\ signatures'[s][b] = signatures[s][b]
               /\ tally'[s][b] = tally[s][b]
<1>1. TypeOK /\ [Next]_vars => Stands
  <2> SUFFICES ASSUME Typed, [Next]_vars PROVE Stands
    BY DEF TypeOK
  <2>t. /\ delivered \in [Server -> SUBSET VoteId]
        /\ invalidated \in [Server -> SUBSET VoteId]
    BY DEF Typed
  <2>1. CASE NothingDecided
    BY <2>1 DEF NothingDecided
  <2>2. ASSUME NEW r \in Server, NEW id \in VoteId, EntryDecided(r, id)
        PROVE  Stands
    <3> SUFFICES ASSUME NEW s \in Server, NEW i \in VoteId,
                        i \in delivered[s] \cup invalidated[s]
                 PROVE  /\ i \in delivered[s] <=> i \in delivered'[s]
                        /\ i \in invalidated[s] <=> i \in invalidated'[s]
                        /\ \A b \in Ballot : IdOf[b] = i =>
                             /\ signatures'[s][b] = signatures[s][b]
                             /\ tally'[s][b] = tally[s][b]
      OBVIOUS
    <3>1. s # r \/ i # id
      BY <2>2 DEF EntryDecided, Settled
    <3>2. /\ i \in delivered[s] <=> i \in delivered'[s]
          /\ i \in invalidated[s] <=> i \in invalidated'[s]
      BY <2>2, <2>t, <3>1 DEF EntryDecided
    <3>3. \A b \in Ballot : IdOf[b] = i =>
            /\ signatures'[s][b] = signatures[s][b]
            /\ tally'[s][b] = tally[s][b]
      BY <2>2, <3>1 DEF EntryDecided
    <3> QED
      BY <3>2, <3>3
  <2> QED
    BY <2>1, <2>2, NextDecides
<1>2. TypeOK /\ [Next]_vars => [Stands]_vars
  BY <1>1
<1> QED
  BY <1>2, TypeCorrect, PTL DEF Spec, DecisionsFinal
-----------------------------------------------------------------------------
(* A quorum does not wait.                                                 *)

LEMMA NoQuorumWaitingStep ==
  ASSUME Typed, SignaturesAuthentic, NoQuorumWaiting, [Next]_vars
  PROVE  NoQuorumWaiting'
<1>t. /\ delivered \in [Server -> SUBSET VoteId]
      /\ invalidated \in [Server -> SUBSET VoteId]
      /\ up \subseteq Server
      /\ \A r \in Server : received[r] \subseteq Ballot
  BY DEF Typed
<1>n. NothingRevived
  BY NextPays DEF QuietStep, SigningStep
<1> SUFFICES ASSUME NEW r \in up', NEW i \in VoteId
             PROVE  \/ Quorate(i, received[r], signatures[r], ownCopies[r])' = {}
                    \/ Settled(r, i)'
                    \/ i \in locked'[r]
  BY DEF NoQuorumWaiting
<1>r. r \in up /\ r \in Server /\ locked[r] \subseteq locked'[r]
  BY <1>n, <1>t DEF NothingRevived
<1>i. \/ ReadyBefore(r, i) = {}
      \/ Settled(r, i)
      \/ i \in locked[r]
  BY <1>r DEF NoQuorumWaiting, ReadyBefore
<1>q. Quorate(i, received[r], signatures[r], ownCopies[r])' = Ready(r, i)
  BY DEF Ready, Quorate, Needed, N
<1>1. CASE NothingDecided
  <2>1. Ready(r, i) = ReadyBefore(r, i) /\ (Settled(r, i)' <=> Settled(r, i))
    BY <1>1 DEF NothingDecided, Ready, ReadyBefore, Settled
  <2> QED
    BY <1>i, <1>q, <1>r, <2>1
<1>2. ASSUME NEW s \in Server, NEW id \in VoteId, EntryDecided(s, id)
      PROVE  \/ Ready(r, i) = {}
             \/ Settled(r, i)'
             \/ i \in locked'[r]
  <2>1. Settled(r, i) => Settled(r, i)'
    BY <1>2, <1>r, <1>t DEF EntryDecided, Settled
  <2>2. CASE r = s /\ i = id
    BY <1>2, <1>i, <1>r, <2>1, <2>2 DEF EntryDecided, Settled
  <2>3. CASE r # s \/ i # id
    <3>1. received'[r] \subseteq Ballot
      BY <1>r, NextTyped DEF Typed
    <3>2. Ready(r, i) = ReadyBefore(r, i)
      BY <1>2, <1>r, <1>t, <2>3, <3>1
      DEF EntryDecided, Ready, ReadyBefore, Quorate
    <3> QED
      BY <1>i, <1>r, <2>1, <3>2
  <2> QED
    BY <2>2, <2>3
<1> QED
  BY <1>1, <1>2, <1>q, NextDecides

(* No ballot of a server that runs has its n - t signatures and waits: its *)
(* id is decided, or a handler has the entry for good.                     *)
THEOREM QuorumsActedOn == Spec => []NoQuorumWaiting
<1>1. Init => NoQuorumWaiting
  <2> SUFFICES ASSUME Init PROVE NoQuorumWaiting
    OBVIOUS
  <2>1. \A s \in Server : received[s] = {}
    BY DEF Init
  <2>2. \A s \in up : s \in Server
    BY DEF Init
  <2> QED
    BY <2>1, <2>2 DEF NoQuorumWaiting, Quorate
<1>2. TypeOK /\ SignaturesAuthentic /\ NoQuorumWaiting /\ [Next]_vars
      => NoQuorumWaiting'
  BY NoQuorumWaitingStep DEF TypeOK
<1> QED
  BY <1>1, <1>2, TypeCorrect, AuthenticSignatures, PTL DEF Spec
-----------------------------------------------------------------------------
(* Ids whose ballots verify everywhere.                                    *)

(* No server has a reason to challenge under this id: its own ballots      *)
(* verify, and under the zero uuid any ballot may be challenged.           *)
HonestId(i) ==
  \A b \in Ballot : IdOf[b] = i \/ i = NilId => HonestBallot(b)

(* No entry of the id was made by a challenge, dropped, or left locked,    *)
(* and no challenge under it is pending or on its way.                     *)
Undisturbed(i) ==
  \A s \in Server :
    /\ i \notin bare[s] \cup locked[s] \cup invalidated[s]
    /\ \A c \in inbox[s] \cup challenges[s] : c.id # i

LEMMA CheckSignaturesHarmless ==
  ASSUME Typed, NEW i \in EntryId, HonestId(i), Undisturbed(i),
         NEW s \in Server, NEW id \in VoteId, NEW recovered,
         received' \in [Server -> SUBSET Ballot],
         \/ CheckSignaturesReturns(s, id)
         \/ CheckSignaturesNeverReturns(s, id, recovered)
  PROVE  \A r \in Server :
           /\ i \notin locked'[r] \cup invalidated'[r]
           /\ \A c \in inbox'[r] : c.id # i
<1>t. /\ invalidated \in [Server -> SUBSET VoteId]
      /\ locked \in [Server -> SUBSET EntryId]
      /\ inbox \in [Server -> SUBSET Challenge]
  BY DEF Typed
<1>u. \A r \in Server :
        /\ i \notin locked[r] \cup invalidated[r]
        /\ \A c \in inbox[r] \cup challenges[r] : c.id # i
  BY DEF Undisturbed
<1>h. \A c \in Ready(s, id) : ~ Verifies(s, c) => id # i /\ i # NilId
  <2> SUFFICES ASSUME NEW c \in Ready(s, id), ~ Verifies(s, c)
               PROVE  id # i /\ i # NilId
    OBVIOUS
  <2>1. c \in Ballot /\ IdOf[c] = id
    BY DEF Ready, Quorate
  <2> QED
    BY <2>1 DEF HonestId, HonestBallot, Verifies
<1>1. CASE NothingReady(s, id) \/ Deliver(s, id)
  BY <1>1, <1>u DEF NothingReady, Deliver
<1>2. CASE ReplayChallenge(s, id)
  <2>1. id # i
    BY <1>2, <1>u DEF ReplayChallenge, Pending
  <2> QED
    BY <1>2, <1>t, <1>u, <2>1 DEF ReplayChallenge
<1>3. CASE ChallengeOwnShare(s, id)
  <2>1. PICK c \in Ready(s, id) :
          /\ ~ Verifies(s, c)
          /\ FloodChallenge([id |-> NilId, ballot |-> c, sender |-> s], Server)
          /\ invalidated' = [invalidated EXCEPT ![s] = @ \cup {id}]
          /\ UNCHANGED locked
    BY <1>3 DEF ChallengeOwnShare
  <2> QED
    BY <1>h, <1>t, <1>u, <2>1 DEF FloodChallenge
<1>4. CASE ChallengeOwnSharePanics(s, id, recovered)
  <2>1. PICK c \in Ready(s, id), reached \in SUBSET up :
          /\ ~ Verifies(s, c)
          /\ FloodChallenge([id |-> NilId, ballot |-> c, sender |-> s], reached)
          /\ locked' \in {locked, [locked EXCEPT ![s] = @ \cup {id}]}
          /\ UNCHANGED invalidated
    BY <1>4 DEF ChallengeOwnSharePanics
  <2> QED
    BY <1>h, <1>t, <1>u, <2>1 DEF FloodChallenge
<1> QED
  BY <1>1, <1>2, <1>3, <1>4 DEF CheckSignaturesReturns, CheckSignaturesNeverReturns

LEMMA PostHarmless ==
  ASSUME Typed, Typed', NEW i \in EntryId, HonestId(i), Undisturbed(i),
         NEW b \in Ballot, NEW s \in Server, Post(b, s)
  PROVE  Undisturbed(i)'
<1>t. /\ IdOf[b] \in VoteId
      /\ received' \in [Server -> SUBSET Ballot]
      /\ locked \in [Server -> SUBSET EntryId]
      /\ invalidated \in [Server -> SUBSET VoteId]
  BY ConstantsAssumption DEF Typed
<1>1. CASE PostUnanswered(b, s) \/ ClientShareBlocks(b, s) \/ ClientShareIgnored(b, s)
  BY <1>1 DEF PostUnanswered, ClientShareBlocks, ClientShareIgnored, entryVars,
              netVars, Undisturbed
<1>2. CASE ClientShareOnBareEntry(b, s)
  <2>1. IdOf[b] # i
    BY <1>2 DEF ClientShareOnBareEntry, Undisturbed
  <2> QED
    BY <1>2, <1>t, <2>1 DEF ClientShareOnBareEntry, netVars, Undisturbed
<1>3. CASE ClientShareAccepted(b, s)
  <2>1. \/ CheckSignaturesReturns(s, IdOf[b])
        \/ CheckSignaturesNeverReturns(s, IdOf[b], TRUE)
    BY <1>3 DEF ClientShareAccepted
  <2>2. \A r \in Server :
          /\ i \notin locked'[r] \cup invalidated'[r]
          /\ \A c \in inbox'[r] : c.id # i
    BY <1>t, <2>1, CheckSignaturesHarmless
  <2> QED
    BY <1>3, <2>2 DEF ClientShareAccepted, Undisturbed
<1>4. CASE ClientShareRejected(b, s)
  BY <1>4 DEF ClientShareRejected, netVars, Undisturbed
<1>5. CASE ClientShareChallenged(b, s)
  <2>1. IdOf[b] # i
    BY <1>5 DEF ClientShareChallenged, HonestId, HonestBallot, Verifies
  <2>2. PICK peers :
          FloodChallenge([id |-> IdOf[b], ballot |-> b, sender |-> s], peers)
    BY <1>5 DEF ClientShareChallenged
  <2>3. /\ locked' \in {locked, [locked EXCEPT ![s] = @ \cup {IdOf[b]}]}
        /\ invalidated' \in {invalidated, [invalidated EXCEPT ![s] = @ \cup {IdOf[b]}]}
        /\ UNCHANGED <<bare, challenges>>
    BY <1>5 DEF ClientShareChallenged
  <2>4. \A r \in Server : \A c \in inbox'[r] : c.id # i
    BY <2>1, <2>2 DEF FloodChallenge, Undisturbed
  <2> QED
    BY <1>t, <2>1, <2>3, <2>4 DEF Undisturbed
<1> QED
  BY <1>1, <1>2, <1>3, <1>4, <1>5 DEF Post

LEMMA UndisturbedStep ==
  ASSUME Typed, NEW i \in EntryId, HonestId(i), Undisturbed(i), [Next]_vars
  PROVE  Undisturbed(i)'
<1>t. Typed'
  BY NextTyped
<1>1. CASE UNCHANGED vars \/ \E s \in Server : Crash(s)
  BY <1>1 DEF vars, entryVars, netVars, Crash, Undisturbed
<1>2. CASE \E b \in Ballot, s \in Server : Post(b, s)
  BY <1>2, <1>t, PostHarmless
<1>3. ASSUME NEW s \in Server, NEW m \in shareMsgs, ReceiveServerShare(s, m)
      PROVE  Undisturbed(i)'
  <2>1. CASE ServerShareBlocks(s, m) \/ ServerShareOnBareEntry(s, m)
    BY <2>1 DEF ServerShareBlocks, ServerShareOnBareEntry, entryVars, netVars,
                Undisturbed
  <2>2. CASE ServerShareMerged(s, m)
    <3>1. IdOf[m.ballot] \in VoteId
      BY ConstantsAssumption DEF Typed, ShareMsg
    <3>2. \/ CheckSignaturesReturns(s, IdOf[m.ballot])
          \/ CheckSignaturesNeverReturns(s, IdOf[m.ballot], FALSE)
      BY <2>2 DEF ServerShareMerged
    <3>3. \A r \in Server :
            /\ i \notin locked'[r] \cup invalidated'[r]
            /\ \A c \in inbox'[r] : c.id # i
      BY <1>t, <3>1, <3>2, CheckSignaturesHarmless DEF Typed
    <3> QED
      BY <2>2, <3>3 DEF ServerShareMerged, Undisturbed
  <2> QED
    BY <1>3, <2>1, <2>2 DEF ReceiveServerShare
<1>4. CASE \E s \in Server, b \in Ballot : Flood(s, b)
  BY <1>4 DEF Flood, Send, SendPanics, entryVars, Undisturbed
<1>5. ASSUME NEW s \in Server, NEW c \in inbox[s], ChallengeVote(s, c)
      PROVE  Undisturbed(i)'
  <2>t. /\ bare \in [Server -> SUBSET EntryId]
        /\ locked \in [Server -> SUBSET EntryId]
        /\ challenges \in [Server -> SUBSET Challenge]
        /\ inbox \in [Server -> SUBSET Challenge]
    BY DEF Typed
  <2>1. c.id # i
    BY DEF Undisturbed
  <2>2. /\ inbox' = [inbox EXCEPT ![s] = @ \ {c}]
        /\ UNCHANGED invalidated
        /\ bare' \in {bare, [bare EXCEPT ![s] = @ \cup {c.id}]}
        /\ locked' \in {locked, [locked EXCEPT ![s] = @ \cup {c.id}]}
        /\ challenges' \in {challenges, [challenges EXCEPT ![s] = @ \cup {c}]}
    BY <1>5 DEF ChallengeVote, ChallengeUnknownId, ChallengeIgnored,
       ChallengeBlocks, ChallengeKept, ChallengeLeaksLock, ChallengeRuns,
       TakeChallenge, KeepChallenge, entryVars
  <2> QED
    BY <2>t, <2>1, <2>2 DEF Undisturbed
<1> QED
  BY <1>1, <1>2, <1>3, <1>4, <1>5 DEF Next

(* The inductive invariant of both theorems below. *)
HonestIdsClean == \A i \in EntryId : HonestId(i) => Undisturbed(i)

LEMMA HonestIdsStayClean == Spec => []HonestIdsClean
<1>1. Init => HonestIdsClean
  BY DEF Init, HonestIdsClean, Undisturbed
<1>2. TypeOK /\ HonestIdsClean /\ [Next]_vars => HonestIdsClean'
  BY UndisturbedStep DEF TypeOK, HonestIdsClean, HonestId
<1> QED
  BY <1>1, <1>2, TypeCorrect, PTL DEF Spec

(* A vote whose ballots verify everywhere is never dropped and its entry   *)
(* never left locked, however many others are challenged.                  *)
THEOREM HonestIdsSafe == Spec => []HonestIdsUndisturbed
<1>1. HonestIdsClean => HonestIdsUndisturbed
  BY ConstantsAssumption
  DEF HonestIdsClean, HonestIdsUndisturbed, HonestId, Undisturbed, EntryId
<1> QED
  BY <1>1, HonestIdsStayClean, PTL

-----------------------------------------------------------------------------
(* Nothing but honest ballots.                                             *)

(* No handler comes to wait; a server leaves by a crash, or for want of a  *)
(* connection to a peer that has left; new connections are those of        *)
(* servers that run.                                                       *)
HarmlessStep ==
  /\ UNCHANGED idsHeld
  /\ \/ UNCHANGED <<up, connected>>
     \/ UNCHANGED up /\ \E s \in up : connected' = connected \cup {s}
     \/ \E s \in Server : Crash(s)
     \/ UNCHANGED connected /\ \E s \in Server : DialPanics(s) /\ up' = up \ {s}

LEMMA HonestStepHarmless ==
  ASSUME Typed, \A b \in Ballot : HonestBallot(b), HonestIdsClean, [Next]_vars
  PROVE  HarmlessStep
<1>u. \A i \in EntryId : Undisturbed(i)
  BY DEF HonestIdsClean, HonestId
<1>l. \A s \in Server, i \in EntryId : i \notin locked[s] \cup bare[s]
  BY <1>u DEF Undisturbed
<1>c. \A s \in Server : inbox[s] = {} /\ challenges[s] = {}
  <2> SUFFICES ASSUME NEW s \in Server, NEW c \in inbox[s] \cup challenges[s]
               PROVE  FALSE
    OBVIOUS
  <2>1. c.id \in EntryId
    BY DEF Typed, Challenge
  <2> QED
    BY <1>u, <2>1 DEF Undisturbed
<1>i. \A b \in Ballot : IdOf[b] \in EntryId
  BY ConstantsAssumption DEF EntryId
<1>v. \A s \in Server, b \in Ballot : Verifies(s, b)
  BY DEF Verifies, HonestBallot
<1>s. ASSUME NEW s \in Server, NEW id \in VoteId, NEW recovered,
             received'[s] \subseteq Ballot,
             \/ CheckSignaturesReturns(s, id)
             \/ CheckSignaturesNeverReturns(s, id, recovered)
      PROVE  UNCHANGED <<idsHeld, up>>
  <2>1. Ready(s, id) \subseteq Ballot /\ Pending(s, id) = {}
    BY <1>s, <1>c DEF Ready, Quorate, Pending
  <2> QED
    BY <1>s, <1>v, <2>1
    DEF CheckSignaturesReturns, CheckSignaturesNeverReturns, NothingReady,
        Deliver, ReplayChallenge, ChallengeOwnShare, ChallengeOwnSharePanics
<1>r. \A s \in Server : received'[s] \subseteq Ballot
  BY NextTyped DEF Typed
<1>1. CASE UNCHANGED vars
  BY <1>1 DEF vars, serverVars, HarmlessStep
<1>2. CASE \E s \in Server : Crash(s)
  BY <1>2 DEF Crash, HarmlessStep
<1>3. ASSUME NEW b \in Ballot, NEW s \in Server, Post(b, s)
      PROVE  HarmlessStep
  <2>1. CASE PostUnanswered(b, s) \/ ClientShareIgnored(b, s)
    BY <2>1 DEF PostUnanswered, ClientShareIgnored, serverVars, HarmlessStep
  <2>2. ~ ClientShareBlocks(b, s) /\ ~ ClientShareOnBareEntry(b, s)
    BY <1>l, <1>i DEF ClientShareBlocks, ClientShareOnBareEntry
  <2>3. ~ ClientShareRejected(b, s) /\ ~ ClientShareChallenged(b, s)
    BY <1>v DEF ClientShareRejected, ClientShareChallenged
  <2>4. CASE ClientShareAccepted(b, s)
    <3>1. \/ CheckSignaturesReturns(s, IdOf[b])
          \/ CheckSignaturesNeverReturns(s, IdOf[b], TRUE)
      BY <2>4 DEF ClientShareAccepted
    <3>2. UNCHANGED <<idsHeld, up>>
      BY <1>r, <1>s, <3>1, ConstantsAssumption
    <3> QED
      BY <2>4, <3>2 DEF ClientShareAccepted, HarmlessStep
  <2> QED
    BY <1>3, <2>1, <2>2, <2>3, <2>4 DEF Post
<1>4. ASSUME NEW s \in Server, NEW m \in shareMsgs, ReceiveServerShare(s, m)
      PROVE  HarmlessStep
  <2>b. m.ballot \in Ballot
    BY DEF Typed, ShareMsg
  <2>1. ~ ServerShareBlocks(s, m) /\ ~ ServerShareOnBareEntry(s, m)
    BY <1>l, <1>i, <2>b DEF ServerShareBlocks, ServerShareOnBareEntry
  <2>2. ServerShareMerged(s, m)
    BY <1>4, <2>1 DEF ReceiveServerShare
  <2>3. \/ CheckSignaturesReturns(s, IdOf[m.ballot])
        \/ CheckSignaturesNeverReturns(s, IdOf[m.ballot], FALSE)
    BY <2>2 DEF ServerShareMerged
  <2>4. UNCHANGED <<idsHeld, up>>
    BY <1>r, <1>s, <2>b, <2>3, ConstantsAssumption
  <2> QED
    BY <2>2, <2>4 DEF ServerShareMerged, HarmlessStep
<1>5. CASE \E s \in Server, b \in Ballot : Flood(s, b)
  BY <1>5 DEF Flood, Floods, Send, SendPanics, HarmlessStep
<1> QED
  BY <1>1, <1>2, <1>3, <1>4, <1>5, <1>c DEF Next

LEMMA HonestBallotsHarmlessStep ==
  ASSUME Typed, HonestIdsClean, HonestBallotsHarmless, [Next]_vars
  PROVE  HonestBallotsHarmless'
<1> SUFFICES ASSUME \A b \in Ballot : HonestBallot(b)
             PROVE  /\ idsHeld' = {}
                    /\ Cardinality(connected' \ up') <= MaxCrashes
                    /\ MaxCrashes = 0 => up' = Server
  BY DEF HonestBallotsHarmless, HonestBallot
<1>h. HarmlessStep
  BY HonestStepHarmless
<1>i. /\ idsHeld = {}
      /\ Cardinality(connected \ up) <= MaxCrashes
      /\ MaxCrashes = 0 => up = Server
  BY DEF HonestBallotsHarmless
<1>t. up \subseteq Server /\ connected \subseteq Server /\ MaxCrashes \in Nat
  BY ConstantsAssumption DEF Typed
<1>1. CASE UNCHANGED <<up, connected>>
  BY <1>1, <1>h, <1>i DEF HarmlessStep
<1>2. CASE UNCHANGED up /\ \E s \in up : connected' = connected \cup {s}
  <2>1. connected' \ up' = connected \ up
    BY <1>2
  <2> QED
    BY <1>2, <1>h, <1>i, <2>1 DEF HarmlessStep
<1>3. CASE \E s \in Server : Crash(s)
  <2>1. PICK s \in up : /\ Cardinality(Server \ up) < MaxCrashes
                        /\ up' = up \ {s}
                        /\ UNCHANGED connected
    BY <1>3 DEF Crash
  <2>2. IsFiniteSet(Server \ up) /\ IsFiniteSet(Server \ up')
    BY ConstantsAssumption, FS_Subset
  <2>3. Server \ up' = (Server \ up) \cup {s}
    BY <1>t, <2>1
  <2>4. Cardinality(Server \ up') = Cardinality(Server \ up) + 1
    BY <2>1, <2>2, <2>3, FS_AddElement
  <2>5. connected' \ up' \subseteq Server \ up'
    BY <1>t, <2>1
  <2>6. Cardinality(connected' \ up') <= Cardinality(Server \ up')
    BY <2>2, <2>5, FS_Subset
  <2>7. /\ Cardinality(Server \ up) \in Nat
        /\ Cardinality(connected' \ up') \in Nat
    BY <2>2, <2>5, FS_Subset, FS_CardinalityType
  <2> QED
    BY <1>h, <1>i, <1>t, <2>1, <2>4, <2>6, <2>7 DEF HarmlessStep
<1>4. CASE UNCHANGED connected /\ \E s \in Server : DialPanics(s) /\ up' = up \ {s}
  <2>1. connected' \ up' = connected \ up /\ up # Server
    BY <1>4 DEF DialPanics
  <2> QED
    BY <1>h, <1>i, <2>1 DEF HarmlessStep
<1> QED
  BY <1>1, <1>2, <1>3, <1>4, <1>h DEF HarmlessStep

(* When every ballot verifies everywhere no server is ever blocked, and    *)
(* none ends that has reached its peers, but by itself.                    *)
THEOREM HonestElectionSafe == Spec => []HonestBallotsHarmless
<1>1. Init => HonestBallotsHarmless
  <2>1. Init => connected \ up = {} /\ idsHeld = {} /\ up = Server
    BY DEF Init
  <2> QED
    BY <2>1, ConstantsAssumption, FS_EmptySet DEF HonestBallotsHarmless
<1>2. TypeOK /\ HonestIdsClean /\ HonestBallotsHarmless /\ [Next]_vars
      => HonestBallotsHarmless'
  BY HonestBallotsHarmlessStep DEF TypeOK
<1> QED
  BY <1>1, <1>2, TypeCorrect, HonestIdsStayClean, PTL DEF Spec
-----------------------------------------------------------------------------
(* The servers implement the broadcast.                                    *)

LEMMA BroadcastOperators ==
  /\ \A S : Broadcast!Cardinality(S) = Cardinality(S)
  /\ Broadcast!Needed = Needed
<1>1. \A S : Broadcast!Cardinality(S) = Cardinality(S)
  BY DEF Broadcast!Cardinality, Cardinality
<1>2. \A n : Broadcast!SignaturesNeeded(n) = SignaturesNeeded(n)
  BY DEF Broadcast!SignaturesNeeded, SignaturesNeeded, Broadcast!CalculateT,
         CalculateT
<1> QED
  BY <1>1, <1>2 DEF Broadcast!Needed, Needed, N

signersBar == [b \in Ballot |-> Signers(b)]
countedBar == [s \in Server |-> Counted(s)]

(* At most one ballot gains a signer, by that server itself; a signature   *)
(* in a message is its signer's, who has it already.                       *)
LEMMA SignersStep ==
  ASSUME Typed, SignaturesAuthentic, StepEffect
  PROVE  \/ signersBar' = signersBar
         \/ \E s \in Server, b \in Ballot :
              /\ signatures'[s][b] # signatures[s][b]
              /\ signersBar' = [signersBar EXCEPT ![b] = @ \cup {s}]
<1>t. signatures \in [Server -> [Ballot -> SUBSET Server]]
  BY DEF Typed
<1>1. CASE ListsKept
  BY <1>1 DEF ListsKept, signersBar, Signers
<1>2. CASE ListSigned
  <2>1. PICK s \in Server, b \in Ballot :
          signatures' \in {signatures, [signatures EXCEPT ![s][b] = @ \cup {s}]}
    BY <1>2 DEF ListSigned, SignBallot
  <2>2. CASE signatures'[s][b] = signatures[s][b]
    <3>1. \A v \in Server, c \in Ballot : signatures'[v][c] = signatures[v][c]
      BY <1>t, <2>1, <2>2
    <3> QED
      BY <3>1 DEF signersBar, Signers
  <2>3. CASE signatures'[s][b] # signatures[s][b]
    <3>1. signatures' = [signatures EXCEPT ![s][b] = @ \cup {s}]
      BY <2>1, <2>3
    <3>2. \A v \in Server, c \in Ballot :
            v \in signatures'[v][c] <=> v \in signatures[v][c] \/ (v = s /\ c = b)
      BY <1>t, <3>1
    <3>3. \A c \in Ballot :
            Signers(c)' = IF c = b THEN Signers(c) \cup {s} ELSE Signers(c)
      BY <3>2 DEF Signers
    <3>4. signersBar' = [signersBar EXCEPT ![b] = @ \cup {s}]
      BY <3>3 DEF signersBar
    <3> QED
      BY <2>3, <3>4
  <2> QED
    BY <2>2, <2>3
<1>3. CASE ListMerged
  <2>1. PICK s \in Server, m \in shareMsgs :
          signatures' = [signatures EXCEPT ![s][m.ballot]
                                      = @ \cup NewSignatures(s, m)]
    BY <1>3 DEF ListMerged
  <2>2. s \notin NewSignatures(s, m)
    BY DEF SignaturesAuthentic, NewSignatures
  <2>3. \A v \in Server, c \in Ballot :
          v \in signatures'[v][c] <=> v \in signatures[v][c]
    BY <1>t, <2>1, <2>2
  <2> QED
    BY <2>3 DEF signersBar, Signers
<1> QED
  BY <1>1, <1>2, <1>3 DEF StepEffect

(* A server counts a share that verifies, of an id it counts no other      *)
(* ballot of, with a quorum behind it.                                     *)
LEMMA CountedStep ==
  ASSUME MaxRetries = 0, Typed, Typed', CountedOnce, BackedByQuorum', StepEffect
  PROVE  \/ countedBar' = countedBar
         \/ \E s \in Server, c \in Ballot :
              /\ tally'[s][c] # tally[s][c]
              /\ s \in ValidAt[c]
              /\ \A d \in countedBar[s] : IdOf[d] # IdOf[c]
              /\ Cardinality(signersBar'[c]) >= Needed
              /\ countedBar' = [countedBar EXCEPT ![s] = @ \cup {c}]
<1>t. /\ tally \in [Server -> [Ballot -> Nat]]
      /\ retries' \in [Ballot -> 0 .. MaxRetries]
      /\ received' \in [Server -> SUBSET Ballot]
  BY DEF Typed
<1>1. CASE UNCHANGED tally
  BY <1>1 DEF countedBar, Counted
<1>2. ASSUME NEW s \in Server, NEW id \in VoteId, ~ Settled(s, id), Deliver(s, id)
      PROVE  \E c \in Ballot :
               /\ tally'[s][c] # tally[s][c]
               /\ s \in ValidAt[c]
               /\ \A d \in countedBar[s] : IdOf[d] # IdOf[c]
               /\ Cardinality(signersBar'[c]) >= Needed
               /\ countedBar' = [countedBar EXCEPT ![s] = @ \cup {c}]
  <2>1. PICK c \in Ready(s, id) :
          Verifies(s, c) /\ tally' = [tally EXCEPT ![s][c] = @ + 1]
    BY <1>2 DEF Deliver
  <2>2. c \in Ballot /\ IdOf[c] = id
    BY <1>t DEF Ready, Quorate
  <2>3. tally[s][c] \in Nat /\ tally'[s][c] = tally[s][c] + 1
    BY <1>t, <2>1, <2>2
  <2>4. \A d \in countedBar[s] : IdOf[d] # IdOf[c]
    BY <1>2, <2>2 DEF Settled, CountedOnce, countedBar, Counted
  <2>5. Cardinality(signersBar'[c]) >= Needed
    <3>1. retries'[c] = 0
      BY <1>t, <2>2
    <3>2. tally'[s][c] > 0
      BY <2>3
    <3>3. Cardinality(Signers(c)') + 0 >= Needed
      BY <2>2, <3>1, <3>2 DEF BackedByQuorum, Signers, Needed, N
    <3>4. Cardinality(Signers(c)') \in Nat
      <4>1. Signers(c)' \subseteq Server
        BY DEF Signers
      <4> QED
        BY <4>1, ConstantsAssumption, FS_Subset, FS_CardinalityType
    <3> QED
      BY <2>2, <3>3, <3>4, NeededInt DEF signersBar
  <2>6. \A r \in Server, b \in Ballot :
          tally'[r][b] > 0 <=> tally[r][b] > 0 \/ (r = s /\ b = c)
    <3> TAKE r \in Server, b \in Ballot
    <3>1. CASE r = s /\ b = c
      BY <2>3, <3>1
    <3>2. CASE ~ (r = s /\ b = c)
      BY <1>t, <2>1, <3>2
    <3> QED
      BY <3>1, <3>2
  <2>7. \A r \in Server :
          Counted(r)' = IF r = s THEN Counted(r) \cup {c} ELSE Counted(r)
    BY <2>2, <2>6 DEF Counted
  <2>8. countedBar' = [countedBar EXCEPT ![s] = @ \cup {c}]
    BY <2>7 DEF countedBar
  <2>9. tally'[s][c] # tally[s][c] /\ s \in ValidAt[c]
    BY <2>1, <2>3 DEF Verifies
  <2> QED
    BY <2>2, <2>4, <2>5, <2>8, <2>9
<1> QED
  BY <1>1, <1>2 DEF StepEffect, TallyGrows

(* What is signed and what is counted in one step, one server does.        *)
LEMMA BroadcastStep ==
  ASSUME MaxRetries = 0, Typed, Typed', SignaturesAuthentic, CountedOnce,
         BackedByQuorum', [Next]_vars
  PROVE  [Broadcast!Next]_(Broadcast!vars)
<1>t. /\ signatures \in [Server -> [Ballot -> SUBSET Server]]
      /\ tally \in [Server -> [Ballot -> Nat]]
  BY DEF Typed
<1>d. \/ NothingDecided
      \/ \E s \in Server : \A r \in Server \ {s}, b \in Ballot :
           signatures'[r][b] = signatures[r][b] /\ tally'[r][b] = tally[r][b]
  BY NextDecides DEF EntryDecided
<1>1. \/ signersBar' = signersBar
      \/ \E s \in Server, b \in Ballot :
           /\ signatures'[s][b] # signatures[s][b]
           /\ signersBar' = [signersBar EXCEPT ![b] = @ \cup {s}]
  BY SignersStep, NextEffect
<1>2. \/ countedBar' = countedBar
      \/ \E s \in Server, c \in Ballot :
           tally'[s][c] # tally[s][c] /\ Broadcast!Count(s, c)
  <2>1. \/ countedBar' = countedBar
        \/ \E s \in Server, c \in Ballot :
             /\ tally'[s][c] # tally[s][c]
             /\ s \in ValidAt[c]
             /\ \A d \in countedBar[s] : IdOf[d] # IdOf[c]
             /\ Cardinality(signersBar'[c]) >= Needed
             /\ countedBar' = [countedBar EXCEPT ![s] = @ \cup {c}]
    BY CountedStep, NextEffect
  <2> QED
    BY <2>1, BroadcastOperators DEF Broadcast!Count, signersBar, countedBar
<1>3. ASSUME NEW s \in Server, NEW b \in Ballot,
             signersBar' = [signersBar EXCEPT ![b] = @ \cup {s}]
      PROVE  Broadcast!Sign(s, b)
  BY <1>3 DEF Broadcast!Sign, signersBar
<1>4. CASE signersBar' = signersBar /\ countedBar' = countedBar
  BY <1>4 DEF Broadcast!vars, signersBar, countedBar
<1>5. ASSUME NEW s \in Server, NEW b \in Ballot, Broadcast!Sign(s, b),
             countedBar' = countedBar
      PROVE  Broadcast!Next
  BY <1>5 DEF Broadcast!Next, countedBar
<1>6. ASSUME NEW s \in Server, NEW c \in Ballot, Broadcast!Count(s, c),
             signersBar' = signersBar
      PROVE  Broadcast!Next
  BY <1>6 DEF Broadcast!Next, signersBar
<1>7. ASSUME NEW s \in Server, NEW b \in Ballot, NEW r \in Server, NEW c \in Ballot,
             signatures'[s][b] # signatures[s][b], Broadcast!Sign(s, b),
             tally'[r][c] # tally[r][c], Broadcast!Count(r, c)
      PROVE  Broadcast!Next
  <2>1. s = r
    BY <1>7, <1>d DEF NothingDecided
  <2> QED
    BY <1>7, <2>1 DEF Broadcast!Next
<1> QED
  BY <1>1, <1>2, <1>3, <1>4, <1>5, <1>6, <1>7

(* While no answer to a client is lost, every step of the servers is one   *)
(* of the broadcast, or nothing to it: a server signs what it is posted,   *)
(* and counts a ballot that verifies, the only one of its id, with the     *)
(* signatures of n - t servers.                                            *)
THEOREM DeliveryImplementsBroadcast ==
  ASSUME MaxRetries = 0
  PROVE  Spec => ImplementsBroadcast
<1>1. Init => Broadcast!Init
  BY DEF Init, Broadcast!Init, Signers, Counted
<1>2. /\ TypeOK /\ TypeOK' /\ SignaturesAuthentic /\ CountedOnce
      /\ BackedByQuorum' /\ [Next]_vars
      => [Broadcast!Next]_(Broadcast!vars)
  BY BroadcastStep DEF TypeOK
<1> QED
  BY <1>1, <1>2, TypeCorrect, AuthenticSignatures, EachIdCountedOnce,
     CountedBackedByQuorum, PTL
  DEF Spec, ImplementsBroadcast, Broadcast!Spec

-----------------------------------------------------------------------------
(* What the broadcast itself promises, for every behaviour of it.          *)

LEMMA BroadcastTyped ==
  /\ signersBar \in [Ballot -> SUBSET Server]
  /\ countedBar \in [Server -> SUBSET Ballot]
BY DEF signersBar, countedBar, Signers, Counted

BackedBar == \A s \in Server : \A b \in countedBar[s] : Cardinality(signersBar[b]) >= Needed

OneBar == \A s \in Server : \A b, c \in countedBar[s] : IdOf[b] = IdOf[c] => b = c

LEMMA BroadcastForms ==
  /\ Broadcast!BackedByQuorum <=> BackedBar
  /\ Broadcast!OnePerId <=> OneBar
  /\ \A s \in Server, b \in Ballot :
       Broadcast!Sign(s, b) => signersBar' = [signersBar EXCEPT ![b] = @ \cup {s}]
  /\ \A s \in Server, b \in Ballot :
       Broadcast!Count(s, b) => /\ \A c \in countedBar[s] : IdOf[c] # IdOf[b]
                                /\ Cardinality(signersBar'[b]) >= Needed
                                /\ countedBar' = [countedBar EXCEPT ![s] = @ \cup {b}]
<1>1. Broadcast!BackedByQuorum <=> BackedBar
  BY BroadcastOperators DEF Broadcast!BackedByQuorum, BackedBar, signersBar, countedBar
<1>2. Broadcast!OnePerId <=> OneBar
  BY DEF Broadcast!OnePerId, OneBar, countedBar
<1>3. ASSUME NEW s \in Server, NEW b \in Ballot, Broadcast!Sign(s, b)
      PROVE  signersBar' = [signersBar EXCEPT ![b] = @ \cup {s}]
  BY <1>3 DEF Broadcast!Sign, signersBar
<1>4. ASSUME NEW s \in Server, NEW b \in Ballot, Broadcast!Count(s, b)
      PROVE  /\ \A c \in countedBar[s] : IdOf[c] # IdOf[b]
             /\ Cardinality(signersBar'[b]) >= Needed
             /\ countedBar' = [countedBar EXCEPT ![s] = @ \cup {b}]
  BY <1>4, BroadcastOperators DEF Broadcast!Count, signersBar, countedBar
<1> QED
  BY <1>1, <1>2, <1>3, <1>4

(* A further signature takes nothing from a quorum. *)
LEMMA SignersBarGrow ==
  ASSUME NEW s \in Server, NEW b \in Ballot,
         signersBar' = [signersBar EXCEPT ![b] = @ \cup {s}]
  PROVE  \A c \in Ballot :
           Cardinality(signersBar[c]) >= Needed => Cardinality(signersBar'[c]) >= Needed
<1> SUFFICES ASSUME NEW c \in Ballot, Cardinality(signersBar[c]) >= Needed
             PROVE  Cardinality(signersBar'[c]) >= Needed
  OBVIOUS
<1>1. /\ signersBar[c] \subseteq signersBar'[c]
      /\ signersBar'[c] \subseteq Server
  BY BroadcastTyped
<1>2. IsFiniteSet(signersBar'[c])
  BY <1>1, ConstantsAssumption, FS_Subset
<1>3. /\ Cardinality(signersBar[c]) <= Cardinality(signersBar'[c])
      /\ Cardinality(signersBar[c]) \in Nat /\ Cardinality(signersBar'[c]) \in Nat
  BY <1>1, <1>2, FS_Subset, FS_CardinalityType
<1> QED
  BY <1>3, NeededInt

LEMMA CountedBarKeeps ==
  ASSUME OneBar, NEW s \in Server, NEW c \in Ballot,
         \A d \in countedBar[s] : IdOf[d] # IdOf[c],
         Cardinality(signersBar'[c]) >= Needed,
         countedBar' = [countedBar EXCEPT ![s] = @ \cup {c}],
         \A r \in Server : \A b \in countedBar[r] : Cardinality(signersBar'[b]) >= Needed
  PROVE  BackedBar' /\ OneBar'
<1>1. BackedBar'
  <2> SUFFICES ASSUME NEW r \in Server, NEW b \in countedBar'[r]
               PROVE  Cardinality(signersBar'[b]) >= Needed
    BY DEF BackedBar, Needed, N
  <2>1. b \in countedBar[r] \/ b = c
    BY BroadcastTyped
  <2> QED
    BY <2>1
<1>2. OneBar'
  <2> SUFFICES ASSUME NEW r \in Server, NEW a \in countedBar'[r], NEW b \in countedBar'[r],
                      IdOf[a] = IdOf[b]
               PROVE  a = b
    BY DEF OneBar
  <2>1. CASE r = s
    <3>1. /\ a \in countedBar[s] \/ a = c
          /\ b \in countedBar[s] \/ b = c
      BY <2>1, BroadcastTyped
    <3> QED
      BY <3>1 DEF OneBar
  <2>2. CASE r # s
    BY <2>2, BroadcastTyped DEF OneBar
  <2> QED
    BY <2>1, <2>2
<1> QED
  BY <1>1, <1>2

LEMMA BroadcastKeeps ==
  ASSUME BackedBar, OneBar, [Broadcast!Next]_(Broadcast!vars)
  PROVE  BackedBar' /\ OneBar'
<1>q. \A r \in Server : \A b \in countedBar[r] :
        b \in Ballot /\ Cardinality(signersBar[b]) >= Needed
  BY BroadcastTyped DEF BackedBar
<1>1. CASE Broadcast!vars' = Broadcast!vars
  <2>1. signersBar' = signersBar /\ countedBar' = countedBar
    BY <1>1 DEF Broadcast!vars, signersBar, countedBar
  <2> QED
    BY <2>1 DEF BackedBar, OneBar, Needed, N
<1>2. ASSUME NEW s \in Server, NEW b \in Ballot, Broadcast!Sign(s, b), countedBar' = countedBar
      PROVE  BackedBar' /\ OneBar'
  <2>1. \A r \in Server : \A c \in countedBar[r] : Cardinality(signersBar'[c]) >= Needed
    BY <1>2, <1>q, BroadcastForms, SignersBarGrow
  <2> QED
    BY <1>2, <2>1 DEF BackedBar, OneBar, Needed, N
<1>3. ASSUME NEW s \in Server, NEW c \in Ballot, signersBar' = signersBar, Broadcast!Count(s, c)
      PROVE  BackedBar' /\ OneBar'
  BY <1>3, <1>q, BroadcastForms, CountedBarKeeps
<1>4. ASSUME NEW s \in Server, NEW b \in Ballot, NEW c \in Ballot,
             Broadcast!Sign(s, b), Broadcast!Count(s, c)
      PROVE  BackedBar' /\ OneBar'
  <2>1. \A r \in Server : \A d \in countedBar[r] : Cardinality(signersBar'[d]) >= Needed
    BY <1>4, <1>q, BroadcastForms, SignersBarGrow
  <2> QED
    BY <1>4, <2>1, BroadcastForms, CountedBarKeeps
<1>5. Broadcast!Next => BackedBar' /\ OneBar'
  <2> SUFFICES ASSUME Broadcast!Next PROVE BackedBar' /\ OneBar'
    OBVIOUS
  <2>1. PICK s \in Server :
          \/ \E b \in Ballot : Broadcast!Sign(s, b) /\ countedBar' = countedBar
          \/ \E b \in Ballot : signersBar' = signersBar /\ Broadcast!Count(s, b)
          \/ \E b, c \in Ballot : Broadcast!Sign(s, b) /\ Broadcast!Count(s, c)
    BY DEF Broadcast!Next, signersBar, countedBar
  <2> QED
    BY <1>2, <1>3, <1>4, <2>1
<1> QED
  BY <1>1, <1>5

LEMMA BroadcastInvariant == Broadcast!Spec => [](BackedBar /\ OneBar)
<1>1. Broadcast!Init => BackedBar /\ OneBar
  <2>1. Broadcast!Init => countedBar = [s \in Server |-> {}]
    BY DEF Broadcast!Init, countedBar
  <2> QED
    BY <2>1 DEF BackedBar, OneBar
<1>2. BackedBar /\ OneBar /\ [Broadcast!Next]_(Broadcast!vars) => (BackedBar /\ OneBar)'
  BY BroadcastKeeps
<1> QED
  BY <1>1, <1>2, PTL DEF Broadcast!Spec

(* In the abstract specification a server counts one ballot of an id, and  *)
(* only with n - t signers.                                                *)
THEOREM OneBackedBallotPerId ==
  Broadcast!Spec => [](Broadcast!BackedByQuorum /\ Broadcast!OnePerId)
<1>1. BackedBar /\ OneBar => Broadcast!BackedByQuorum /\ Broadcast!OnePerId
  BY BroadcastForms
<1> QED
  BY <1>1, BroadcastInvariant, PTL

(* In the abstract specification servers count different ballots of an id  *)
(* only if some server signed both: n - t of n and n - t others have a     *)
(* server in common.                                                       *)
THEOREM BroadcastAgreement == Broadcast!Spec => []Broadcast!Agreement
<1>1. BackedBar => Broadcast!Agreement
  <2> SUFFICES ASSUME BackedBar, NEW s \in Server, NEW r \in Server,
                      NEW b \in countedBar[s], NEW c \in countedBar[r]
               PROVE  signersBar[b] \cap signersBar[c] # {}
    BY DEF Broadcast!Agreement, signersBar, countedBar
  <2>1. /\ signersBar[b] \in SUBSET Server /\ signersBar[c] \in SUBSET Server
        /\ Cardinality(signersBar[b]) >= Needed /\ Cardinality(signersBar[c]) >= Needed
    BY BroadcastTyped DEF BackedBar
  <2> QED
    BY <2>1, QuorumsIntersect
<1> QED
  BY <1>1, BroadcastInvariant, PTL
=============================================================================
