------------------------------- MODULE StartUp ------------------------------
(***************************************************************************)
(* Votes that meet a server which is still starting: from the phase-two    *)
(* signal (receiveStartPhaseTwoSignal, the end of StartNetwork and         *)
(* NewActiveMPCController) to the votes of a client that has asked another *)
(* server already (getClientInfo, generateShares, vote of                  *)
(* Client/client.go).                                                      *)
(*                                                                         *)
(* A server answers POSTs and accepts connections from before it joins,    *)
(* and StartNetwork sets one field after the other: a handler runs on what *)
(* is set by then.  `stage' says how far it is.                            *)
(*                                                                         *)
(* Every ballot has a vote id of its own and verifies where it can be      *)
(* opened.  The handlers are those of VoteDelivery, at the same grain, as  *)
(* far as such ballots need them; Membership ends where this module        *)
(* begins.                                                                 *)
(***************************************************************************)
EXTENDS Thresholds, FiniteSets

CONSTANTS
  Parties,   \* the number of servers
  Late,      \* the servers whose signal is still under way; not the creator
             \* of the network, which set its ss to share the start secret
  JoinedAs,  \* the list of a server before it sorts it
  Ballot,    \* what the client posts, each in a goroutine
  None       \* a goroutine that is between two servers

(* Servers are named by the place they take in a sorted list. *)
Server == 0 .. Parties - 1

ASSUME StartUpAssumption ==
  /\ Parties \in Nat /\ Parties >= MinParties
  /\ Late \subseteq Server
  /\ JoinedAs \in [Server -> [Server -> Server]]
  /\ None \notin Server

(* What is set, in the order of the code. *)
Joined     == 0
Sorted     == 1  \* ipList in order
Primed     == 2  \* t, primeP, primeQ
Sharing    == 3  \* ss
Indexed    == 4  \* serverId
Registered == 5  \* the RPC methods
Voting     == 6  \* the observer

VARIABLES
  stage, ipList,
  client,      \* "asks", "votes" or "ended"
  clientList,  \* the client's copy of a list, empty before
  unsent, at,  \* the servers of `vote' still to post to, and the one tried
  signatures,  \* the list of a ballot: who signed, under which index
  delivered,   \* ballots with delivered set
  counted,     \* ballots whose share the tally got
  locked, idsHeld, up, outgoing, msgs,  \* as in VoteDelivery
  overtaken    \* auxiliary: servers a vote met before they were Voting

clientVars == <<client, clientList, unsent, at>>
entryVars  == <<signatures, delivered, counted, locked>>
serverVars == <<idsHeld, up, outgoing, msgs>>
vars == <<stage, ipList, clientVars, entryVars, serverVars, overtaken>>

Needed == SignaturesNeeded(Parties)
InOrder == [i \in Server |-> i]

Init ==
  /\ stage      = [s \in Server |-> IF s \in Late THEN Joined ELSE Voting]
  /\ ipList     = [s \in Server |-> IF s \in Late THEN JoinedAs[s] ELSE InOrder]
  /\ client     = "asks"
  /\ clientList = <<>>
  /\ unsent     = [b \in Ballot |-> Server]
  /\ at         = [b \in Ballot |-> None]
  /\ signatures = [s \in Server |-> [b \in Ballot |-> {}]]
  /\ delivered  = [s \in Server |-> {}]
  /\ counted    = [s \in Server |-> {}]
  /\ locked     = [s \in Server |-> {}]
  /\ idsHeld    = {}
  /\ up         = Server
  /\ outgoing   = [s \in Server |-> {}]
  /\ msgs       = {}
  /\ overtaken  = {}

-----------------------------------------------------------------------------
(* The server.                                                             *)

(* sortIpStruct before the hand-over to StartNetwork. *)
ReceiveUnsorted(s) ==
  /\ s \in up
  /\ stage[s] = Joined
  /\ stage' = [stage EXCEPT ![s] = Sorted]
  /\ UNCHANGED <<ipList, clientVars, entryVars, serverVars, overtaken>>

ReceiveStartPhaseTwoSignal(s) ==
  /\ s \in up
  /\ stage[s] = Joined
  /\ stage' = [stage EXCEPT ![s] = Sorted]
  /\ ipList' = [ipList EXCEPT ![s] = InOrder]
  /\ UNCHANGED <<clientVars, entryVars, serverVars, overtaken>>

StartNetwork(s) ==
  /\ s \in up
  /\ stage[s] \in Sorted .. Registered
  /\ stage' = [stage EXCEPT ![s] = @ + 1]
  /\ UNCHANGED <<ipList, clientVars, entryVars, serverVars, overtaken>>

(* serverId is 0 before it is set. *)
ServerId(s) ==
  IF stage[s] < Indexed THEN 0 ELSE CHOOSE i \in Server : ipList[s][i] = s

(* generateShares encrypts the share of each place for the server that the *)
(* client has there.                                                       *)
EncryptedFor(place) == clientList[place]

(* decryptShare of the share at the server's own place, and VerifyShare of *)
(* ss.                                                                     *)
Opens(s) == stage[s] >= Sharing /\ EncryptedFor(ServerId(s)) = s

Meets(s) ==
  overtaken' = IF stage[s] < Voting THEN overtaken \cup {s} ELSE overtaken

-----------------------------------------------------------------------------
(* The client.                                                             *)

(* The primes of a server that has none do not parse, and the client       *)
(* panics on them.                                                         *)
GetClientInfo(s) ==
  /\ client = "asks"
  /\ s \in up
  /\ IF stage[s] >= Primed
     THEN client' = "votes" /\ clientList' = ipList[s]
     ELSE client' = "ended" /\ clientList' = <<>>
  /\ UNCHANGED <<stage, ipList, unsent, at, entryVars, serverVars, overtaken>>

MayPost(b, s) == client = "votes" /\ s \in unsent[b] /\ at[b] \in {None, s}

AnsweredStays(b, s) ==
  /\ unsent' = [unsent EXCEPT ![b] = @ \ {s}]
  /\ at' = [at EXCEPT ![b] = s]

Answered(b, s) ==
  /\ unsent' = [unsent EXCEPT ![b] = @ \ {s}]
  /\ at' = [at EXCEPT ![b] = None]

Stays(b, s) == at' = [at EXCEPT ![b] = s] /\ UNCHANGED unsent

-----------------------------------------------------------------------------
(* receiveClientShare.                                                     *)

(* Nobody answers, or the handler waits for a lock that nobody releases.   *)
PostUnanswered(b, s) ==
  /\ MayPost(b, s)
  /\ at[b] = None
  /\ s \notin up \ idsHeld
  /\ Stays(b, s)
  /\ UNCHANGED <<entryVars, idsHeld, overtaken>>

PostBlocks(b, s) ==
  /\ MayPost(b, s)
  /\ s \in up \ idsHeld
  /\ b \in locked[s]
  /\ idsHeld' = idsHeld \cup {s}
  /\ Stays(b, s)
  /\ Meets(s)
  /\ UNCHANGED entryVars

PostRuns(b, s) ==
  /\ MayPost(b, s)
  /\ s \in up \ idsHeld
  /\ b \notin locked[s]
  /\ Meets(s)
  /\ UNCHANGED idsHeld

PostIgnoredKeepsLock(b, s) ==
  /\ PostRuns(b, s)
  /\ b \in delivered[s]
  /\ Answered(b, s)
  /\ locked' = [locked EXCEPT ![s] = @ \cup {b}]
  /\ UNCHANGED <<signatures, delivered, counted, outgoing>>

PostIgnored(b, s) ==
  /\ PostRuns(b, s)
  /\ b \in delivered[s]
  /\ Answered(b, s)
  /\ UNCHANGED <<entryVars, outgoing>>

PostSigned(b, s) ==
  /\ PostRuns(b, s)
  /\ b \notin delivered[s]
  /\ signatures' = [signatures EXCEPT ![s][b] =
                      @ \cup {[sender |-> ServerId(s), by |-> s]}]

Enough(s, b) == Cardinality(signatures'[s][b]) >= Needed

(* _CheckSignatures: delivered is set before the observer is called.       *)
CheckSignatures(s, b) ==
  IF Enough(s, b)
  THEN /\ stage[s] = Voting
       /\ delivered' = [delivered EXCEPT ![s] = @ \cup {b}]
       /\ counted' = [counted EXCEPT ![s] = @ \cup {b}]
  ELSE UNCHANGED <<delivered, counted>>

PostAccepted(b, s) ==
  /\ PostSigned(b, s)
  /\ Opens(s)
  /\ CheckSignatures(s, b)
  /\ outgoing' = [outgoing EXCEPT ![s] = @ \cup {b}]
  /\ Answered(b, s)
  /\ UNCHANGED locked

PostRejected(b, s) ==
  /\ PostSigned(b, s)
  /\ ~ Opens(s)
  /\ Answered(b, s)
  /\ UNCHANGED <<delivered, counted, locked, outgoing>>

(* decryptShare panics on another server's share, VerifyShare on no ss.    *)
(* net/http recovers, the entry's lock is lost, and the client, which got  *)
(* no answer, posts again.                                                 *)
PostPanics(b, s) ==
  /\ PostSigned(b, s)
  /\ ~ Opens(s)
  /\ locked' = [locked EXCEPT ![s] = @ \cup {b}]
  /\ Stays(b, s)
  /\ UNCHANGED <<delivered, counted, outgoing>>

(* The last signature, and no observer yet.                                *)
PostFindsNoObserver(b, s) ==
  /\ PostSigned(b, s)
  /\ Opens(s)
  /\ Enough(s, b)
  /\ stage[s] < Voting
  /\ delivered' = [delivered EXCEPT ![s] = @ \cup {b}]
  /\ locked' = [locked EXCEPT ![s] = @ \cup {b}]
  /\ Stays(b, s)
  /\ UNCHANGED <<counted, outgoing>>

Post(b, s) ==
  /\ UNCHANGED <<stage, ipList, client, clientList, up, msgs>>
  /\ \/ (PostUnanswered(b, s) \/ PostBlocks(b, s)) /\ UNCHANGED outgoing
     \/ PostIgnored(b, s)
     \/ PostAccepted(b, s)
     \/ PostPanics(b, s)
     \/ PostFindsNoObserver(b, s)

-----------------------------------------------------------------------------
(* Floods, and ReceiveServerShare.  As in VoteDelivery a message comes at  *)
(* any time, once, again or never; here it comes signature by signature,   *)
(* which is the same to lists that only grow.  What sendDelayedMessage     *)
(* floods on is under way already, and is left out.                        *)

Message(s, b) == [ballot : {b}, sig : signatures[s][b]]

FloodUnlessDelivered(s, b) ==
  /\ s \in up
  /\ b \in outgoing[s]
  /\ outgoing' = [outgoing EXCEPT ![s] = @ \ {b}]
  /\ msgs' = IF b \in delivered[s] THEN msgs ELSE msgs \cup Message(s, b)
  /\ UNCHANGED <<stage, ipList, clientVars, entryVars, idsHeld, up, overtaken>>

(* A goroutine floods the list as it is now.  What the end of a process    *)
(* does to those that dial it afterwards is left to VoteDelivery.          *)
Flood(s, b) ==
  /\ s \in up
  /\ b \in outgoing[s]
  /\ outgoing' = [outgoing EXCEPT ![s] = @ \ {b}]
  /\ msgs' = msgs \cup Message(s, b)
  /\ UNCHANGED <<stage, ipList, clientVars, entryVars, idsHeld, up, overtaken>>

Arrives(s, m) ==
  /\ s \in up
  /\ Meets(s)
  /\ UNCHANGED <<stage, ipList, clientVars, msgs>>

(* "can't find service", in an answer nobody reads. *)
CallUnknown(s, m) ==
  /\ Arrives(s, m)
  /\ stage[s] < Registered
  /\ UNCHANGED <<entryVars, idsHeld, up, outgoing>>

ShareRuns(s, m) == Arrives(s, m) /\ stage[s] >= Registered /\ s \notin idsHeld

ShareBlocks(s, m) ==
  /\ ShareRuns(s, m)
  /\ m.ballot \in locked[s]
  /\ idsHeld' = idsHeld \cup {s}
  /\ UNCHANGED <<entryVars, up, outgoing>>

ShareIgnored(s, m) ==
  /\ ShareRuns(s, m)
  /\ m.ballot \in delivered[s] /\ m.ballot \notin locked[s]
  /\ UNCHANGED <<entryVars, idsHeld, up, outgoing>>

(* Of a sender the list does not have, and signed with the key the server  *)
(* has at that index.                                                      *)
NewSignatures(s, m) ==
  {g \in {m.sig} : /\ ipList[s][g.sender] = g.by
                   /\ \A h \in signatures[s][m.ballot] : h.sender # g.sender}

(* Without an observer, or the own share, the goroutine of net/rpc panics. *)
ShareMerged(s, m) ==
  LET b   == m.ballot
  IN  /\ ShareRuns(s, m)
      /\ b \notin delivered[s] \cup locked[s]
      /\ signatures' = [signatures EXCEPT ![s][b] = @ \cup NewSignatures(s, m)]
      /\ \/ /\ CheckSignatures(s, b)
            /\ Enough(s, b) => Opens(s)
            /\ UNCHANGED up
         \/ /\ Enough(s, b) /\ ~ (Opens(s) /\ stage[s] = Voting)
            /\ up' = up \ {s}
            /\ UNCHANGED <<delivered, counted>>
      /\ UNCHANGED <<locked, idsHeld, outgoing>>

ReceiveServerShare(s, m) ==
  \/ CallUnknown(s, m)
  \/ ShareBlocks(s, m)
  \/ ShareIgnored(s, m)
  \/ ShareMerged(s, m)

Next ==
  \/ \E s \in Server : ReceiveStartPhaseTwoSignal(s) \/ StartNetwork(s)
  \/ \E s \in Server : GetClientInfo(s)
  \/ \E b \in Ballot, s \in Server : Post(b, s)
  \/ \E s \in Server, b \in Ballot : Flood(s, b)
  \/ \E s \in Server : \E m \in msgs : ReceiveServerShare(s, m)

Spec == Init /\ [][Next]_vars

(* As in VoteDelivery; here the client runs too, once it has asked, and    *)
(* what a server that is met too early is sent may be lost.  Every step    *)
(* changes something for good, so that fairness of all is that of each.    *)
Progress ==
  \/ \E s \in Server : ReceiveStartPhaseTwoSignal(s) \/ StartNetwork(s)
  \/ \E b \in Ballot, s \in Server : Post(b, s)
  \/ \E s \in Server, b \in Ballot : Flood(s, b)
  \/ \E s \in Server \ overtaken : \E m \in msgs : ReceiveServerShare(s, m)

LiveSpec == Spec /\ WF_vars(Progress)

-----------------------------------------------------------------------------
(* The client takes the list of one server, maybe before the others have   *)
(* sorted theirs: the share it encrypts for a place is for the server that *)
(* takes this place for its own.                                           *)
SharesReachTheirServers ==
  client = "votes" =>
    \A s \in Server : stage[s] >= Indexed => EncryptedFor(ServerId(s)) = s

(* Servers that signed a ballot under their own index.                     *)
Signers(b) ==
  {v \in Server : [sender |-> v, by |-> v] \in signatures[v][b]}

(* Behind a counted ballot stand n - t servers that signed it under their  *)
(* own index, although a server that has none yet signs as server 0.       *)
CountedWithQuorum ==
  \A s \in Server : \A b \in counted[s] : Cardinality(Signers(b)) >= Needed

(* No server is caught in a lock, or ends, unless a vote met it before it  *)
(* had an observer.                                                        *)
OnlyOvertakenGetStuck ==
  \A s \in Server : s \notin up \ idsHeld \/ locked[s] # {} => s \in overtaken

(* A vote that comes early harms only the servers it finds too early: once *)
(* n - t servers have signed it, in handlers that came to their end, every *)
(* other server counts it, unless a process ends.                          *)
CountedByTheRest ==
  \A b \in Ballot :
    Cardinality({v \in Signers(b) : b \notin locked[v]}) >= Needed
    ~> \/ up # Server
       \/ \A s \in Server \ overtaken : b \in counted[s]

(* `vote' comes to its end, or stays at a server that it or another vote   *)
(* met too early, or that has ended.                                       *)
PostsEnd ==
  \A b \in Ballot :
    client = "votes"
    ~> \/ unsent[b] = {} /\ at[b] = None
       \/ at[b] # None /\ at[b] \in overtaken \cup (Server \ up)
=============================================================================
