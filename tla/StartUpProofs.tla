---------------------------- MODULE StartUpProofs ---------------------------
(***************************************************************************)
(* What holds of votes that meet a starting server, for any number of      *)
(* servers, any of them late, whatever lists they joined with.             *)
(*                                                                         *)
(* What carries the proof is the order of the statements of StartNetwork:  *)
(* the list is sorted before the primes a client asks for are set, and     *)
(* serverId is set before the RPC methods are registered.  So a client     *)
(* votes with a sorted list, a message is merged under a sorted list, and  *)
(* the one wrong thing a server can do, sign as server 0, ends in a panic  *)
(* that keeps the entry locked, and the signature never leaves.            *)
(***************************************************************************)
EXTENDS StartUp, FiniteSetTheorems, TLAPS

Sig == [sender : Server, by : Server]

Typed ==
  /\ stage \in [Server -> Joined .. Voting]
  /\ ipList \in [Server -> [Server -> Server]]
  /\ signatures \in [Server -> [Ballot -> SUBSET Sig]]
  /\ delivered \in [Server -> SUBSET Ballot]
  /\ counted \in [Server -> SUBSET Ballot]
  /\ locked \in [Server -> SUBSET Ballot]
  /\ outgoing \in [Server -> SUBSET Ballot]
  /\ idsHeld \subseteq Server /\ up \subseteq Server /\ overtaken \subseteq Server
  /\ msgs \subseteq [ballot : Ballot, sig : Sig]
  /\ client \in {"asks", "votes", "ended"}

(* A list is sorted before anything else of StartNetwork is done. *)
ListsInOrder == \A s \in Server : stage[s] >= Sorted => ipList[s] = InOrder

(* The client votes with such a list, and nothing goes round before. *)
VotesInOrder ==
  IF client = "votes"
  THEN clientList = InOrder
  ELSE msgs = {} /\ outgoing = [s \in Server |-> {}]

(* A signature that is anywhere is in the list of the server that made it. *)
Authentic ==
  /\ \A s \in Server, b \in Ballot :
       \A g \in signatures[s][b] : g \in signatures[g.by][b]
  /\ \A m \in msgs : m.sig \in signatures[m.sig.by][m.ballot]

(* A signature under another server's index stays behind a lost lock. *)
OwnIndexes ==
  \A s \in Server, b \in Ballot :
    b \notin locked[s] => \A g \in signatures[s][b] : g.sender = g.by

StartUpInv ==
  /\ Typed
  /\ ListsInOrder
  /\ VotesInOrder
  /\ Authentic
  /\ OwnIndexes
  /\ CountedWithQuorum
  /\ OnlyOvertakenGetStuck

-----------------------------------------------------------------------------
(* The operators.                                                          *)

LEMMA Stages ==
  /\ Joined = 0 /\ Sorted = 1 /\ Primed = 2 /\ Sharing = 3
  /\ Indexed = 4 /\ Registered = 5 /\ Voting = 6
BY DEF Joined, Sorted, Primed, Sharing, Indexed, Registered, Voting

LEMMA ServersFinite ==
  /\ IsFiniteSet(Server)
  /\ 0 \in Server
  /\ Needed \in Int
<1>1. Parties \in Nat /\ Parties >= 3
  BY StartUpAssumption DEF MinParties
<1>2. IsFiniteSet(Server)
  BY <1>1, FS_Interval DEF Server
<1>3. Needed \in Int
  BY <1>1 DEF Needed, SignaturesNeeded, CalculateT
<1> QED
  BY <1>1, <1>2, <1>3 DEF Server

(* A server whose list is sorted finds itself at its own place. *)
LEMMA OwnPlace ==
  ASSUME Typed, ListsInOrder, NEW s \in Server
  PROVE  /\ ServerId(s) \in Server
         /\ stage[s] >= Indexed => ServerId(s) = s
<1>t. stage[s] \in 0 .. 6
  BY Stages DEF Typed
<1>1. CASE stage[s] < Indexed
  BY <1>1, <1>t, Stages, ServersFinite DEF ServerId
<1>2. CASE ~ (stage[s] < Indexed)
  <2>1. ipList[s] = InOrder
    BY <1>2, <1>t, Stages DEF ListsInOrder
  <2>2. \A i \in Server : ipList[s][i] = s <=> i = s
    BY <2>1 DEF InOrder
  <2>3. (CHOOSE i \in Server : ipList[s][i] = s) = s
    BY <2>2
  <2> QED
    BY <1>2, <2>3 DEF ServerId
<1> QED
  BY <1>1, <1>2

(* Whoever can open a share signs under its own index, and whoever cannot  *)
(* has no index yet.                                                       *)
LEMMA OpensAtOwnPlace ==
  ASSUME Typed, ListsInOrder, VotesInOrder, client = "votes", NEW s \in Server
  PROVE  /\ EncryptedFor(ServerId(s)) = ServerId(s)
         /\ Opens(s) => ServerId(s) = s
         /\ ~ Opens(s) => stage[s] < Indexed
<1>t. stage[s] \in 0 .. 6
  BY Stages DEF Typed
<1>1. EncryptedFor(ServerId(s)) = ServerId(s)
  BY OwnPlace DEF EncryptedFor, VotesInOrder, InOrder
<1> QED
  BY <1>1, <1>t, OwnPlace, Stages DEF Opens

(* No two signatures under the signer's own index are of one server. *)
LEMMA OneSignatureEach ==
  ASSUME NEW S \in SUBSET Sig, NEW Q \in SUBSET Server,
         \A g \in S : g.sender = g.by /\ g.by \in Q
  PROVE  /\ Cardinality(S) <= Cardinality(Q)
         /\ Cardinality(S) \in Nat /\ Cardinality(Q) \in Nat
<1> DEFINE f == [g \in S |-> g.by]
<1>1. IsFiniteSet(Q)
  BY ServersFinite, FS_Subset
<1>2. \A g \in S : g = [sender |-> g.by, by |-> g.by]
  BY DEF Sig
<1>3. f \in Injection(S, Q)
  <2>1. f \in [S -> Q]
    OBVIOUS
  <2>2. \A g, h \in S : f[g] = f[h] => g = h
    BY <1>2
  <2> QED
    BY <2>1, <2>2, Zenon DEF Injection, IsInjective
<1> HIDE DEF f
<1>4. IsFiniteSet(S) /\ Cardinality(S) <= Cardinality(Q)
  BY <1>1, <1>3, FS_Injection
<1> QED
  BY <1>1, <1>4, FS_CardinalityType

-----------------------------------------------------------------------------
(* What is common to the steps.                                            *)

(* Signatures are added to one list: the server's own, or ones that their  *)
(* servers made.                                                           *)
Adds(s, b, new) ==
  /\ signatures' = [signatures EXCEPT ![s][b] = @ \cup new]
  /\ \A g \in new : g \in Sig /\ (g.by = s \/ g \in signatures[g.by][b])
  /\ msgs' = msgs

LEMMA AddedSignatures ==
  ASSUME Typed, Authentic, NEW s \in Server, NEW b \in Ballot, NEW new,
         Adds(s, b, new)
  PROVE  /\ signatures' \in [Server -> [Ballot -> SUBSET Sig]]
         /\ Authentic'
         /\ \A r \in Server, c \in Ballot :
              /\ signatures[r][c] \subseteq signatures'[r][c]
              /\ r # s \/ c # b => signatures'[r][c] = signatures[r][c]
         /\ signatures'[s][b] = signatures[s][b] \cup new
<1>t. /\ signatures \in [Server -> [Ballot -> SUBSET Sig]]
      /\ msgs \subseteq [ballot : Ballot, sig : Sig]
  BY DEF Typed
<1>1. signatures' \in [Server -> [Ballot -> SUBSET Sig]]
  BY <1>t DEF Adds
<1>2. \A r \in Server, c \in Ballot :
        signatures'[r][c] = IF r = s /\ c = b THEN signatures[s][b] \cup new
                                              ELSE signatures[r][c]
  BY <1>t DEF Adds
<1>3. \A r \in Server, c \in Ballot : \A g \in signatures'[r][c] :
        g \in Sig /\ g.by \in Server
  BY <1>1 DEF Sig
<1>4. \A r \in Server, c \in Ballot : \A g \in signatures'[r][c] :
        g \in signatures'[g.by][c]
  BY <1>2, <1>3 DEF Adds, Authentic
<1>5. \A m \in msgs : m.sig \in signatures'[m.sig.by][m.ballot]
  <2> SUFFICES ASSUME NEW m \in msgs
               PROVE  m.sig \in signatures'[m.sig.by][m.ballot]
    OBVIOUS
  <2>1. m.ballot \in Ballot /\ m.sig.by \in Server
    BY <1>t DEF Sig
  <2> QED
    BY <1>2, <2>1 DEF Authentic
<1> QED
  BY <1>1, <1>2, <1>4, <1>5 DEF Authentic, Adds

(* A share counted now, or none. *)
LEMMA CountedStays ==
  ASSUME Typed, CountedWithQuorum, NEW s \in Server, NEW b \in Ballot,
         \A r \in Server, c \in Ballot :
           signatures[r][c] \subseteq signatures'[r][c],
         \/ UNCHANGED counted
         \/ /\ counted' = [counted EXCEPT ![s] = @ \cup {b}]
            /\ Cardinality(Signers(b)') >= Needed
  PROVE  CountedWithQuorum'
<1> SUFFICES ASSUME NEW r \in Server, NEW c \in counted'[r]
             PROVE  Cardinality(Signers(c)') >= Needed
  BY DEF CountedWithQuorum
<1>t. counted \in [Server -> SUBSET Ballot]
  BY DEF Typed
<1>1. CASE c \in counted[r]
  <2>1. c \in Ballot
    BY <1>1, <1>t
  <2>2. Cardinality(Signers(c)) >= Needed
    BY <1>1 DEF CountedWithQuorum
  <2>3. Signers(c) \subseteq Signers(c)'
    BY <2>1 DEF Signers
  <2>4. Signers(c)' \subseteq Server
    BY DEF Signers
  <2>5. IsFiniteSet(Signers(c)) /\ IsFiniteSet(Signers(c)')
    BY <2>3, <2>4, ServersFinite, FS_Subset
  <2>6. /\ Cardinality(Signers(c)) <= Cardinality(Signers(c)')
        /\ Cardinality(Signers(c)) \in Nat /\ Cardinality(Signers(c)') \in Nat
    BY <2>3, <2>5, FS_Subset, FS_CardinalityType
  <2> QED
    BY <2>2, <2>6, ServersFinite
<1>2. CASE c \notin counted[r]
  BY <1>2, <1>t
<1> QED
  BY <1>1, <1>2

(* The servers behind a full list of own-index signatures. *)
LEMMA EnoughSigned ==
  ASSUME Authentic', signatures' \in [Server -> [Ballot -> SUBSET Sig]],
         NEW s \in Server, NEW b \in Ballot, Enough(s, b),
         \A g \in signatures'[s][b] : g.sender = g.by
  PROVE  Cardinality(Signers(b)') >= Needed
<1> DEFINE S == signatures'[s][b]
<1>1. S \in SUBSET Sig
  OBVIOUS
<1>2. \A g \in S : g.by \in Server /\ g = [sender |-> g.by, by |-> g.by]
  BY <1>1 DEF Sig
<1>3. \A g \in S : g.sender = g.by /\ g.by \in Signers(b)'
  BY <1>2 DEF Authentic, Signers
<1>4. Signers(b)' \in SUBSET Server
  BY DEF Signers
<1>5. /\ Cardinality(S) <= Cardinality(Signers(b)')
      /\ Cardinality(S) \in Nat /\ Cardinality(Signers(b)') \in Nat
  <2> HIDE DEF S
  <2> QED
    BY <1>1, <1>3, <1>4, OneSignatureEach
<1>6. Cardinality(S) >= Needed
  BY DEF Enough
<1> QED
  BY <1>5, <1>6, ServersFinite
-----------------------------------------------------------------------------
(* The steps that leave the entries alone.                                 *)

entries == <<entryVars, idsHeld, up, overtaken>>

LEMMA EntriesKept ==
  ASSUME StartUpInv, UNCHANGED entries
  PROVE  /\ OwnIndexes'
         /\ CountedWithQuorum'
         /\ OnlyOvertakenGetStuck'
         /\ UNCHANGED msgs => Authentic'
BY DEF StartUpInv, entries, entryVars, OwnIndexes, CountedWithQuorum, Signers,
       OnlyOvertakenGetStuck, Authentic

LEMMA SignalStep ==
  ASSUME StartUpInv, NEW s \in Server,
         ReceiveStartPhaseTwoSignal(s) \/ StartNetwork(s)
  PROVE  StartUpInv'
<1>t. /\ stage \in [Server -> 0 .. 6]
      /\ ipList \in [Server -> [Server -> Server]]
      /\ InOrder \in [Server -> Server]
  BY Stages DEF StartUpInv, Typed, InOrder
<1>1. UNCHANGED <<client, clientList, entryVars, idsHeld, up, outgoing, msgs,
                  overtaken>>
  BY DEF ReceiveStartPhaseTwoSignal, StartNetwork, clientVars, serverVars
<1>2. \/ /\ stage[s] = 0
         /\ stage' = [stage EXCEPT ![s] = 1]
         /\ ipList' = [ipList EXCEPT ![s] = InOrder]
      \/ /\ stage[s] \in 1 .. 5
         /\ stage' = [stage EXCEPT ![s] = @ + 1]
         /\ ipList' = ipList
  BY Stages DEF ReceiveStartPhaseTwoSignal, StartNetwork
<1>3. stage' \in [Server -> 0 .. 6] /\ ipList' \in [Server -> [Server -> Server]]
  <2>1. stage' \in [Server -> 0 .. 6]
    <3>1. stage[s] \in 1 .. 5 => stage[s] + 1 \in 0 .. 6
      OBVIOUS
    <3>2. \E k \in 0 .. 6 : stage' = [stage EXCEPT ![s] = k]
      BY <1>2, <3>1
    <3> QED
      BY <1>t, <3>2
  <2>2. ipList' \in [Server -> [Server -> Server]]
    BY <1>2, <1>t
  <2> QED
    BY <2>1, <2>2
<1>4. Typed'
  BY <1>1, <1>3, Stages DEF StartUpInv, Typed, entryVars
<1>5. ListsInOrder'
  BY <1>2, <1>t, Stages DEF StartUpInv, ListsInOrder
<1>6. VotesInOrder'
  BY <1>1 DEF StartUpInv, VotesInOrder
<1> QED
  BY <1>1, <1>4, <1>5, <1>6, EntriesKept DEF StartUpInv, entries

LEMMA GetClientInfoStep ==
  ASSUME StartUpInv, NEW s \in Server, GetClientInfo(s)
  PROVE  StartUpInv'
<1>1. /\ UNCHANGED <<stage, ipList, entryVars, idsHeld, up, outgoing, msgs,
                     overtaken>>
      /\ client = "asks"
  BY DEF GetClientInfo, serverVars
<1>2. Typed'
  BY <1>1 DEF GetClientInfo, StartUpInv, Typed, entryVars
<1>3. ListsInOrder'
  BY <1>1 DEF StartUpInv, ListsInOrder
<1>4. VotesInOrder'
  <2>t. stage[s] \in 0 .. 6
    BY Stages DEF StartUpInv, Typed
  <2>1. msgs = {} /\ outgoing = [r \in Server |-> {}]
    BY <1>1 DEF StartUpInv, VotesInOrder
  <2>2. CASE stage[s] >= Primed
    <3>1. client' = "votes" /\ clientList' = InOrder
      BY <2>t, <2>2, Stages DEF GetClientInfo, StartUpInv, ListsInOrder
    <3> QED
      BY <3>1 DEF VotesInOrder, InOrder
  <2>3. CASE ~ (stage[s] >= Primed)
    BY <1>1, <2>1, <2>3 DEF GetClientInfo, VotesInOrder
  <2> QED
    BY <2>2, <2>3
<1> QED
  BY <1>1, <1>2, <1>3, <1>4, EntriesKept DEF StartUpInv, entries

LEMMA FloodStep ==
  ASSUME StartUpInv, NEW s \in Server, NEW b \in Ballot, Flood(s, b)
  PROVE  StartUpInv'
<1>t. /\ signatures \in [Server -> [Ballot -> SUBSET Sig]]
      /\ outgoing \in [Server -> SUBSET Ballot]
      /\ msgs \subseteq [ballot : Ballot, sig : Sig]
  BY DEF StartUpInv, Typed
<1>1. /\ UNCHANGED <<stage, ipList, client, clientList, entryVars, idsHeld, up,
                     overtaken>>
      /\ b \in outgoing[s]
      /\ outgoing' = [outgoing EXCEPT ![s] = @ \ {b}]
      /\ msgs' = msgs \cup [ballot : {b}, sig : signatures[s][b]]
  BY DEF Flood, clientVars, Message
<1>2. Typed'
  <2>1. msgs' \subseteq [ballot : Ballot, sig : Sig]
    BY <1>1, <1>t
  <2>2. outgoing' \in [Server -> SUBSET Ballot]
    BY <1>1, <1>t
  <2> QED
    BY <1>1, <2>1, <2>2 DEF StartUpInv, Typed, entryVars
<1>3. ListsInOrder'
  BY <1>1 DEF StartUpInv, ListsInOrder
<1>4. client = "votes"
  BY <1>1 DEF StartUpInv, VotesInOrder
<1>5. VotesInOrder'
  BY <1>1, <1>4 DEF StartUpInv, VotesInOrder
<1>6. Authentic'
  <2>1. signatures' = signatures
    BY <1>1 DEF entryVars
  <2>2. \A m \in msgs' : m.sig \in signatures[m.sig.by][m.ballot]
    BY <1>1 DEF StartUpInv, Authentic
  <2> QED
    BY <2>1, <2>2 DEF StartUpInv, Authentic
<1> QED
  BY <1>1, <1>2, <1>3, <1>5, <1>6, EntriesKept DEF StartUpInv, entries
-----------------------------------------------------------------------------
(* The handlers.                                                           *)

(* A handler that gets no further than the locks. *)
Waits(s) ==
  /\ UNCHANGED <<stage, ipList, client, clientList, entryVars, up, outgoing,
                 msgs>>
  /\ overtaken' \in {overtaken, overtaken \cup {s}}
  /\ \/ UNCHANGED idsHeld
     \/ locked[s] # {} /\ idsHeld' = idsHeld \cup {s}

LEMMA WaitingStep ==
  ASSUME StartUpInv, NEW s \in Server, Waits(s)
  PROVE  StartUpInv'
<1>1. Typed'
  BY DEF Waits, StartUpInv, Typed, entryVars
<1>2. ListsInOrder' /\ VotesInOrder'
  BY DEF Waits, StartUpInv, ListsInOrder, VotesInOrder
<1>3. Authentic' /\ OwnIndexes' /\ CountedWithQuorum'
  BY DEF Waits, StartUpInv, Authentic, OwnIndexes, CountedWithQuorum, Signers,
         entryVars
<1>4. OnlyOvertakenGetStuck'
  BY DEF Waits, StartUpInv, OnlyOvertakenGetStuck, entryVars
<1> QED
  BY <1>1, <1>2, <1>3, <1>4 DEF StartUpInv

(* A handler that works on the entry of b at s: it may end in a panic, and *)
(* lose the lock or the process, but not at a server that has an observer. *)
Works(s, b, new) ==
  /\ client = "votes"
  /\ UNCHANGED <<stage, ipList, client, clientList, idsHeld>>
  /\ Adds(s, b, new)
  /\ b \notin locked'[s] => \A g \in new : g.sender = g.by
  /\ delivered' \in {delivered, [delivered EXCEPT ![s] = @ \cup {b}]}
  /\ \/ UNCHANGED counted
     \/ /\ counted' = [counted EXCEPT ![s] = @ \cup {b}]
        /\ Enough(s, b) /\ b \notin locked'[s]
  /\ outgoing' \in {outgoing, [outgoing EXCEPT ![s] = @ \cup {b}]}
  /\ locked' \in {locked, [locked EXCEPT ![s] = @ \cup {b}]}
  /\ up' \in {up, up \ {s}}
  /\ Meets(s)
  /\ stage[s] = Voting => UNCHANGED <<locked, up>>

LEMMA WorkingStep ==
  ASSUME StartUpInv, NEW s \in Server, NEW b \in Ballot, NEW new,
         Works(s, b, new)
  PROVE  StartUpInv'
<1>t. /\ stage \in [Server -> 0 .. 6]
      /\ delivered \in [Server -> SUBSET Ballot]
      /\ counted \in [Server -> SUBSET Ballot]
      /\ locked \in [Server -> SUBSET Ballot]
      /\ outgoing \in [Server -> SUBSET Ballot]
  BY Stages DEF StartUpInv, Typed
<1>1. /\ signatures' \in [Server -> [Ballot -> SUBSET Sig]]
      /\ Authentic'
      /\ \A r \in Server, c \in Ballot :
           /\ signatures[r][c] \subseteq signatures'[r][c]
           /\ r # s \/ c # b => signatures'[r][c] = signatures[r][c]
      /\ signatures'[s][b] = signatures[s][b] \cup new
  BY AddedSignatures DEF StartUpInv, Works
<1>2. Typed'
  <2>1. /\ delivered' \in [Server -> SUBSET Ballot]
        /\ counted' \in [Server -> SUBSET Ballot]
        /\ locked' \in [Server -> SUBSET Ballot]
        /\ outgoing' \in [Server -> SUBSET Ballot]
    BY <1>t DEF Works
  <2>2. up' \subseteq Server /\ overtaken' \subseteq Server
    BY DEF Works, Meets, StartUpInv, Typed
  <2> QED
    BY <1>1, <2>1, <2>2 DEF Works, Adds, StartUpInv, Typed
<1>3. ListsInOrder' /\ VotesInOrder'
  BY DEF Works, StartUpInv, ListsInOrder, VotesInOrder
<1>4. \A r \in Server :
        /\ locked[r] \subseteq locked'[r]
        /\ r # s => locked'[r] = locked[r]
        /\ locked'[r] \subseteq locked[r] \cup {b}
  BY <1>t DEF Works
<1>5. OwnIndexes'
  <2> SUFFICES ASSUME NEW r \in Server, NEW c \in Ballot, c \notin locked'[r],
                      NEW g \in signatures'[r][c]
               PROVE  g.sender = g.by
    BY DEF OwnIndexes
  <2>1. c \notin locked[r]
    BY <1>4
  <2>2. CASE g \in signatures[r][c]
    BY <2>1, <2>2 DEF StartUpInv, OwnIndexes
  <2>3. CASE g \notin signatures[r][c]
    <3>1. r = s /\ c = b /\ g \in new
      BY <1>1, <2>3
    <3> QED
      BY <3>1 DEF Works
  <2> QED
    BY <2>2, <2>3
<1>6. CountedWithQuorum'
  <2>1. Enough(s, b) /\ b \notin locked'[s] => Cardinality(Signers(b)') >= Needed
    <3> SUFFICES ASSUME Enough(s, b), b \notin locked'[s]
                 PROVE  Cardinality(Signers(b)') >= Needed
      OBVIOUS
    <3>1. \A g \in signatures'[s][b] : g.sender = g.by
      BY <1>5 DEF OwnIndexes
    <3> QED
      BY <1>1, <3>1, EnoughSigned
  <2> QED
    BY <1>1, <2>1, CountedStays DEF Works, StartUpInv
<1>7. OnlyOvertakenGetStuck'
  <2>1. overtaken \subseteq overtaken'
    BY DEF Works, Meets
  <2>2. stage[s] # Voting => s \in overtaken'
    BY <1>t, Stages DEF Works, Meets
  <2>3. \A r \in Server :
          s # r \/ stage[s] = Voting
          => (r \in up' <=> r \in up) /\ locked'[r] = locked[r]
    BY <1>4 DEF Works
  <2> SUFFICES ASSUME NEW r \in Server, r \notin up' \ idsHeld' \/ locked'[r] # {}
               PROVE  r \in overtaken'
    BY DEF OnlyOvertakenGetStuck
  <2>4. CASE r = s /\ stage[s] # Voting
    BY <2>2, <2>4
  <2>5. CASE ~ (r = s /\ stage[s] # Voting)
    <3>1. r \notin up \ idsHeld \/ locked[r] # {}
      BY <2>3, <2>5 DEF Works
    <3> QED
      BY <2>1, <3>1 DEF StartUpInv, OnlyOvertakenGetStuck
  <2> QED
    BY <2>4, <2>5
<1> QED
  BY <1>1, <1>2, <1>3, <1>5, <1>6, <1>7 DEF StartUpInv

LEMMA CheckSignaturesWorks ==
  ASSUME Typed, NEW s \in Server, NEW b \in Ballot, CheckSignatures(s, b)
  PROVE  /\ delivered' \in {delivered, [delivered EXCEPT ![s] = @ \cup {b}]}
         /\ \/ UNCHANGED counted
            \/ /\ counted' = [counted EXCEPT ![s] = @ \cup {b}]
               /\ Enough(s, b)
BY DEF CheckSignatures

LEMMA PostStep ==
  ASSUME StartUpInv, NEW b \in Ballot, NEW s \in Server, Post(b, s)
  PROVE  StartUpInv'
<1> DEFINE new == {[sender |-> ServerId(s), by |-> s]}
<1>t. /\ locked \in [Server -> SUBSET Ballot]
      /\ stage \in [Server -> 0 .. 6]
      /\ Typed /\ ListsInOrder /\ VotesInOrder
  BY Stages DEF StartUpInv, Typed
<1>p. UNCHANGED <<stage, ipList, client, clientList, up, msgs>>
  BY DEF Post
<1>1. CASE PostUnanswered(b, s) /\ UNCHANGED outgoing
  BY <1>p, <1>1, WaitingStep DEF PostUnanswered, Waits
<1>2. CASE PostBlocks(b, s) /\ UNCHANGED outgoing
  <2>1. Waits(s)
    BY <1>p, <1>2 DEF PostBlocks, Waits, Meets
  <2> QED
    BY <2>1, WaitingStep
<1>3. CASE PostIgnored(b, s)
  <2>1. Waits(s)
    BY <1>p, <1>3 DEF PostIgnored, PostRuns, Waits, Meets
  <2> QED
    BY <2>1, WaitingStep
<1>4. ASSUME PostSigned(b, s)
      PROVE  /\ client = "votes" /\ UNCHANGED idsHeld /\ Meets(s)
             /\ b \notin locked[s]
             /\ Adds(s, b, new)
             /\ Opens(s) => ServerId(s) = s
             /\ ~ Opens(s) => stage[s] < Indexed
  <2>1. client = "votes" /\ UNCHANGED idsHeld /\ Meets(s) /\ b \notin locked[s]
    BY <1>4 DEF PostSigned, PostRuns, MayPost
  <2>2. ServerId(s) \in Server
    BY <1>t, OwnPlace
  <2>3. \A g \in new : g \in Sig /\ g.by = s
    BY <2>2 DEF Sig
  <2>4. Adds(s, b, new)
    BY <1>4, <1>p, <2>3 DEF PostSigned, Adds
  <2> QED
    BY <1>t, <2>1, <2>4, OpensAtOwnPlace
<1>5. CASE PostAccepted(b, s)
  <2>1. PostSigned(b, s) /\ Opens(s)
    BY <1>5 DEF PostAccepted
  <2>2. \A g \in new : g.sender = g.by
    BY <1>4, <2>1
  <2>3. Works(s, b, new)
    BY <1>t, <1>p, <1>4, <1>5, <2>1, <2>2, CheckSignaturesWorks
    DEF PostAccepted, Works
  <2> QED
    BY <2>3, WorkingStep
<1>6. CASE PostPanics(b, s)
  <2>1. PostSigned(b, s) /\ ~ Opens(s)
    BY <1>6 DEF PostPanics
  <2>2. stage[s] # Voting
    BY <1>t, <1>4, <2>1, Stages
  <2>3. b \in locked'[s]
    BY <1>t, <1>6 DEF PostPanics
  <2>4. Works(s, b, new)
    BY <1>p, <1>4, <1>6, <2>1, <2>2, <2>3 DEF PostPanics, Works
  <2> QED
    BY <2>4, WorkingStep
<1>7. CASE PostFindsNoObserver(b, s)
  <2>1. PostSigned(b, s)
    BY <1>7 DEF PostFindsNoObserver
  <2>2. stage[s] # Voting
    BY <1>7, <1>t, Stages DEF PostFindsNoObserver
  <2>3. b \in locked'[s]
    BY <1>t, <1>7 DEF PostFindsNoObserver
  <2>4. Works(s, b, new)
    BY <1>p, <1>4, <1>7, <2>1, <2>2, <2>3 DEF PostFindsNoObserver, Works
  <2> QED
    BY <2>4, WorkingStep
<1> QED
  BY <1>1, <1>2, <1>3, <1>5, <1>6, <1>7 DEF Post

LEMMA ReceiveServerShareStep ==
  ASSUME StartUpInv, NEW s \in Server, NEW m \in msgs, ReceiveServerShare(s, m)
  PROVE  StartUpInv'
<1> DEFINE b   == m.ballot
           new == NewSignatures(s, m)
<1>t. /\ stage \in [Server -> 0 .. 6]
      /\ m \in [ballot : Ballot, sig : Sig]
      /\ b \in Ballot /\ m.sig \in Sig
      /\ client = "votes"
      /\ Typed /\ ListsInOrder /\ VotesInOrder
  BY Stages DEF StartUpInv, Typed, VotesInOrder
<1>1. CASE CallUnknown(s, m) \/ ShareBlocks(s, m) \/ ShareIgnored(s, m)
  <2>1. Waits(s)
    BY <1>1 DEF CallUnknown, ShareBlocks, ShareIgnored, ShareRuns, Arrives,
                clientVars, Meets, Waits
  <2> QED
    BY <2>1, WaitingStep
<1>2. CASE ShareMerged(s, m)
  <2>1. /\ Meets(s) /\ stage[s] >= Registered
        /\ UNCHANGED <<stage, ipList, client, clientList, msgs, locked, idsHeld,
                       outgoing>>
        /\ b \notin locked[s]
    BY <1>2 DEF ShareMerged, ShareRuns, Arrives, clientVars
  <2>2. ipList[s] = InOrder /\ Opens(s)
    BY <1>t, <2>1, Stages, OpensAtOwnPlace DEF ListsInOrder
  <2>3. \A g \in new : /\ g = m.sig /\ g \in Sig
                       /\ g.sender = g.by
                       /\ g \in signatures[g.by][b]
    BY <1>t, <2>2 DEF NewSignatures, InOrder, Sig, StartUpInv, Authentic
  <2>4. Adds(s, b, new)
    BY <1>2, <2>1, <2>3 DEF ShareMerged, Adds
  <2>5. \/ CheckSignatures(s, b) /\ UNCHANGED up
        \/ /\ stage[s] # Voting
           /\ up' = up \ {s}
           /\ UNCHANGED <<delivered, counted>>
    BY <1>2, <2>2 DEF ShareMerged
  <2>6. Works(s, b, new)
    BY <1>t, <2>1, <2>3, <2>4, <2>5, CheckSignaturesWorks DEF Works
  <2> QED
    BY <1>t, <2>6, WorkingStep
<1> QED
  BY <1>1, <1>2 DEF ReceiveServerShare
-----------------------------------------------------------------------------
(* The invariant and what follows from it.                                 *)

LEMMA StartUpInvInit == Init => StartUpInv
<1> SUFFICES ASSUME Init PROVE StartUpInv
  OBVIOUS
<1>1. Typed
  <2>1. stage \in [Server -> 0 .. 6] /\ ipList \in [Server -> [Server -> Server]]
    BY Stages, StartUpAssumption DEF Init, InOrder
  <2>2. signatures \in [Server -> [Ballot -> SUBSET Sig]]
    BY DEF Init
  <2> QED
    BY <2>1, <2>2, Stages DEF Init, Typed
<1>2. ListsInOrder
  BY Stages DEF Init, ListsInOrder
<1>3. VotesInOrder /\ Authentic /\ OwnIndexes
  BY DEF Init, VotesInOrder, Authentic, OwnIndexes
<1>4. CountedWithQuorum /\ OnlyOvertakenGetStuck
  BY DEF Init, CountedWithQuorum, OnlyOvertakenGetStuck
<1> QED
  BY <1>1, <1>2, <1>3, <1>4 DEF StartUpInv

LEMMA StartUpInvNext == StartUpInv /\ [Next]_vars => StartUpInv'
<1> SUFFICES ASSUME StartUpInv, [Next]_vars PROVE StartUpInv'
  OBVIOUS
<1>1. CASE \E s \in Server : ReceiveStartPhaseTwoSignal(s) \/ StartNetwork(s)
  BY <1>1, SignalStep
<1>2. CASE \E s \in Server : GetClientInfo(s)
  BY <1>2, GetClientInfoStep
<1>3. CASE \E b \in Ballot, s \in Server : Post(b, s)
  BY <1>3, PostStep
<1>4. CASE \E s \in Server, b \in Ballot : Flood(s, b)
  BY <1>4, FloodStep
<1>5. CASE \E s \in Server : \E m \in msgs : ReceiveServerShare(s, m)
  BY <1>5, ReceiveServerShareStep
<1>6. CASE UNCHANGED vars
  <2>1. UNCHANGED <<stage, ipList, client, clientList, outgoing, msgs, entries>>
    BY <1>6 DEF vars, clientVars, entryVars, serverVars, entries
  <2>2. Typed' /\ ListsInOrder' /\ VotesInOrder'
    BY <2>1
    DEF StartUpInv, Typed, ListsInOrder, VotesInOrder, entries, entryVars
  <2> QED
    BY <2>1, <2>2, EntriesKept DEF StartUpInv
<1> QED
  BY <1>1, <1>2, <1>3, <1>4, <1>5, <1>6 DEF Next

LEMMA StartUpInvAlways == Spec => []StartUpInv
BY StartUpInvInit, StartUpInvNext, PTL DEF Spec

(* Whatever list the client got, and however far each server is, a server  *)
(* that has its index finds at that place a share it can open.             *)
THEOREM SharesFindServers == Spec => []SharesReachTheirServers
<1>1. StartUpInv => SharesReachTheirServers
  <2> SUFFICES ASSUME StartUpInv, client = "votes",
                      NEW s \in Server, stage[s] >= Indexed
               PROVE  EncryptedFor(ServerId(s)) = s
    BY DEF SharesReachTheirServers
  <2> QED
    BY OwnPlace, OpensAtOwnPlace DEF StartUpInv
<1> QED
  BY <1>1, StartUpInvAlways, PTL

(* Behind every ballot whose share a tally got stand n - t servers that    *)
(* signed it under their own index, although servers that start sign as    *)
(* server 0.                                                               *)
THEOREM EarlySignaturesHarmless == Spec => []CountedWithQuorum
<1>1. StartUpInv => CountedWithQuorum
  BY DEF StartUpInv
<1> QED
  BY <1>1, StartUpInvAlways, PTL

(* A server that loses a lock, waits for one or ends was met by a vote     *)
(* before it had its observer.                                             *)
THEOREM StuckOnlyIfOvertaken == Spec => []OnlyOvertakenGetStuck
<1>1. StartUpInv => OnlyOvertakenGetStuck
  BY DEF StartUpInv
<1> QED
  BY <1>1, StartUpInvAlways, PTL
=============================================================================
