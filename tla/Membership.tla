----------------------------- MODULE Membership -----------------------------
(***************************************************************************)
(* How the servers find each other and enter phase two: StartNetwork and   *)
(* the handlers joinNetwork, newParticipantInNetwork and                   *)
(* receiveStartPhaseTwoSignal of server/src/NetworkHTTPSImpl.go.           *)
(*                                                                         *)
(* One operator creates the network at Master, others start servers that   *)
(* join through it.  Every server keeps a list of addresses, ipList.  When *)
(* the operator of Master continues to phase two, Master sorts its list    *)
(* and sends the i-th server the i-th share of the start secret; from then *)
(* on every server uses its own list for its index and its threshold.      *)
(* joinNetwork answers for as long as Master runs: a server may join after *)
(* the signals as well.  It gets on everyone's list and waits for a signal *)
(* that never comes, since Master sends them once.                         *)
(*                                                                         *)
(* Grain.  Handlers run concurrently and take no lock.  A look at ipList,  *)
(* an append to it and the loop over it that starts the posts are steps of *)
(* their own.  An append reads the slice and writes a longer one: what it  *)
(* writes extends the list as it is, or as it was when the handler looked. *)
(*                                                                         *)
(* Addresses are integers, in the order sortIpStruct puts them into.       *)
(* Nobody stops in this phase, and HTTP over TCP loses nothing.  TLS and   *)
(* the keys are left out.                                                  *)
(***************************************************************************)
EXTENDS Thresholds, Sequences, SequencesExt, FiniteSets, Bags

CONSTANTS
  Server,     \* the addresses of all servers
  Master,     \* the one that creates the network
  Patient     \* TRUE: an operator starts a server, and continues to phase
              \* two, only when nobody is joining and nobody starting, but
              \* also after phase two has begun; FALSE: at any time

ASSUME MembershipAssumption ==
  /\ Server \subseteq Int
  /\ Master \in Server
  /\ Patient \in BOOLEAN

VARIABLES
  phase,      \* where StartNetwork of a server is
  ipList,     \* the addresses a server knows, in order
  replies,    \* answers of joinNetwork under way, <<joiner, list>>
  appending,  \* handlers about to append, <<server, address, list they saw>>
  flooding,   \* about to loop over ipList, <<server, address>>
  posts,      \* newParticipant requests under way, <<receiver, address>>
  signals,    \* phase-two requests under way, <<receiver, point of the share>>
  waiting,    \* phase-two handlers that block in the send to stateWait
  index,      \* serverId
  point,      \* the point of the start share
  threshold   \* n.t

vars == <<phase, ipList, replies, appending, flooding, posts, signals, waiting,
          index, point, threshold>>

joinVars == <<replies, appending, flooding, posts>>
startVars == <<signals, waiting, index, point, threshold>>

TypeOK ==
  /\ phase \in [Server -> {"off", "asking", "joining", "ready", "started"}]
  /\ ipList \in [Server -> Seq(Server)]
  /\ replies \subseteq Server \X Seq(Server)
  /\ \A bag \in {appending, flooding, posts} : IsABag(bag)
  /\ BagToSet(appending) \subseteq Server \X Server \X Seq(Server)
  /\ BagToSet(flooding) \cup BagToSet(posts) \subseteq Server \X Server
  /\ signals \cup waiting \subseteq Server \X Nat
  /\ index \in [Server -> Nat]
  /\ point \in [Server -> Nat]
  /\ threshold \in [Server -> Nat]

Init ==
  /\ phase = [s \in Server |-> IF s = Master THEN "joining" ELSE "off"]
  /\ ipList = [s \in Server |-> IF s = Master THEN <<s>> ELSE <<>>]
  /\ replies = {}
  /\ appending = EmptyBag
  /\ flooding = EmptyBag
  /\ posts = EmptyBag
  /\ signals = {}
  /\ waiting = {}
  /\ index = [s \in Server |-> 0]
  /\ point = [s \in Server |-> 0]
  /\ threshold = [s \in Server |-> 0]

Settled ==
  /\ replies = {} /\ \A s \in Server : phase[s] # "asking"
  /\ appending = EmptyBag /\ flooding = EmptyBag /\ posts = EmptyBag

(* The servers Master has sent a signal to.                                *)
Called ==
  {m[1] : m \in signals \cup waiting} \cup {s \in Server : phase[s] = "started"}

StartsUnderWay ==
  signals # {} \/ \E m \in waiting : phase[m[1]] # "started"

OperatorActs == Patient => Settled /\ ~StartsUnderWay

(* sortIpStruct: every entry goes to the place that the entries before it  *)
(* in the order leave it; equal ones keep theirs.                          *)
Place(list, i) ==
  Cardinality({j \in DOMAIN list :
                 list[j] < list[i] \/ (list[j] = list[i] /\ j <= i)})

Sorted(list) ==
  [k \in DOMAIN list |-> list[CHOOSE i \in DOMAIN list : Place(list, i) = k]]

-----------------------------------------------------------------------------
(* Joining.                                                                *)

(* A server is started, before or after the signals, puts itself on its    *)
(* list and asks Master.                                                   *)
Join(s) ==
  /\ phase[s] = "off"
  /\ OperatorActs
  /\ phase' = [phase EXCEPT ![s] = "asking"]
  /\ ipList' = [ipList EXCEPT ![s] = <<s>>]
  /\ UNCHANGED <<joinVars, startVars>>

(* joinNetwork answers with the list as it is, then goes on to append.     *)
JoinNetwork(s) ==
  /\ phase[s] = "asking"
  /\ phase' = [phase EXCEPT ![s] = "joining"]
  /\ replies' = replies \cup {<<s, ipList[Master]>>}
  /\ appending' = appending (+) SetToBag({<<Master, s, ipList[Master]>>})
  /\ UNCHANGED <<ipList, flooding, posts, startVars>>

(* ParticipateInNetwork gets the answer.                                   *)
ParticipateForgetsItself(s, list) ==
  /\ <<s, list>> \in replies
  /\ replies' = replies \ {<<s, list>>}
  /\ ipList' = [ipList EXCEPT ![s] = list]
  /\ phase' = [phase EXCEPT ![s] = "ready"]
  /\ UNCHANGED <<appending, flooding, posts, startVars>>

ParticipateInNetwork(s, list) ==
  /\ <<s, list>> \in replies
  /\ replies' = replies \ {<<s, list>>}
  /\ ipList' = [ipList EXCEPT ![s] = @ \o list]
  /\ phase' = [phase EXCEPT ![s] = "ready"]
  /\ UNCHANGED <<appending, flooding, posts, startVars>>

(* newParticipantInNetwork looks for the address; what it knows already it *)
(* does not pass on.                                                       *)
NewParticipantIgnored(s, ip) ==
  /\ ip \in ToSet(ipList[s])
  /\ UNCHANGED appending

NewParticipantAccepted(s, ip) ==
  /\ ip \notin ToSet(ipList[s])
  /\ appending' = appending (+) SetToBag({<<s, ip, ipList[s]>>})

NewParticipantInNetwork(s, ip) ==
  /\ <<s, ip>> \in BagToSet(posts)
  /\ posts' = posts (-) SetToBag({<<s, ip>>})
  /\ NewParticipantIgnored(s, ip) \/ NewParticipantAccepted(s, ip)
  /\ UNCHANGED <<phase, ipList, replies, flooding, startVars>>

AppendAddressInOrder(s, ip, saw) ==
  /\ <<s, ip, saw>> \in BagToSet(appending)
  /\ appending' = appending (-) SetToBag({<<s, ip, saw>>})
  /\ \E list \in {saw, ipList[s]} :
       ipList' = [ipList EXCEPT ![s] = Sorted(Append(list, ip))]
  /\ flooding' = flooding (+) SetToBag({<<s, ip>>})
  /\ UNCHANGED <<phase, replies, posts, startVars>>

AppendAddress(s, ip, saw) ==
  /\ <<s, ip, saw>> \in BagToSet(appending)
  /\ appending' = appending (-) SetToBag({<<s, ip, saw>>})
  /\ \E list \in {saw, ipList[s]} :
       ipList' = [ipList EXCEPT ![s] = Append(list, ip)]
  /\ flooding' = flooding (+) SetToBag({<<s, ip>>})
  /\ UNCHANGED <<phase, replies, posts, startVars>>

(* FloodNewParticipantInNetwork: one post for each entry of the list.      *)
FloodNewParticipant(s, ip) ==
  /\ <<s, ip>> \in BagToSet(flooding)
  /\ flooding' = flooding (-) SetToBag({<<s, ip>>})
  /\ posts' = posts (+) ToBag([i \in DOMAIN ipList[s] |-> <<ipList[s][i], ip>>])
  /\ UNCHANGED <<phase, ipList, replies, appending, startVars>>

-----------------------------------------------------------------------------
(* Phase two.                                                              *)

(* The operator of Master continues: the start secret is shared among the  *)
(* entries of the list (CalculateT panics below three).                    *)
SendStartPhaseTwoToOthers ==
  /\ phase[Master] = "joining"
  /\ Len(ipList[Master]) >= MinParties
  /\ OperatorActs
  /\ ipList' = [ipList EXCEPT ![Master] = Sorted(@)]
  /\ signals' = {<<ipList'[Master][i], i>> :
                   i \in {j \in DOMAIN ipList'[Master] : ipList'[Master][j] # Master}}
  /\ phase' = [phase EXCEPT ![Master] = "ready"]
  /\ UNCHANGED <<joinVars, waiting, index, point, threshold>>

SendStartPhaseTwo ==
  /\ phase[Master] = "joining"
  /\ Len(ipList[Master]) >= MinParties
  /\ OperatorActs
  /\ ipList' = [ipList EXCEPT ![Master] = Sorted(@)]
  /\ signals' = {<<ipList'[Master][i], i>> : i \in DOMAIN ipList'[Master]}
  /\ phase' = [phase EXCEPT ![Master] = "ready"]
  /\ UNCHANGED <<joinVars, waiting, index, point, threshold>>

(* receiveStartPhaseTwoSignal sorts the list and waits for StartNetwork to *)
(* receive from stateWait.                                                 *)
ReceiveStartPhaseTwo(s, i) ==
  /\ <<s, i>> \in signals
  /\ signals' = signals \ {<<s, i>>}
  /\ ipList' = [ipList EXCEPT ![s] = Sorted(@)]
  /\ waiting' = waiting \cup {<<s, i>>}
  /\ UNCHANGED <<phase, joinVars, index, point, threshold>>

(* StartNetwork receives once; a second handler waits for ever.  The index *)
(* is that of the last entry with the own address; without one it is -1,   *)
(* no index, and the code panics.  With less than three entries it panics  *)
(* as well; here such a server does not start.                             *)
StartNetwork(s, i) ==
  /\ phase[s] = "ready"
  /\ <<s, i>> \in waiting
  /\ Len(ipList[s]) >= MinParties
  /\ waiting' = waiting \ {<<s, i>>}
  /\ phase' = [phase EXCEPT ![s] = "started"]
  /\ point' = [point EXCEPT ![s] = i]
  /\ threshold' = [threshold EXCEPT ![s] = CalculateT(Len(ipList[s]))]
  /\ index' = [index EXCEPT
       ![s] = SelectLastInSeq(ipList[s], LAMBDA ip : ip = s) - 1]
  /\ UNCHANGED <<ipList, joinVars, signals>>

Next ==
  \/ \E s \in Server : Join(s)
  \/ \E s \in Server : JoinNetwork(s)
  \/ \E r \in replies : ParticipateInNetwork(r[1], r[2])
  \/ \E m \in BagToSet(posts) : NewParticipantInNetwork(m[1], m[2])
  \/ \E m \in BagToSet(appending) : AppendAddress(m[1], m[2], m[3])
  \/ \E m \in BagToSet(flooding) : FloodNewParticipant(m[1], m[2])
  \/ SendStartPhaseTwo
  \/ \E m \in signals : ReceiveStartPhaseTwo(m[1], m[2])
  \/ \E m \in waiting : StartNetwork(m[1], m[2])

Spec == Init /\ [][Next]_vars

(* Requests arrive and handlers go on; when an operator acts is up to the  *)
(* operator.                                                               *)
Progress ==
  /\ WF_vars(\E s \in Server : JoinNetwork(s))
  /\ WF_vars(\E r \in replies : ParticipateInNetwork(r[1], r[2]))
  /\ WF_vars(\E m \in signals : ReceiveStartPhaseTwo(m[1], m[2]))
  /\ \A s \in Server : WF_vars(\E m \in waiting : m[1] = s /\ StartNetwork(s, m[2]))

LiveSpec == Spec /\ Progress

-----------------------------------------------------------------------------
Joined == {s \in Server : phase[s] \in {"ready", "started"}} \cup {Master}

(* "floods new participants in the network so that all people knows the ip *)
(* of each others" (newParticipantInNetwork): when nothing is under way,   *)
(* every server has every server's address.                                *)
EveryoneKnown ==
  Settled => \A s \in Joined : ToSet(ipList[s]) = Joined

NoAddressTwice == \A s \in Server : IsInjective(ipList[s])

(* However many servers join late: as far as no list has an address twice, *)
(* every started server finds every other at the point of its share, the   *)
(* index it signs and decrypts by is that point, and the threshold is that *)
(* of the servers that got a share.                                        *)
IndexesMatch ==
  NoAddressTwice =>
    \A s, r \in {u \in Server : phase[u] = "started"} :
      /\ point[s] = index[s] + 1
      /\ ipList[r][point[s]] = s
      /\ threshold[s] = CalculateT(Cardinality(Called))

(* Every server that has joined before Master's operator continues starts  *)
(* voting, unless the operator never continues.                            *)
EveryoneStarts ==
  \A s \in Server :
    phase[Master] = "joining" /\ s \in Joined
      ~> phase[s] = "started" \/ [](phase[Master] = "joining")
=============================================================================
