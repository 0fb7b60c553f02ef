-------------------------------- MODULE Tally -------------------------------
(***************************************************************************)
(* From delivered shares to the result a client prints:                    *)
(* server/src/MPCControllerImpl.go (NewShareArrived, addShare,             *)
(* GetCurrentVote) with NewState of server/framework/MPCController.go, and *)
(* getCurrentVote of Client/client.go.                                     *)
(*                                                                         *)
(* The network calls NewShareArrived at most once for an id (CountedOnce   *)
(* of VoteDelivery).  The call waits, with shareLock, until the goroutine  *)
(* addShare receives the share from the unbuffered channel; addShare then  *)
(* replaces the sum.  Nobody sets the state RESULT, verifiedShares stays   *)
(* empty, and the one call of RevokeVote (ChallengeVote) is behind a       *)
(* json.Unmarshal that fails on every share.                               *)
(*                                                                         *)
(* VerifyShare does not compare the number of commitments with anything,   *)
(* so votes here are dealt with polynomials of any length.  A client that  *)
(* counts more servers (one joined late) deals with a higher degree.       *)
(*                                                                         *)
(* Grain.  The sum is written and read without a lock.  A read while       *)
(* addShare is at work may see the old sum, or a value that is neither the *)
(* old nor the new one.  Of a result that is read while a sum changes the  *)
(* model keeps only that it is `mixed': it can be any number.              *)
(***************************************************************************)
EXTENDS SecretSharing

CONSTANTS
  Vote,     \* vote ids
  VoteF,    \* the polynomials of a vote, of any length but the same
  VoteG,
  StartF,   \* the polynomials of the start secret 0
  StartG,
  PointAt,  \* the point of the share a server is dealt, [Vote -> [Points -> Points]]
  HandedTo, \* the servers the network hands a vote to, [Vote -> SUBSET Points]
  Nobody    \* addShare waits for a share

ASSUME TallyAssumption ==
  /\ {StartF, StartG} \subseteq [1 .. T + 1 -> Field] /\ StartF[1] = 0
  /\ DOMAIN VoteF = Vote /\ DOMAIN VoteG = Vote
  /\ \A v \in Vote :
       /\ {VoteF[v], VoteG[v]} \subseteq Seq(Field) \ {<<>>}
       /\ Len(VoteF[v]) = Len(VoteG[v])
       /\ VoteF[v][1] \in {0, 1}
  /\ PointAt \in [Vote -> [Points -> Points]]
  /\ HandedTo \in [Vote -> SUBSET Points]
  /\ Nobody \notin Vote

(* Servers are named by the point of their start share. *)
Server == Points

VARIABLES
  arriving,  \* ids NewShareArrived is still to be called with
  adding,    \* the id addShare has received and not added yet
  counted,   \* the ids in the sum
  sum,       \* state.Share
  proof,     \* state.Proof, <<>> when nil
  up,        \* servers whose process runs
  reader,    \* the client's loop: [next, shares, mixed]
  tallies    \* how many results were read, bounded by MaxReads

vars == <<arriving, adding, counted, sum, proof, up, reader, tallies>>

MaxReads == 1

Idle == [next |-> 0, shares |-> {}, mixed |-> FALSE]
Mixed(next) == [next |-> next, shares |-> {}, mixed |-> TRUE]
Reading == reader.next \in 1 .. Parties + 1

Dealt ==
  [v \in Vote |-> [s \in Server |-> Share(PointAt[v][s], VoteF[v], VoteG[v])]]
DealtProof == [v \in Vote |-> Commitments(VoteF[v], VoteG[v])]

TypeOK ==
  /\ arriving \in [Server -> SUBSET Vote]
  /\ adding \in [Server -> Vote \cup {Nobody}]
  /\ counted \in [Server -> SUBSET Vote]
  /\ \A s \in Server : sum[s] \in [Point : {s}, S : Field, T : Field]
  /\ \A s \in Server : proof[s] \in Seq(1 .. PrimeP - 1)
  /\ up \subseteq Server
  /\ reader.next \in 0 .. Parties + 1
  /\ tallies \in 0 .. MaxReads

(* NewState takes the start share and drops its proof. *)
Init ==
  /\ arriving = [s \in Server |-> {v \in Vote : s \in HandedTo[v]}]
  /\ adding = [s \in Server |-> Nobody]
  /\ counted = [s \in Server |-> {}]
  /\ sum = [s \in Server |-> Share(s, StartF, StartG)]
  /\ proof = [s \in Server |-> <<>>]
  /\ up = Server
  /\ reader = Idle
  /\ tallies = 0

-----------------------------------------------------------------------------
(* NewShareArrived and addShare meet at the channel.                       *)
NewShareArrivedNoLoop(s, v) ==
  /\ s \in up
  /\ v \in arriving[s]
  /\ adding[s] = Nobody
  /\ counted[s] = {}
  /\ arriving' = [arriving EXCEPT ![s] = @ \ {v}]
  /\ adding' = [adding EXCEPT ![s] = v]
  /\ UNCHANGED <<counted, sum, proof, up, reader, tallies>>

NewShareArrived(s, v) ==
  /\ s \in up
  /\ v \in arriving[s]
  /\ adding[s] = Nobody
  /\ arriving' = [arriving EXCEPT ![s] = @ \ {v}]
  /\ adding' = [adding EXCEPT ![s] = v]
  /\ UNCHANGED <<counted, sum, proof, up, reader, tallies>>

(* The first vote finds no proof and replaces the start share.             *)
AddShare(s) ==
  LET v   == adding[s]
      res == Add(Dealt[v][s], sum[s], DealtProof[v], proof[s])
  IN  /\ s \in up
      /\ v # Nobody
      /\ ~ AddPanics(Dealt[v][s], sum[s], DealtProof[v], proof[s])
      /\ sum' = [sum EXCEPT ![s] = res.share]
      /\ proof' = [proof EXCEPT ![s] = res.proof]
      /\ counted' = [counted EXCEPT ![s] = @ \cup {v}]
      /\ adding' = [adding EXCEPT ![s] = Nobody]
      /\ reader' = IF Reading THEN Mixed(reader.next) ELSE reader
      /\ UNCHANGED <<arriving, up, tallies>>

(* Add panics in the goroutine: the process ends.                          *)
AddSharePanics(s) ==
  LET v == adding[s]
  IN  /\ s \in up
      /\ v # Nobody
      /\ AddPanics(Dealt[v][s], sum[s], DealtProof[v], proof[s])
      /\ up' = up \ {s}
      /\ UNCHANGED <<arriving, adding, counted, sum, proof, reader, tallies>>

-----------------------------------------------------------------------------
(* getCurrentVote asks the servers one after the other.                    *)
StartReading ==
  /\ reader.next = 0
  /\ tallies < MaxReads
  /\ reader' = [Idle EXCEPT !.next = 1]
  /\ UNCHANGED <<arriving, adding, counted, sum, proof, up, tallies>>

AsksNext == reader.next \in Server

ReadShare ==
  /\ AsksNext
  /\ reader.next \in up
  /\ \/ /\ ~ reader.mixed
        /\ reader' = [reader EXCEPT !.next = @ + 1,
                                    !.shares = @ \cup {sum[reader.next]}]
     \/ /\ reader.mixed \/ adding[reader.next] # Nobody
        /\ reader' = Mixed(reader.next + 1)
  /\ UNCHANGED <<arriving, adding, counted, sum, proof, up, tallies>>

(* No answer: the empty body parses to no share, and the client ends.      *)
ReadFails ==
  /\ AsksNext
  /\ reader.next \notin up
  /\ reader' = Idle
  /\ tallies' = MaxReads
  /\ UNCHANGED <<arriving, adding, counted, sum, proof, up>>

(* Reconstruct of all shares; the client's loop asks again later.          *)
PrintResult ==
  /\ reader.next = Parties + 1
  /\ reader' = Idle
  /\ tallies' = tallies + 1
  /\ UNCHANGED <<arriving, adding, counted, sum, proof, up>>

Next ==
  \/ \E s \in Server, v \in Vote : NewShareArrived(s, v)
  \/ \E s \in Server : AddShare(s)
  \/ \E s \in Server : AddSharePanics(s)
  \/ StartReading
  \/ ReadShare
  \/ ReadFails
  \/ PrintResult

Spec == Init /\ [][Next]_vars

LiveSpec ==
  /\ Spec
  /\ \A s \in Server :
       /\ WF_vars(\E v \in Vote : NewShareArrived(s, v))
       /\ WF_vars(AddShare(s) \/ AddSharePanics(s))

-----------------------------------------------------------------------------
(* SecretGen's degree for this number of servers. *)
UsualDegree(votes) == \A v \in votes : Len(VoteF[v]) = T + 1

(* The sum and the product of commitments a server keeps belong together:  *)
(* while the votes it counted have the usual degree, its sum is a share    *)
(* that verifies, in any order of the votes.  (A shorter or longer proof   *)
(* truncates the product: then the two no longer belong together.)         *)
SumMatchesProof ==
  \A s \in Server :
    counted[s] # {} /\ UsualDegree(counted[s])
      => MatchesCommitments(sum[s], proof[s])

(* A result read while all sums hold the same votes, of the usual degree,  *)
(* is the number of votes for 1 among them, whatever order each server     *)
(* added them in.                                                          *)
StillReadExact ==
  /\ reader.next = Parties + 1
  /\ ~ reader.mixed
  /\ \A s, r \in Server : counted[s] = counted[r]
  /\ UsualDegree(counted[1])
  => Reconstruct(reader.shares) =
       SumFunction([v \in counted[1] |-> VoteF[v][1]]) % PrimeQ

(* A server that stays up adds every share it is handed; others may have   *)
(* ended on a share that makes Add panic.                                  *)
EveryShareAdded ==
  <>[](\A s \in up : counted[s] = {v \in Vote : s \in HandedTo[v]})
=============================================================================
