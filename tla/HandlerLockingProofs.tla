------------------------ MODULE HandlerLockingProofs ------------------------
(***************************************************************************)
(* Theorems about the handlers, lock by lock, for any number of calls.     *)
(*                                                                         *)
(* OneHandover: the tally gets at most one ballot of an id, once, and none *)
(* of an id that is invalidated, also in the schedules in which several    *)
(* handlers are inside one entry.                                          *)
(*                                                                         *)
(* Handlers exclude each other until one releases a lock for the second    *)
(* time, and takes it from whoever has it by then.  But that one has       *)
(* invalidated the id before its first release: who comes in after it      *)
(* finds the entry settled, and decides nothing.  So a handler that still  *)
(* has something to decide is the only one, as a lock would have it.       *)
(*                                                                         *)
(* CondemnedStay: by then nothing but its pending challenges changes in    *)
(* the entry any more, for whoever writes into one has something to        *)
(* decide, and structs of other ballots are not touched.                   *)
(*                                                                         *)
(* Atomic: while no call overtakes, what a handler does in an entry is one *)
(* step of VoteDelivery.  The invariant says what each call has made of    *)
(* the entry since it came into it (Section), and that it is alone there   *)
(* (Alone); the step in which it leaves is then one of VoteDelivery's, and *)
(* the steps before change nothing VoteDelivery is shown.                  *)
(***************************************************************************)
EXTENDS HandlerLocking, FiniteSetTheorems, TLAPS

(* Handlers before their decision, and between it and addShare. *)
Deciding    == {"verify", "invalidate", "signatures", "doubt"}
HandingOver == {"handover", "send"}

(* Handlers that release a lock they took, or what others take for it. *)
Holding == {"check", "find", "unlock", "resume"}

Points ==
  Inside \cup {"absent", "start", "wait", "delayed", "resume", "flood", "done",
              "leaked", "panicked", "ended"}

Typed ==
  /\ pc \in [Call -> Points]
  /\ lock \in [EntryId -> Call \cup {None}]
  /\ chosen \in [Call -> Ballot]
  /\ tally \in [Ballot -> Nat]

(* An entry is there before anybody waits for it or has its lock. *)
EntryFirst ==
  /\ \A i \in EntryId : lock[i] # None => i \in known
  /\ \A t \in Call : pc[t] \notin {"absent", "start", "done"} => t.id \in known

(* A handler that decides, or hands over, has the lock. *)
Excluded(t) ==
  /\ pc[t] \in Deciding =>
       lock[t.id] = t /\ t.id \notin delivered \cup invalidated
  /\ pc[t] \in HandingOver =>
       /\ lock[t.id] = t
       /\ t.id \in delivered
       /\ IdOf[chosen[t]] = t.id
       /\ \A b \in Ballot : IdOf[b] = t.id => tally[b] = 0
  /\ pc[t] \in Holding => lock[t.id] = t \/ t.id \in invalidated
  /\ pc[t] = "again" => t.id \in invalidated

LockingInv ==
  /\ Typed
  /\ EntryFirst
  /\ \A t \in Call : Excluded(t)
  /\ delivered \cap invalidated = {}
  /\ \A b \in Ballot : tally[b] > 0 => IdOf[b] \in delivered
  /\ HandedOverOnce

-----------------------------------------------------------------------------
LEMMA CallShapes ==
  \A t \in Call :
    \/ \E b \in Ballot : t = PostOf(b)
    \/ \E b \in Ballot, S \in SUBSET (Server \ {Here}) : t = ShareOf(b, S)
    \/ \E i \in EntryId, b \in Ballot, v \in Server :
         /\ t = ChallengeOf(i, b, v)
         /\ v = Here <=> t \in OwnChallenges
<1> SUFFICES ASSUME NEW t \in Call,
                    ~ \E b \in Ballot : t = PostOf(b),
                    ~ \E b \in Ballot, S \in SUBSET (Server \ {Here}) : t = ShareOf(b, S)
             PROVE  \E i \in EntryId, b \in Ballot, v \in Server :
                      /\ t = ChallengeOf(i, b, v)
                      /\ v = Here <=> t \in OwnChallenges
  OBVIOUS
<1>1. CASE t \in OwnChallenges
  <2>1. PICK i \in EntryId, b \in Ballot : t = ChallengeOf(i, b, Here)
    BY <1>1 DEF OwnChallenges
  <2> QED
    BY <1>1, <2>1, HandlerLockingAssumption
<1>2. CASE t \in PeerCalls
  <2>1. PICK i \in EntryId, b \in Ballot, v \in Server \ {Here} : t = ChallengeOf(i, b, v)
    BY <1>2, HandlerLockingAssumption
  <2>2. ASSUME NEW j, NEW c PROVE t # ChallengeOf(j, c, Here)
    <3>1. t.from = {v} /\ ChallengeOf(j, c, Here).from = {Here}
      BY <2>1 DEF ChallengeOf
    <3> QED
      BY <3>1
  <2> QED
    BY <2>1, <2>2 DEF OwnChallenges
<1> QED
  BY <1>1, <1>2 DEF Call

LEMMA CallsTyped ==
  \A t \in Call : /\ t # None /\ t.id \in EntryId /\ t.ballot \in Ballot
                  /\ t.kind \in {"post", "share", "challenge"}
<1> SUFFICES ASSUME NEW t \in Call
             PROVE  /\ t.id \in EntryId /\ t.ballot \in Ballot
                    /\ t.kind \in {"post", "share", "challenge"}
  BY HandlerLockingAssumption
<1>1. CASE \E b \in Ballot : t = PostOf(b)
  BY <1>1, HandlerLockingAssumption DEF PostOf, EntryId
<1>2. CASE \E b \in Ballot, S \in SUBSET (Server \ {Here}) : t = ShareOf(b, S)
  BY <1>2, HandlerLockingAssumption DEF ShareOf, EntryId
<1>3. CASE \E i \in EntryId, b \in Ballot, v \in Server : t = ChallengeOf(i, b, v)
  BY <1>3 DEF ChallengeOf
<1> QED
  BY <1>1, <1>2, <1>3, CallShapes

LEMMA LockingInvInit == Init => LockingInv
<1> SUFFICES ASSUME Init PROVE LockingInv
  OBVIOUS
<1>1. Typed
  <2>1. pc \in [Call -> Points]
    <3>1. PICK calls \in SUBSET PeerCalls :
            pc = [t \in Call |-> IF t \in calls THEN "start" ELSE "absent"]
      BY DEF Init
    <3> QED
      BY <3>1 DEF Points
  <2>2. chosen \in [Call -> Ballot]
    BY CallsTyped DEF Init
  <2> QED
    BY <2>1, <2>2 DEF Init, Typed
<1>2. \A t \in Call : pc[t] \in {"start", "absent"}
  BY DEF Init
<1>3. EntryFirst
  BY <1>2 DEF Init, EntryFirst
<1>4. \A t \in Call : Excluded(t)
  BY <1>2 DEF Excluded, Deciding, HandingOver, Holding
<1> QED
  BY <1>1, <1>3, <1>4 DEF Init, LockingInv, HandedOverOnce

(* A call goes from one point to another, maybe a challenge starts; the    *)
(* locks of entries, decisions and the tally stay as they are.             *)
Moves(t, from, to) ==
  /\ \A u \in Call :
       \/ pc'[u] = pc[u]
       \/ pc[u] = "absent" /\ pc'[u] = "start"
       \/ u = t /\ pc[u] = from /\ pc'[u] = to
  /\ pc' \in [Call -> Points]
  /\ known \subseteq known'
  /\ to # "done" => t.id \in known'
  /\ UNCHANGED <<lock, delivered, invalidated, chosen, tally>>

LEMMA MovingStep ==
  ASSUME LockingInv, NEW t \in Call, NEW from, NEW to, Moves(t, from, to),
         \/ to \notin Deciding \cup HandingOver \cup Holding \cup {"again"}
         \/ /\ to \in Deciding
            /\ \/ from \in Deciding
               \/ lock[t.id] = t /\ t.id \notin delivered \cup invalidated
         \/ to \in HandingOver /\ from \in HandingOver
         \/ to \in Holding /\ (from \in Deciding \cup Holding \/ lock[t.id] = t)
  PROVE  LockingInv'
<1>1. Typed'
  BY DEF Moves, LockingInv, Typed
<1>2. EntryFirst'
  BY DEF Moves, LockingInv, EntryFirst
<1>3. ASSUME NEW u \in Call PROVE Excluded(u)'
  <2>1. Excluded(u)
    BY DEF LockingInv
  <2>2. CASE pc'[u] = pc[u]
    BY <2>1, <2>2 DEF Moves, Excluded
  <2>3. CASE pc'[u] = "start"
    BY <2>3 DEF Excluded, Deciding, HandingOver, Holding
  <2>4. CASE u = t /\ pc[u] = from /\ pc'[u] = to
    BY <2>1, <2>4 DEF Moves, Excluded, Deciding, HandingOver, Holding
  <2> QED
    BY <2>2, <2>3, <2>4 DEF Moves
<1> QED
  BY <1>1, <1>2, <1>3 DEF Moves, LockingInv, HandedOverOnce

-----------------------------------------------------------------------------
(* The steps that change locks, decisions or the tally.                    *)

(* Nobody decides or hands over in an entry that is free, or new. *)
LEMMA FreeEntry ==
  ASSUME LockingInv, NEW i \in EntryId, lock[i] = None
  PROVE  \A u \in Call : u.id = i =>
           /\ pc[u] \notin Deciding \cup HandingOver
           /\ pc[u] \in Holding => i \in invalidated
BY CallsTyped DEF LockingInv, Excluded

(* A call takes the lock of an entry.  What it does not know yet is        *)
(* whether the entry is settled.                                           *)
Takes(t, to) ==
  /\ lock[t.id] = None
  /\ lock' = [lock EXCEPT ![t.id] = t]
  /\ pc' = [pc EXCEPT ![t] = to]
  /\ known' \in {known, known \cup {t.id}} /\ t.id \in known'
  /\ UNCHANGED <<delivered, invalidated, chosen, tally>>

LEMMA TakingStep ==
  ASSUME LockingInv, NEW t \in Call, NEW to \in {"check", "find", "resume"},
         Takes(t, to)
  PROVE  LockingInv'
<1>t. /\ pc \in [Call -> Points] /\ lock \in [EntryId -> Call \cup {None}]
      /\ t.id \in EntryId
  BY CallsTyped DEF LockingInv, Typed
<1>1. Typed'
  <2>1. to \in Points
    BY DEF Points, Inside
  <2>2. pc' \in [Call -> Points] /\ lock' \in [EntryId -> Call \cup {None}]
    BY <1>t, <2>1 DEF Takes
  <2> QED
    BY <2>2 DEF Takes, LockingInv, Typed
<1>2. EntryFirst'
  BY <1>t DEF Takes, LockingInv, EntryFirst
<1>3. ASSUME NEW u \in Call PROVE Excluded(u)'
  <2>1. Excluded(u) /\ u.id \in EntryId
    BY CallsTyped DEF LockingInv
  <2>2. CASE u = t
    BY <1>t, <2>2 DEF Takes, Excluded, Deciding, HandingOver, Holding
  <2>3. CASE u # t /\ u.id # t.id
    BY <1>t, <2>1, <2>3 DEF Takes, Excluded
  <2>4. CASE u # t /\ u.id = t.id
    <3>1. /\ pc[u] \notin Deciding \cup HandingOver
          /\ pc[u] \in Holding => t.id \in invalidated
      BY <1>t, <2>4, FreeEntry DEF Takes
    <3> QED
      BY <1>t, <2>1, <2>4, <3>1 DEF Takes, Excluded
  <2> QED
    BY <2>2, <2>3, <2>4
<1> QED
  BY <1>1, <1>2, <1>3 DEF Takes, LockingInv, HandedOverOnce

(* A lock is let go: the call's own, or another's, which is then in an     *)
(* entry that is invalidated.                                              *)
Frees(t, from, to) ==
  /\ pc[t] = from
  /\ pc' = [pc EXCEPT ![t] = to]
  /\ lock' = [lock EXCEPT ![t.id] = None]
  /\ UNCHANGED <<known, delivered, chosen, tally>>

LEMMA FreeingStep ==
  ASSUME LockingInv, NEW t \in Call, NEW from, NEW to \in Points,
         Frees(t, from, to),
         \/ /\ from \in Holding \cup {"again"}
            /\ to \in {"done", "flood", "delayed", "ended"}
            /\ UNCHANGED invalidated
         \/ /\ from = "doubt" /\ to = "again"
            /\ invalidated' = invalidated \cup {t.id}
  PROVE  LockingInv'
<1>t. /\ pc \in [Call -> Points] /\ lock \in [EntryId -> Call \cup {None}]
      /\ t.id \in EntryId /\ Excluded(t) /\ t # None
      /\ pc'[t] = to /\ \A u \in Call \ {t} : pc'[u] = pc[u]
      /\ lock'[t.id] = None /\ \A i \in EntryId \ {t.id} : lock'[i] = lock[i]
  BY CallsTyped DEF LockingInv, Typed, Frees
<1>1. Typed'
  <2>1. pc' \in [Call -> Points]
    BY <1>t DEF Frees
  <2>2. lock' \in [EntryId -> Call \cup {None}]
    BY <1>t DEF Frees
  <2> QED
    BY <2>1, <2>2 DEF Frees, LockingInv, Typed
<1>2. EntryFirst'
  <2>1. pc[t] \notin {"absent", "start", "done"}
    BY DEF Frees, Holding
  <2> QED
    BY <1>t, <2>1 DEF Frees, LockingInv, EntryFirst
<1>3. invalidated \subseteq invalidated' /\ invalidated' \subseteq invalidated \cup {t.id}
  OBVIOUS
<1>4. lock[t.id] = t \/ t.id \in invalidated
  BY <1>t DEF Frees, Excluded, Deciding, Holding
<1>5. ASSUME NEW u \in Call PROVE Excluded(u)'
  <2>1. Excluded(u) /\ u.id \in EntryId
    BY CallsTyped DEF LockingInv
  <2>2. CASE u = t
    BY <1>t, <2>2 DEF Excluded, Deciding, HandingOver, Holding
  <2>3. CASE u # t /\ u.id # t.id
    BY <1>t, <1>3, <2>1, <2>3 DEF Frees, Excluded
  <2>4. CASE u # t /\ u.id = t.id
    <3>1. lock[t.id] = u => t.id \in invalidated
      BY <1>4, <2>4
    <3>2. pc[u] \notin Deciding \cup HandingOver
      BY <2>1, <2>4, <3>1 DEF Excluded, LockingInv
    <3>3. pc[u] \in Holding => t.id \in invalidated'
      BY <1>3, <2>1, <2>4, <3>1 DEF Excluded
    <3> QED
      BY <1>t, <1>3, <2>1, <2>4, <3>2, <3>3 DEF Excluded
  <2> QED
    BY <2>2, <2>3, <2>4
<1>6. delivered \cap invalidated' = {}
  BY <1>t DEF LockingInv, Frees, Excluded, Deciding
<1> QED
  BY <1>1, <1>2, <1>5, <1>6 DEF Frees, LockingInv, HandedOverOnce

LEMMA InvalidateStep ==
  ASSUME LockingInv, NEW t \in Call, Invalidate(t)
  PROVE  LockingInv'
<1>t. /\ pc \in [Call -> Points] /\ t.id \in EntryId
      /\ pc[t] = "invalidate" /\ pc' = [pc EXCEPT ![t] = "unlock"]
      /\ invalidated' = invalidated \cup {t.id}
      /\ UNCHANGED <<lock, known, delivered, chosen, tally>>
  BY CallsTyped
  DEF LockingInv, Typed, Invalidate, Goes, locks, rest
<1>1. lock[t.id] = t /\ t.id \notin delivered \cup invalidated
  BY <1>t DEF LockingInv, Excluded, Deciding
<1>2. Typed'
  <2>1. pc' \in [Call -> Points]
    BY <1>t DEF Points, Inside
  <2> QED
    BY <1>t, <2>1 DEF LockingInv, Typed
<1>3. EntryFirst'
  BY <1>t DEF LockingInv, EntryFirst
<1>4. ASSUME NEW u \in Call PROVE Excluded(u)'
  <2>1. Excluded(u)
    BY DEF LockingInv
  <2>2. CASE u = t
    BY <1>t, <1>1, <2>2 DEF Excluded, Deciding, HandingOver, Holding
  <2>3. CASE u # t
    BY <1>t, <1>1, <2>1, <2>3 DEF Excluded
  <2> QED
    BY <2>2, <2>3
<1>5. delivered' \cap invalidated' = {}
  BY <1>t, <1>1 DEF LockingInv
<1>6. HandedOverOnce'
  BY <1>t, <1>1 DEF LockingInv, HandedOverOnce
<1> QED
  BY <1>t, <1>2, <1>3, <1>4, <1>5, <1>6 DEF LockingInv

LEMMA DeliverStep ==
  ASSUME LockingInv, NEW t \in Call, Deliver(t)
  PROVE  LockingInv'
<1>1. PICK c \in Ready(t.id) : chosen' = [chosen EXCEPT ![t] = c]
  BY DEF Deliver
<1>2. c \in Ballot /\ IdOf[c] = t.id
  BY DEF Ready, Received
<1>t. /\ pc \in [Call -> Points] /\ chosen \in [Call -> Ballot]
      /\ tally \in [Ballot -> Nat]
      /\ pc[t] = "signatures" /\ pc' = [pc EXCEPT ![t] = "handover"]
      /\ delivered' = delivered \cup {t.id}
      /\ UNCHANGED <<lock, known, invalidated, tally>>
  BY DEF LockingInv, Typed, Deliver, Goes, locks
<1>3. lock[t.id] = t /\ t.id \notin delivered \cup invalidated
  BY <1>t DEF LockingInv, Excluded, Deciding
<1>4. Typed'
  <2>1. pc' \in [Call -> Points]
    BY <1>t DEF Points, Inside
  <2>2. chosen' \in [Call -> Ballot]
    BY <1>t, <1>1, <1>2
  <2> QED
    BY <1>t, <2>1, <2>2 DEF LockingInv, Typed
<1>5. EntryFirst'
  BY <1>t DEF LockingInv, EntryFirst
<1>6. \A b \in Ballot : IdOf[b] = t.id => tally[b] = 0
  BY <1>t, <1>3 DEF LockingInv
<1>7. ASSUME NEW u \in Call PROVE Excluded(u)'
  <2>1. Excluded(u)
    BY DEF LockingInv
  <2>2. CASE u = t
    BY <1>t, <1>1, <1>2, <1>3, <1>6, <2>2
    DEF Excluded, Deciding, HandingOver, Holding
  <2>3. CASE u # t
    BY <1>t, <1>1, <1>3, <2>1, <2>3 DEF Excluded
  <2> QED
    BY <2>2, <2>3
<1>8. delivered' \cap invalidated' = {}
  BY <1>t, <1>3 DEF LockingInv
<1>9. HandedOverOnce' /\ \A b \in Ballot : tally'[b] > 0 => IdOf[b] \in delivered'
  BY <1>t DEF LockingInv, HandedOverOnce
<1> QED
  BY <1>4, <1>5, <1>7, <1>8, <1>9 DEF LockingInv

LEMMA SendShareStep ==
  ASSUME LockingInv, NEW t \in Call, SendShare(t)
  PROVE  LockingInv'
<1> DEFINE c == chosen[t]
<1>t. /\ pc \in [Call -> Points] /\ tally \in [Ballot -> Nat] /\ c \in Ballot
      /\ pc[t] = "send" /\ pc' = [pc EXCEPT ![t] = "unlock"]
      /\ tally' = [tally EXCEPT ![c] = @ + 1]
      /\ UNCHANGED <<lock, known, delivered, invalidated, chosen>>
  BY DEF LockingInv, Typed, SendShare, Goes, entries
<1>1. /\ lock[t.id] = t /\ t.id \in delivered /\ IdOf[c] = t.id
      /\ \A b \in Ballot : IdOf[b] = t.id => tally[b] = 0
      /\ t.id \notin invalidated
  BY <1>t DEF LockingInv, Excluded, HandingOver
<1>2. /\ tally' \in [Ballot -> Nat]
      /\ tally'[c] = 1
      /\ \A b \in Ballot \ {c} : tally'[b] = tally[b]
  BY <1>t, <1>1
<1>3. Typed'
  <2>1. pc' \in [Call -> Points]
    BY <1>t DEF Points, Inside
  <2> QED
    BY <1>t, <1>2, <2>1 DEF LockingInv, Typed
<1>4. EntryFirst'
  BY <1>t DEF LockingInv, EntryFirst
<1>5. ASSUME NEW u \in Call PROVE Excluded(u)'
  <2>1. Excluded(u)
    BY DEF LockingInv
  <2>2. CASE u = t
    BY <1>t, <1>1, <2>2 DEF Excluded, Deciding, HandingOver, Holding
  <2>3. CASE u # t
    <3>1. pc[u] \in HandingOver => u.id # t.id
      BY <1>1, <2>1, <2>3 DEF Excluded
    <3> QED
      BY <1>t, <1>1, <1>2, <2>1, <2>3, <3>1 DEF Excluded
  <2> QED
    BY <2>2, <2>3
<1>6. HandedOverOnce'
  BY <1>t, <1>1, <1>2 DEF LockingInv, HandedOverOnce
<1>7. \A b \in Ballot : tally'[b] > 0 => IdOf[b] \in delivered'
  BY <1>t, <1>1, <1>2 DEF LockingInv
<1> QED
  BY <1>t, <1>3, <1>4, <1>5, <1>6, <1>7 DEF LockingInv

-----------------------------------------------------------------------------
(* All the steps of a call.                                                *)

unmoved == <<lock, delivered, invalidated, chosen, tally>>

LEMMA GoesMoves ==
  ASSUME LockingInv, NEW t \in Call, NEW from, NEW to \in Points,
         Goes(t, from, to), UNCHANGED unmoved, known \subseteq known',
         \/ from \notin {"absent", "start", "done"}
         \/ to = "done"
         \/ t.id \in known
  PROVE  Moves(t, from, to)
<1>1. pc \in [Call -> Points] /\ pc[t] = from /\ pc' = [pc EXCEPT ![t] = to]
  BY DEF LockingInv, Typed, Goes
<1>2. pc' \in [Call -> Points]
  BY <1>1
<1>3. from \notin {"absent", "start", "done"} => t.id \in known
  BY <1>1 DEF LockingInv, EntryFirst
<1> QED
  BY <1>1, <1>2, <1>3 DEF Moves, unmoved

LEMMA LookUpStep ==
  ASSUME LockingInv, NEW t \in Call,
         \/ Found(t) \/ ChallengeIgnored(t) \/ ChallengeUnknownId(t)
         \/ Create(t) \/ TakeLock(t) \/ Delayed(t)
  PROVE  LockingInv'
<1>t. t.id \in EntryId /\ Typed
  BY CallsTyped DEF LockingInv
<1>1. CASE Found(t)
  <2>1. Moves(t, "start", "wait")
    BY <1>1, GoesMoves DEF Found, LookUp, entries, rest, unmoved, Points
  <2> QED
    BY <2>1, MovingStep DEF Deciding, HandingOver, Holding
<1>2. CASE ChallengeIgnored(t) \/ ChallengeUnknownId(t)
  <2>1. Moves(t, "start", "done")
    BY <1>2, GoesMoves
    DEF ChallengeIgnored, ChallengeUnknownId, LookUp, locks, entries, rest,
        unmoved, Points
  <2> QED
    BY <2>1, MovingStep DEF Deciding, HandingOver, Holding
<1>3. CASE Create(t)
  <2>1. lock[t.id] = None
    BY <1>t, <1>3 DEF Create, LockingInv, EntryFirst
  <2>2. Takes(t, "check")
    BY <1>3, <2>1 DEF Create, LookUp, Goes, Takes, rest
  <2> QED
    BY <2>2, TakingStep
<1>4. CASE TakeLock(t)
  <2>1. t.id \in known
    BY <1>4 DEF TakeLock, Goes, LockingInv, EntryFirst
  <2>2. Takes(t, "check") \/ Takes(t, "find")
    BY <1>4, <2>1 DEF TakeLock, Goes, Takes, entries, rest
  <2> QED
    BY <2>2, TakingStep
<1>5. CASE Delayed(t)
  <2>1. t.id \in known
    BY <1>5 DEF Delayed, Goes, LockingInv, EntryFirst
  <2>2. Takes(t, "resume")
    BY <1>5, <2>1 DEF Delayed, Goes, Takes, entries, rest
  <2> QED
    BY <2>2, TakingStep
<1> QED
  BY <1>1, <1>2, <1>3, <1>4, <1>5

LEMMA CheckStep ==
  ASSUME LockingInv, NEW t \in Call,
         Return(t) \/ OnBareEntry(t) \/ Sign(t) \/ Merge(t)
  PROVE  LockingInv'
<1>1. CASE Return(t)
  <2>1. Moves(t, "check", "unlock")
    BY <1>1, GoesMoves DEF Return, locks, entries, rest, unmoved, Points, Inside
  <2> QED
    BY <2>1, MovingStep DEF Deciding, HandingOver, Holding
<1>2. CASE OnBareEntry(t)
  <2>1. Moves(t, "check", "panicked") \/ Moves(t, "check", "ended")
    BY <1>2, GoesMoves DEF OnBareEntry, entries, rest, unmoved, Points
  <2> QED
    BY <2>1, MovingStep DEF Deciding, HandingOver, Holding
<1>3. ASSUME ~ Settled(t), pc[t] = "check"
      PROVE  lock[t.id] = t /\ t.id \notin delivered \cup invalidated
  BY <1>3 DEF Settled, LockingInv, Excluded, Holding
<1>4. CASE Sign(t)
  <2>1. Moves(t, "check", "verify")
    BY <1>4, GoesMoves DEF Sign, locks, rest, unmoved, Points, Inside
  <2>2. lock[t.id] = t /\ t.id \notin delivered \cup invalidated
    BY <1>3, <1>4 DEF Sign, Goes
  <2> QED
    BY <2>1, <2>2, MovingStep DEF Deciding
<1>5. CASE Merge(t)
  <2>1. Moves(t, "check", "signatures")
    BY <1>5, GoesMoves DEF Merge, locks, unmoved, Points, Inside
  <2>2. lock[t.id] = t /\ t.id \notin delivered \cup invalidated
    BY <1>3, <1>5 DEF Merge, Goes
  <2> QED
    BY <2>1, <2>2, MovingStep DEF Deciding
<1> QED
  BY <1>1, <1>2, <1>4, <1>5

LEMMA DecidingStep ==
  ASSUME LockingInv, NEW t \in Call,
         \/ Accept(t) \/ Reject(t) \/ ChallengeBallot(t) \/ NothingReady(t)
         \/ TakeShareLock(t) \/ Replay(t) \/ ReplayTakesIds(t)
         \/ ChallengeOwnShare(t)
  PROVE  LockingInv'
<1>1. CASE Accept(t)
  <2>1. Moves(t, "verify", "signatures")
    BY <1>1, GoesMoves DEF Accept, locks, unmoved, Points, Inside
  <2> QED
    BY <2>1, MovingStep DEF Deciding
<1>2. CASE Reject(t) \/ NothingReady(t)
  <2>1. Moves(t, "verify", "unlock") \/ Moves(t, "signatures", "unlock")
    BY <1>2, GoesMoves
    DEF Reject, NothingReady, locks, entries, rest, unmoved, Points, Inside
  <2> QED
    BY <2>1, MovingStep DEF Deciding, HandingOver, Holding
<1>3. ASSUME NEW from \in Deciding, NEW to \in Deciding, NEW c,
             FloodChallenge(t, from, to, c)
      PROVE  LockingInv'
  <2>1. pc \in [Call -> Points] /\ to \in Points
    BY DEF LockingInv, Typed, Deciding, Points, Inside
  <2>2. /\ pc[t] = from
        /\ pc' = [pc EXCEPT ![t] = to,
                            ![c] = IF @ = "absent" THEN "start" ELSE @]
        /\ UNCHANGED <<known, unmoved>>
    BY <1>3 DEF FloodChallenge, locks, entries, unmoved
  <2>3. \A u \in Call :
          pc'[u] = IF u = c /\ (IF u = t THEN to ELSE pc[u]) = "absent"
                   THEN "start" ELSE IF u = t THEN to ELSE pc[u]
    BY <2>1, <2>2
  <2>4. pc' \in [Call -> Points]
    BY <2>1, <2>2 DEF Points
  <2>5. t.id \in known /\ to # "absent"
    BY <2>2 DEF LockingInv, EntryFirst, Deciding
  <2>6. Moves(t, from, to)
    BY <2>2, <2>3, <2>4, <2>5 DEF Moves, unmoved
  <2> QED
    BY <2>6, MovingStep
<1>4. CASE ChallengeBallot(t)
  BY <1>3, <1>4 DEF ChallengeBallot, Deciding
<1>5. CASE ChallengeOwnShare(t)
  BY <1>3, <1>5 DEF ChallengeOwnShare, Deciding
<1>6. CASE TakeShareLock(t)
  <2>1. Moves(t, "handover", "send")
    BY <1>6, GoesMoves DEF TakeShareLock, entries, rest, unmoved, Points, Inside
  <2> QED
    BY <2>1, MovingStep DEF HandingOver
<1>7. CASE Replay(t)
  <2>1. Moves(t, "signatures", "replay")
    BY <1>7, GoesMoves DEF Replay, locks, entries, rest, unmoved, Points, Inside
  <2> QED
    BY <2>1, MovingStep DEF Deciding, HandingOver, Holding
<1>8. CASE ReplayTakesIds(t)
  <2>1. Moves(t, "replay", "replay")
    BY <1>8, GoesMoves DEF ReplayTakesIds, entries, rest, unmoved, Points, Inside
  <2> QED
    BY <2>1, MovingStep DEF Deciding, HandingOver, Holding
<1> QED
  BY <1>1, <1>2, <1>4, <1>5, <1>6, <1>7, <1>8

LEMMA LeavingStep ==
  ASSUME LockingInv, NEW t \in Call,
         \/ FirstRelease(t) \/ Unlock(t) \/ Resume(t) \/ Flood(t)
         \/ ChallengeKept(t) \/ ChallengeLeaksLock(t)
  PROVE  LockingInv'
<1>1. CASE FirstRelease(t)
  <2>1. Frees(t, "doubt", "again") /\ invalidated' = invalidated \cup {t.id}
    BY <1>1 DEF FirstRelease, Goes, Frees, rest
  <2> QED
    BY <2>1, FreeingStep DEF Points, Inside
<1>2. ASSUME NEW from \in Holding \cup {"again"},
             NEW to \in {"done", "flood", "delayed"}, Release(t, from, to)
      PROVE  LockingInv'
  <2>1. /\ Frees(t, from, to) \/ Frees(t, from, "ended")
        /\ UNCHANGED invalidated
    BY <1>2 DEF Release, Goes, Frees, entries, rest
  <2>2. to \in Points /\ "ended" \in Points
    BY DEF Points
  <2> QED
    BY <2>1, <2>2, FreeingStep
<1>3. CASE Unlock(t)
  BY <1>2, <1>3 DEF Unlock, Holding
<1>4. CASE Resume(t)
  BY <1>2, <1>4 DEF Resume, Holding
<1>5. CASE Flood(t)
  <2>1. Moves(t, "flood", "done")
    BY <1>5, GoesMoves DEF Flood, locks, entries, unmoved, Points
  <2> QED
    BY <2>1, MovingStep DEF Deciding, HandingOver, Holding
<1>6. CASE ChallengeKept(t)
  <2>1. Moves(t, "find", "unlock")
    BY <1>6, GoesMoves DEF ChallengeKept, locks, rest, unmoved, Points, Inside
  <2> QED
    BY <2>1, MovingStep DEF Deciding, HandingOver, Holding
<1>7. CASE ChallengeLeaksLock(t)
  <2>1. Moves(t, "find", "leaked")
    BY <1>7, GoesMoves DEF ChallengeLeaksLock, locks, rest, unmoved, Points
  <2> QED
    BY <2>1, MovingStep DEF Deciding, HandingOver, Holding
<1> QED
  BY <1>1, <1>3, <1>4, <1>5, <1>6, <1>7

LEMMA LockingInvNext == LockingInv /\ [Next]_vars => LockingInv'
<1> SUFFICES ASSUME LockingInv, [Next]_vars PROVE LockingInv'
  OBVIOUS
<1>1. ASSUME UNCHANGED <<pc, known, unmoved>> PROVE LockingInv'
  BY <1>1
  DEF LockingInv, Typed, EntryFirst, Excluded, HandedOverOnce, unmoved
<1>2. CASE AddShare
  BY <1>1, <1>2 DEF AddShare, entries, rest, unmoved
<1>3. ASSUME NEW t \in Call, Step(t) PROVE LockingInv'
  <2>1. CASE Stick(t)
    BY <1>1, <2>1 DEF Stick, locks, entries, unmoved
  <2>2. CASE Invalidate(t) \/ Deliver(t) \/ SendShare(t)
    BY <2>2, InvalidateStep, DeliverStep, SendShareStep
  <2> QED
    BY <1>3, <2>1, <2>2, LookUpStep, CheckStep, DecidingStep, LeavingStep DEF Step
<1>4. CASE UNCHANGED vars
  BY <1>1, <1>4 DEF vars, locks, entries, rest, unmoved
<1> QED
  BY <1>2, <1>3, <1>4 DEF Next

(* However the handlers, the two releases and addShare interleave, the     *)
(* tally gets one ballot of an id at most, once, and none of an id that is *)
(* invalidated.                                                            *)
THEOREM OneHandover == Spec => []HandedOverOnce
<1>1. LockingInv => HandedOverOnce
  BY DEF LockingInv
<1> QED
  BY <1>1, LockingInvInit, LockingInvNext, PTL DEF Spec

-----------------------------------------------------------------------------
(* Sections: what a call does in an entry while it has its lock.           *)

(* Before a call has done anything in the entry. *)
Early == {"absent", "start", "wait", "check"}

(* In the entry and with its lock, for good or not. *)
Holds == (Inside \ {"again"}) \cup {"resume", "leaked", "panicked"}

(* A call between its lock and its unlock has the lock, and a call between *)
(* two releases is the only one of that entry.                             *)
Alone ==
  /\ \A i \in EntryId : lock[i] # None => lock[i].id = i
  /\ \A t \in Call : pc[t] \in Holds => lock[t.id] = t
  /\ \A t, u \in Call : pc[t] = "again" =>
       /\ lock[t.id] = None
       /\ pc[u] = "again" /\ u.id = t.id => u = t

(* A stored struct is one of a call that came so far, of that ballot; the  *)
(* own signature is in a list only if the ballot was posted.               *)
Structs ==
  /\ stored \in [Ballot -> Call \cup {None}]
  /\ sigs \in [Call -> SUBSET Server]
  /\ \A b \in Ballot : stored[b] # None =>
       stored[b].ballot = b /\ pc[stored[b]] \notin Early
  /\ \A t \in Call : pc[t] \in Early => sigs[t] = {}
  /\ \A b \in Ballot : Here \in List(b) =>
       PostOf(b) \in Call /\ pc[PostOf(b)] \notin Early

(* What is recorded under an id, and who holds receiverIdsLock.  A lock is *)
(* never lost in an entry that is invalidated.                             *)
Recorded ==
  /\ seen \in [VoteId -> SUBSET Server] /\ challenges \subseteq Call
  /\ bare \cup delivered \cup invalidated \subseteq known
  /\ delivered \cup invalidated \subseteq VoteId
  /\ \A i \in EntryId : Lost(i) => i \notin invalidated
  /\ ids \in Call \cup {None}
  /\ \A t \in Call : pc[t] = "wait" => ids = t
  /\ \A t \in Call :
       pc[t] \in Early \cup {"verify", "invalidate", "find"} => t \notin tells

(* Once a call waits for ever, those that are in an entry do as well.      *)
NobodyReturns ==
  stuck # None =>
    /\ stuck \in Call /\ pc[stuck] \in {"wait", "replay"}
    /\ ids \in Call /\ WaitsForEver(ids)
    /\ \A u \in Call : pc[u] \in Inside => Replays(u)

(* A challenge of the server's own is not looked up before it is shown.    *)
OwnCalls ==
  /\ AllFlooded \subseteq flooded /\ flooded \subseteq OwnChallenges
  /\ \A c \in OwnChallenges :
       /\ c \in flooded => pc[c] # "absent"
       /\ c \notin AllFlooded => pc[c] \in {"absent", "start"}

(* What an entry may hold. *)
ViewType(i) ==
  [known : BOOLEAN, bare : BOOLEAN, delivered : BOOLEAN, invalidated : BOOLEAN,
   received : SUBSET {b \in Ballot : IdOf[b] = i}, seen : SUBSET Server,
   pending : SUBSET {c \in Call : c.id = i},
   lists : [Ballot -> SUBSET Server], tally : [Ballot -> Nat],
   flooded : SUBSET {c \in OwnChallenges : IdOf[c.ballot] = i}]

(* An entry is shown as it is while nobody is in it.                       *)
Shown ==
  /\ shown = [i \in EntryId |-> shown[i]]
  /\ \A i \in EntryId :
       /\ shown[i] \in ViewType(i)
       /\ ~ Occupied(i) => shown[i] = View(i)
       /\ shown[i].flooded # {} => shown[i].invalidated

-----------------------------------------------------------------------------
(* What a call has made of an entry, of which s was shown and V is there.  *)

(* The entry is there, with these verdicts. *)
Decided(V, s, de, inv) ==
  /\ V.known
  /\ V.bare <=> s.bare
  /\ V.delivered <=> de
  /\ V.invalidated <=> inv

(* No signature came.  Nothing else changed, or only a challenge went out. *)
SameLists(V, s) ==
  V.received = s.received /\ V.seen = s.seen /\ V.lists = s.lists

SameOthers(V, s) ==
  V.pending = s.pending /\ V.tally = s.tally /\ V.flooded = s.flooded

Flooding(V, s, c) ==
  V.pending = s.pending /\ V.tally = s.tally /\ V.flooded = s.flooded \cup {c}

Undecided(s) == ~ s.bare /\ ~ s.delivered /\ ~ s.invalidated

(* The signatures A of b were added; the server's own one, before it looks *)
(* at the share.                                                           *)
Listed(V, s, b, A) ==
  /\ V.received = s.received \cup {b}
  /\ V.lists = [s.lists EXCEPT ![b] = @ \cup A]

Signed(t, V, s) ==
  /\ t.kind = "post" /\ Here \notin s.lists[t.ballot]
  /\ Undecided(s)
  /\ Listed(V, s, t.ballot, {Here}) /\ V.seen = s.seen

(* The signatures a call adds, and counts as seen: Taken says that it did. *)
Adds(t, s) ==
  IF t.kind = "post" THEN {Here} ELSE t.from \ (s.seen \cup s.lists[t.ballot])

Taken(t, V, s, told) ==
  /\ t.kind \in {"post", "share"}
  /\ t.kind = "post" => Verifies(t.ballot) /\ Here \notin s.lists[t.ballot]
  /\ Undecided(s)
  /\ Listed(V, s, t.ballot, Adds(t, s)) /\ V.seen = s.seen \cup Adds(t, s)
  /\ told <=> Adds(t, s) # {}

ReadyIn(V) == {b \in V.received : Enough(V.lists[b])}

(* The ways to the end of a section. *)
Returns(t, V, s, told) ==
  /\ t.kind # "challenge" /\ ~ told
  /\ s.known /\ (s.delivered \/ s.invalidated)
  /\ Decided(V, s, s.delivered, s.invalidated) /\ SameLists(V, s) /\ SameOthers(V, s)

Rejects(t, V, s, told) ==
  /\ Signed(t, V, s) /\ ~ told
  /\ ~ Verifies(t.ballot) /\ ~ Enough(V.lists[t.ballot])
  /\ Decided(V, s, FALSE, FALSE) /\ SameOthers(V, s)

Challenges(t, V, s, told) ==
  /\ Signed(t, V, s) /\ ~ told
  /\ ~ Verifies(t.ballot) /\ Enough(V.lists[t.ballot])
  /\ Decided(V, s, FALSE, TRUE) /\ Flooding(V, s, ChallengeOf(t.id, t.ballot, Here))

FindsNone(t, V, s, told) ==
  /\ Taken(t, V, s, told) /\ ReadyIn(V) = {}
  /\ Decided(V, s, FALSE, FALSE) /\ SameOthers(V, s)

Delivers(t, V, s, told) ==
  /\ Taken(t, V, s, told) /\ s.pending = {}
  /\ Decided(V, s, TRUE, FALSE)
  /\ V.pending = s.pending /\ V.flooded = s.flooded
  /\ \E c \in ReadyIn(V) :
       Verifies(c) /\ V.tally = [s.tally EXCEPT ![c] = @ + 1]

Keeps(t, V, s, told) ==
  /\ t.kind = "challenge" /\ ~ told
  /\ s.known /\ ~ s.invalidated /\ t.ballot \notin s.received
  /\ Decided(V, s, s.delivered, FALSE) /\ SameLists(V, s)
  /\ V.pending = s.pending \cup {t} /\ V.tally = s.tally /\ V.flooded = s.flooded

(* At each point of it. *)
Section(t, p, V, s, told, list, pick) ==
  /\ p = "check" =>
       /\ t.kind # "challenge"
       /\ (s.bare \/ s.delivered \/ s.invalidated) => s.known
       /\ Decided(V, s, s.delivered, s.invalidated)
       /\ SameLists(V, s) /\ SameOthers(V, s)
  /\ p = "find" =>
       /\ t.kind = "challenge" /\ s.known /\ ~ s.invalidated
       /\ Decided(V, s, s.delivered, s.invalidated)
       /\ SameLists(V, s) /\ SameOthers(V, s)
  /\ p = "verify" =>
       /\ Signed(t, V, s) /\ Decided(V, s, FALSE, FALSE) /\ SameOthers(V, s)
       /\ list = V.lists[t.ballot]
  /\ p = "invalidate" =>
       /\ Signed(t, V, s) /\ Decided(V, s, FALSE, FALSE)
       /\ ~ Verifies(t.ballot) /\ Enough(V.lists[t.ballot])
       /\ Flooding(V, s, ChallengeOf(t.id, t.ballot, Here))
  /\ p \in {"signatures", "replay"} =>
       Taken(t, V, s, told) /\ Decided(V, s, FALSE, FALSE) /\ SameOthers(V, s)
  /\ p = "replay" =>
       s.pending # {} /\ \E c \in ReadyIn(V) : Verifies(c)
  /\ p \in {"handover", "send"} =>
       /\ Taken(t, V, s, told) /\ Decided(V, s, TRUE, FALSE) /\ SameOthers(V, s)
       /\ s.pending = {} /\ pick \in ReadyIn(V) /\ Verifies(pick)
  /\ p \in {"doubt", "again"} =>
       /\ Taken(t, V, s, told) /\ Decided(V, s, FALSE, p = "again")
       /\ \E c \in ReadyIn(V) : ~ Verifies(c) /\ Flooding(V, s, ChallengeOf(NilId, c, Here))
  /\ p = "unlock" =>
       \/ Returns(t, V, s, told) \/ Rejects(t, V, s, told) \/ Challenges(t, V, s, told)
       \/ FindsNone(t, V, s, told) \/ Delivers(t, V, s, told) \/ Keeps(t, V, s, told)

(* Each call that is in an entry, at the point where it is. *)
Progress(t) ==
  Section(t, pc[t], View(t.id), shown[t.id], t \in tells, sigs[t], chosen[t])

Sections == \A t \in Call : pc[t] \in Inside /\ t # stuck => Progress(t)

(* The invariant holds until a call overtakes or the process ends.         *)
Undisturbed == up /\ ~ overtaken

Core ==
  Alone /\ Structs /\ Recorded /\ NobodyReturns /\ OwnCalls /\ Shown /\ Sections

SectionInv == LockingInv /\ (Undisturbed => Core)

Now == LockingInv /\ Core /\ Undisturbed

-----------------------------------------------------------------------------
(* The calls.                                                              *)

LEMMA PostShape ==
  ASSUME NEW t \in Call, t.kind = "post"
  PROVE  t = PostOf(t.ballot) /\ t.id = IdOf[t.ballot]
BY CallShapes DEF PostOf, ShareOf, ChallengeOf

LEMMA ShareShape ==
  ASSUME NEW t \in Call, t.kind = "share"
  PROVE  t.id = IdOf[t.ballot] /\ t.from \subseteq Server \ {Here}
BY CallShapes DEF PostOf, ShareOf, ChallengeOf

LEMMA BallotIds ==
  ASSUME NEW t \in Call, t.kind # "challenge"
  PROVE  t.id = IdOf[t.ballot] /\ t.id \in VoteId /\ t.id # NilId
BY PostShape, ShareShape, CallsTyped, HandlerLockingAssumption

LEMMA ChallengeShape ==
  ASSUME NEW t \in Call, t.kind = "challenge"
  PROVE  \E v \in Server : /\ t = ChallengeOf(t.id, t.ballot, v)
                           /\ v = Here <=> t \in OwnChallenges
BY CallShapes DEF PostOf, ShareOf, ChallengeOf

LEMMA OwnShape ==
  ASSUME NEW c \in OwnChallenges
  PROVE  /\ c \in Call /\ c.kind = "challenge" /\ c = ChallengeOf(c.id, c.ballot, Here)
         /\ c.id \in {IdOf[c.ballot], NilId}
BY DEF OwnChallenges, Call, ChallengeOf

LEMMA OwnMade ==
  ASSUME NEW b \in Ballot, NEW i \in {IdOf[b], NilId}
  PROVE  ChallengeOf(i, b, Here) \in OwnChallenges
<1>1. i \in EntryId /\ IdOf[b] \in VoteId
  BY HandlerLockingAssumption DEF EntryId
<1> QED
  BY <1>1 DEF OwnChallenges, ChallengeOf

(* What a challenge is to VoteDelivery. *)
LEMMA ChallengeMapped ==
  ASSUME NEW i, NEW b, NEW v
  PROVE  LET c == AsChallenge(ChallengeOf(i, b, v))
         IN  /\ c = [id |-> i, ballot |-> b, sender |-> v]
             /\ c.id = i /\ c.ballot = b /\ c.sender = v
BY DEF AsChallenge, ChallengeOf

LEMMA ChallengesApart ==
  ASSUME NEW c \in Call, NEW d \in Call, c.kind = "challenge", d.kind = "challenge",
         AsChallenge(c) = AsChallenge(d)
  PROVE  c = d
<1>1. PICK v : c = ChallengeOf(c.id, c.ballot, v)
  BY ChallengeShape
<1>2. PICK w : d = ChallengeOf(d.id, d.ballot, w)
  BY ChallengeShape
<1>3. AsChallenge(c).id = c.id /\ AsChallenge(c).ballot = c.ballot /\ AsChallenge(c).sender = v
  BY <1>1, ChallengeMapped
<1>4. AsChallenge(d).id = d.id /\ AsChallenge(d).ballot = d.ballot /\ AsChallenge(d).sender = w
  BY <1>2, ChallengeMapped
<1>5. c.id = d.id /\ c.ballot = d.ballot /\ v = w
  BY <1>3, <1>4
<1>6. ChallengeOf(c.id, c.ballot, v) = ChallengeOf(d.id, d.ballot, w)
  BY <1>5
<1> QED
  BY <1>1, <1>2, <1>6

-----------------------------------------------------------------------------
(* Entries.                                                                *)

(* What is in the entry of i is what is recorded under i. *)
LEMMA ViewKept ==
  ASSUME NEW i,
         i \in known <=> i \in known', i \in bare <=> i \in bare',
         i \in delivered <=> i \in delivered', i \in invalidated <=> i \in invalidated',
         i # NilId => seen'[i] = seen[i],
         Pending(i)' = Pending(i),
         \A b \in Ballot : IdOf[b] = i =>
           /\ stored'[b] = None <=> stored[b] = None
           /\ List(b)' = List(b)
           /\ tally'[b] = tally[b],
         \A c : IdOf[c.ballot] = i => (c \in flooded' <=> c \in flooded)
  PROVE  View(i)' = View(i)
<1>1. Received(i)' = Received(i)
  BY DEF Received
<1>2. [b \in Ballot |-> IF IdOf[b] = i THEN List(b) ELSE {}]'
        = [b \in Ballot |-> IF IdOf[b] = i THEN List(b) ELSE {}]
  OBVIOUS
<1>3. [b \in Ballot |-> IF IdOf[b] = i THEN tally[b] ELSE 0]'
        = [b \in Ballot |-> IF IdOf[b] = i THEN tally[b] ELSE 0]
  OBVIOUS
<1>4. {c \in flooded : IdOf[c.ballot] = i}' = {c \in flooded : IdOf[c.ballot] = i}
  OBVIOUS
<1>5. /\ (i \in known) = (i \in known') /\ (i \in bare) = (i \in bare')
      /\ (i \in delivered) = (i \in delivered')
      /\ (i \in invalidated) = (i \in invalidated')
  OBVIOUS
<1> QED
  BY <1>1, <1>2, <1>3, <1>4, <1>5 DEF View

LEMMA ViewFields ==
  ASSUME NEW i \in EntryId
  PROVE  /\ View(i).known <=> i \in known
         /\ View(i).bare <=> i \in bare
         /\ View(i).delivered <=> i \in delivered
         /\ View(i).invalidated <=> i \in invalidated
         /\ View(i).received = Received(i)
         /\ View(i).pending = Pending(i)
         /\ View(i).seen = IF i = NilId THEN {} ELSE seen[i]
         /\ View(i).lists = [b \in Ballot |-> IF IdOf[b] = i THEN List(b) ELSE {}]
         /\ View(i).tally = [b \in Ballot |-> IF IdOf[b] = i THEN tally[b] ELSE 0]
         /\ View(i).flooded = {c \in flooded : IdOf[c.ballot] = i}
BY DEF View

-----------------------------------------------------------------------------
(* Who moves.                                                              *)

(* Only the call itself, and a challenge it floods. *)
OneMoves(t) ==
  /\ \A u \in Call \ {t} :
       pc'[u] = pc[u] \/ (u \in OwnChallenges /\ pc[u] = "absent" /\ pc'[u] = "start")
  /\ pc'[t] \in Early => pc[t] \in Early
  /\ pc'[t] # "absent" /\ pc'[t] # "start"

LEMMA GoesMovesOne ==
  ASSUME Typed, NEW t \in Call, NEW from, NEW to \in Points \ {"absent", "start"},
         Goes(t, from, to), to \in Early => from \in Early
  PROVE  OneMoves(t) /\ pc[t] = from /\ pc'[t] = to
BY DEF Goes, OneMoves, Typed

LEMMA FloodMovesOne ==
  ASSUME Typed, NEW t \in Call, NEW from, NEW to \in Inside \ {"check"},
         NEW c \in OwnChallenges, FloodChallenge(t, from, to, c), t.kind # "challenge"
  PROVE  OneMoves(t) /\ pc[t] = from /\ pc'[t] = to /\ pc'[c] # "absent"
<1>1. c \in Call /\ c # t
  BY OwnShape
<1> QED
  BY <1>1 DEF FloodChallenge, OneMoves, Typed, Early, Inside

LEMMA StuckStays ==
  ASSUME Now, NEW t \in Call, stuck # None,
         pc[t] \in Inside \/ pc[t] \in {"start", "wait"}
  PROVE  /\ ids # None
         /\ pc[t] \in Inside => pc[t] = "replay"
         /\ pc[t] = "wait" => lock[t.id] # None
<1>1. /\ ids \in Call /\ WaitsForEver(ids)
      /\ \A u \in Call : pc[u] \in Inside => Replays(u)
      /\ pc[t] = "wait" => ids = t
  BY DEF Now, Core, NobodyReturns, Recorded
<1>2. ids # None
  BY <1>1, CallsTyped
<1>3. pc[t] = "wait" => lock[t.id] # None
  BY <1>1 DEF WaitsForEver, Lost, Replays
<1> QED
  BY <1>1, <1>2, <1>3 DEF Replays

(* A handler at a point of its section has made the section's progress. *)
LEMMA AtWork ==
  ASSUME Now, NEW t \in Call, pc[t] \in Inside \ {"replay"}
  PROVE  /\ t # stuck /\ stuck = None
         /\ Progress(t)
<1>1. stuck = None
  BY DEF Now, Core, NobodyReturns, Replays
<1>2. t # stuck
  BY <1>1, CallsTyped
<1> QED
  BY <1>1, <1>2 DEF Now, Core, Sections

(* The kinds of calls at these points. *)
LEMMA KindAt ==
  ASSUME Now, NEW t \in Call
  PROVE  /\ pc[t] = "verify" => t.kind = "post"
         /\ pc[t] = "invalidate" => t.kind = "post"
         /\ pc[t] \in {"signatures", "handover", "send", "doubt", "again"}
              => t.kind \in {"post", "share"}
         /\ pc[t] = "check" => t.kind # "challenge"
         /\ pc[t] = "find" => t.kind = "challenge"
<1>1. ASSUME pc[t] \in Inside \ {"replay"} PROVE Progress(t)
  BY <1>1, AtWork
<1> QED
  BY <1>1 DEF Progress, Section, Signed, Taken, Inside

-----------------------------------------------------------------------------
(* The steps inside an entry that keep its lock.                           *)
Working(t) ==
  \/ Return(t) \/ Sign(t) \/ Accept(t) \/ Reject(t) \/ ChallengeBallot(t)
  \/ Invalidate(t) \/ Merge(t) \/ NothingReady(t) \/ Deliver(t) \/ TakeShareLock(t)
  \/ SendShare(t) \/ Replay(t) \/ ReplayTakesIds(t) \/ ChallengeOwnShare(t)
  \/ ChallengeKept(t)

(* Such a step goes from one point inside to another, and leaves alone all *)
(* locks but receiverIdsLock.                                              *)
Works(t) ==
  /\ OneMoves(t)
  /\ pc[t] \in Inside \ {"again"} /\ pc'[t] \in Inside \ {"again", "check", "find"}
  /\ pc'[t] \in {"verify", "invalidate", "find"} => pc[t] \in {"check", "verify", "invalidate"}
  /\ ids' \in {ids, t} /\ (ids' # ids => ids = None /\ pc'[t] = "replay")
  /\ UNCHANGED <<lock, up, stuck, overtaken, known, bare>>
  /\ stuck # None => ids' = ids

LEMMA WorkingWorks ==
  ASSUME Now, NEW t \in Call, Working(t)
  PROVE  Works(t)
<1> USE DEF Works
<1>t. Typed
  BY DEF Now, LockingInv
<1>p. Inside \ {"check"} \subseteq Points \ {"absent", "start"}
  BY DEF Inside, Points
<1>1. CASE Return(t)
  BY <1>1, <1>t, <1>p, GoesMovesOne DEF Return, locks, rest, entries, Early, Inside
<1>2. CASE Sign(t)
  BY <1>2, <1>t, <1>p, GoesMovesOne DEF Sign, locks, rest, Early, Inside
<1>3. CASE Accept(t)
  BY <1>3, <1>t, <1>p, GoesMovesOne DEF Accept, locks, Early, Inside
<1>4. CASE Reject(t)
  BY <1>4, <1>t, <1>p, GoesMovesOne DEF Reject, locks, rest, entries, Early, Inside
<1>5. CASE ChallengeBallot(t)
  <2>1. FloodChallenge(t, "verify", "invalidate", ChallengeOf(t.id, t.ballot, Here))
    BY <1>5 DEF ChallengeBallot
  <2>2. t.kind = "post"
    BY <2>1, KindAt DEF FloodChallenge
  <2>3. ChallengeOf(t.id, t.ballot, Here) \in OwnChallenges
    BY <2>2, PostShape, CallsTyped, OwnMade
  <2>4. OneMoves(t) /\ pc[t] = "verify" /\ pc'[t] = "invalidate"
    BY <1>t, <2>1, <2>2, <2>3, FloodMovesOne DEF Inside
  <2> QED
    BY <2>1, <2>4 DEF FloodChallenge, locks, entries, Inside
<1>6. CASE Invalidate(t)
  BY <1>6, <1>t, <1>p, GoesMovesOne DEF Invalidate, locks, rest, Early, Inside
<1>7. CASE Merge(t)
  BY <1>7, <1>t, <1>p, GoesMovesOne DEF Merge, locks, Early, Inside
<1>8. CASE NothingReady(t)
  BY <1>8, <1>t, <1>p, GoesMovesOne DEF NothingReady, locks, rest, entries, Early, Inside
<1>9. CASE Deliver(t)
  BY <1>9, <1>t, <1>p, GoesMovesOne DEF Deliver, locks, Early, Inside
<1>10. CASE TakeShareLock(t)
  BY <1>10, <1>t, <1>p, GoesMovesOne DEF TakeShareLock, rest, entries, Early, Inside
<1>11. CASE SendShare(t)
  BY <1>11, <1>t, <1>p, GoesMovesOne DEF SendShare, entries, Early, Inside
<1>12. CASE Replay(t)
  BY <1>12, <1>t, <1>p, GoesMovesOne DEF Replay, locks, rest, entries, Early, Inside
<1>13. CASE ReplayTakesIds(t)
  <2>1. stuck # None => ids # None
    BY <1>13, StuckStays DEF ReplayTakesIds, Goes, Inside
  <2> QED
    BY <1>13, <2>1, <1>t, <1>p, GoesMovesOne DEF ReplayTakesIds, rest, entries, Early, Inside
<1>14. CASE ChallengeOwnShare(t)
  <2>1. PICK b \in Ready(t.id) :
          FloodChallenge(t, "signatures", "doubt", ChallengeOf(NilId, b, Here))
    BY <1>14 DEF ChallengeOwnShare
  <2>2. t.kind # "challenge"
    BY <2>1, KindAt DEF FloodChallenge
  <2>3. ChallengeOf(NilId, b, Here) \in OwnChallenges
    BY OwnMade DEF Ready, Received
  <2>4. OneMoves(t) /\ pc[t] = "signatures" /\ pc'[t] = "doubt"
    BY <1>t, <2>1, <2>2, <2>3, FloodMovesOne DEF Inside
  <2> QED
    BY <2>1, <2>4 DEF FloodChallenge, locks, entries, Inside
<1>15. CASE ChallengeKept(t)
  BY <1>15, <1>t, <1>p, GoesMovesOne DEF ChallengeKept, locks, rest, Early, Inside
<1> QED
  BY <1>1, <1>2, <1>3, <1>4, <1>5, <1>6, <1>7, <1>8, <1>9, <1>10, <1>11, <1>12,
     <1>13, <1>14, <1>15 DEF Working

-----------------------------------------------------------------------------
(* Nobody else is in an entry.                                             *)

LEMMA OneInside ==
  ASSUME Now, NEW t \in Call, NEW u \in Call, u.id = t.id,
         pc[t] \in Inside \cup {"resume"}, pc[u] \in Inside \cup Holds
  PROVE  u = t
<1>1. t # None /\ u # None
  BY CallsTyped
<1>2. /\ pc[t] # "again" => lock[t.id] = t
      /\ pc[u] # "again" => lock[t.id] = u
      /\ pc[t] = "again" => lock[t.id] = None /\ (pc[u] = "again" => u = t)
      /\ pc[u] = "again" => lock[t.id] = None
  BY DEF Now, Core, Alone, Holds
<1> QED
  BY <1>1, <1>2

(* The steps of calls that take or leave the lock of an entry. *)
Arrives(t) ==
  /\ OneMoves(t)
  /\ pc[t] \in {"start", "wait", "delayed"} /\ pc'[t] \in {"check", "find", "resume"}
  /\ lock[t.id] = None /\ lock' = [lock EXCEPT ![t.id] = t]
  /\ \A u \in Call : u.id = t.id => pc[u] # "again"

Leaves(t) ==
  /\ OneMoves(t)
  /\ pc[t] \in {"unlock", "resume"} /\ pc'[t] \in {"done", "flood", "delayed"}
  /\ lock' = [lock EXCEPT ![t.id] = None]

Stays(t) ==
  /\ OneMoves(t)
  /\ UNCHANGED lock
  /\ pc'[t] \in Holds => pc[t] \in Holds
  /\ pc'[t] # "again"

Releases(t) ==
  /\ OneMoves(t)
  /\ pc[t] = "doubt" /\ pc'[t] = "again"
  /\ lock' = [lock EXCEPT ![t.id] = None]

LEMMA AloneKept ==
  ASSUME Now, NEW t \in Call, Arrives(t) \/ Leaves(t) \/ Stays(t) \/ Releases(t)
  PROVE  Alone'
<1>t. /\ lock \in [EntryId -> Call \cup {None}] /\ t.id \in EntryId /\ Alone
      /\ \A u \in Call : u.id \in EntryId
  BY CallsTyped DEF Now, Core, LockingInv, Typed
<1>o. \A u \in Call \ {t} :
        /\ pc'[u] \in Holds => pc[u] \in Holds
        /\ pc'[u] = "again" => pc[u] = "again"
  BY DEF Arrives, Leaves, Stays, Releases, OneMoves, Holds, Inside
<1>i. \A i \in EntryId : lock'[i] # None => lock'[i].id = i
  BY <1>t DEF Arrives, Leaves, Stays, Releases, Alone
<1>1. CASE Arrives(t)
  <2>1. ASSUME NEW u \in Call, pc'[u] \in Holds PROVE lock'[u.id] = u
    BY <1>1, <1>t, <1>o, <2>1, CallsTyped DEF Arrives, Alone
  <2>2. ASSUME NEW u \in Call, pc'[u] = "again" PROVE u # t /\ u.id # t.id /\ pc[u] = "again"
    BY <1>1, <1>o, <2>2 DEF Arrives
  <2>3. ASSUME NEW u \in Call, pc'[u] = "again" PROVE lock'[u.id] = None
    BY <1>1, <1>t, <2>2, <2>3 DEF Arrives, Alone
  <2> QED
    BY <1>t, <1>i, <2>1, <2>2, <2>3 DEF Alone
<1>2. CASE Leaves(t)
  <2>1. lock[t.id] = t /\ pc'[t] \notin Holds /\ pc'[t] # "again"
    BY <1>2, <1>t DEF Leaves, Alone, Holds, Inside
  <2>2. ASSUME NEW u \in Call, pc'[u] \in Holds PROVE lock'[u.id] = u
    <3>1. u # t /\ lock[u.id] = u
      BY <1>t, <1>o, <2>1, <2>2 DEF Alone
    <3> QED
      BY <1>2, <1>t, <2>1, <3>1 DEF Leaves
  <2>3. ASSUME NEW u \in Call, pc'[u] = "again" PROVE lock'[u.id] = None /\ pc[u] = "again"
    BY <1>2, <1>t, <1>o, <2>1, <2>3 DEF Leaves, Alone
  <2> QED
    BY <1>t, <1>i, <2>2, <2>3 DEF Alone
<1>3. CASE Stays(t)
  <2>1. \A u \in Call : pc'[u] = "again" => pc[u] = "again"
    BY <1>3, <1>o DEF Stays
  <2>2. \A u \in Call : pc'[u] \in Holds => pc[u] \in Holds
    BY <1>3, <1>o DEF Stays
  <2> QED
    BY <1>3, <1>t, <1>i, <2>1, <2>2 DEF Stays, Alone
<1>4. CASE Releases(t)
  <2>1. lock[t.id] = t /\ pc'[t] \notin Holds
    BY <1>4, <1>t DEF Releases, Alone, Holds, Inside
  <2>2. ASSUME NEW u \in Call, pc'[u] \in Holds PROVE lock'[u.id] = u
    <3>1. u # t /\ lock[u.id] = u
      BY <1>t, <1>o, <2>1, <2>2 DEF Alone
    <3> QED
      BY <1>4, <1>t, <2>1, <3>1 DEF Releases
  <2>3. ASSUME NEW u \in Call, pc'[u] = "again" PROVE lock'[u.id] = None
    BY <1>4, <1>t, <1>o, <2>3 DEF Releases, Alone
  <2>4. ASSUME NEW u \in Call, pc'[u] = "again", u.id = t.id PROVE u = t
    BY <1>t, <1>o, <2>1, <2>4, CallsTyped DEF Alone
  <2>5. ASSUME NEW u \in Call, NEW v \in Call, pc'[u] = "again", pc'[v] = "again",
               v.id = u.id
        PROVE  v = u
    BY <1>t, <1>o, <2>4, <2>5 DEF Alone
  <2> QED
    BY <1>i, <2>2, <2>3, <2>5 DEF Alone
<1> QED
  BY <1>1, <1>2, <1>3, <1>4

(* What the other steps do to the locks. *)
LEMMA ArrivingArrives ==
  ASSUME Now, NEW t \in Call, Create(t) \/ TakeLock(t) \/ Delayed(t), Undisturbed'
  PROVE  Arrives(t)
<1> USE DEF Arrives
<1>t. Typed /\ EntryFirst /\ t.id \in EntryId /\ ~ overtaken'
  BY CallsTyped DEF Now, LockingInv, Undisturbed
<1>1. CASE Create(t)
  <2>1. lock[t.id] = None /\ \A u \in Call : u.id = t.id => pc[u] # "again"
    BY <1>1, <1>t DEF Create, EntryFirst
  <2> QED
    BY <1>1, <1>t, <2>1, GoesMovesOne DEF Create, LookUp, Points, Inside, Early
<1>2. CASE TakeLock(t)
  <2>1. \A u \in Call : u.id = t.id => pc[u] # "again"
    BY <1>2, <1>t DEF TakeLock, Overtakes
  <2> QED
    BY <1>2, <1>t, <2>1, GoesMovesOne DEF TakeLock, Points, Inside, Early
<1>3. CASE Delayed(t)
  <2>1. \A u \in Call : u.id = t.id => pc[u] # "again"
    BY <1>3, <1>t DEF Delayed, Overtakes
  <2> QED
    BY <1>3, <1>t, <2>1, GoesMovesOne DEF Delayed, Points, Inside, Early
<1> QED
  BY <1>1, <1>2, <1>3

LEMMA UnlockingLeaves ==
  ASSUME Now, NEW t \in Call, Unlock(t), Undisturbed'
  PROVE  /\ Leaves(t) /\ pc[t] = "unlock"
         /\ pc'[t] = IF ~ Tells(t) THEN "done"
                     ELSE IF t.kind = "post" THEN "flood" ELSE "delayed"
<1>t. Typed /\ t.id \in EntryId /\ t # None
  BY CallsTyped DEF Now, LockingInv
<1>1. PICK from \in {"unlock", "again"} :
        Release(t, from, IF ~ Tells(t) THEN "done"
                         ELSE IF t.kind = "post" THEN "flood" ELSE "delayed")
  BY DEF Unlock
<1>2. lock[t.id] # None /\ pc[t] = from
  BY <1>1 DEF Release, Goes, Undisturbed
<1>3. from = "unlock"
  BY <1>2 DEF Now, Core, Alone
<1> QED
  BY <1>1, <1>2, <1>3, <1>t, GoesMovesOne DEF Release, Leaves, Points, Inside, Early

LEMMA ResumingLeaves ==
  ASSUME Now, NEW t \in Call, Resume(t), Undisturbed'
  PROVE  Leaves(t) /\ pc[t] = "resume" /\ pc'[t] = "flood"
<1>t. Typed /\ t.id \in EntryId /\ t # None
  BY CallsTyped DEF Now, LockingInv
<1>1. Release(t, "resume", "flood")
  BY DEF Resume
<1>2. lock[t.id] # None
  BY <1>1 DEF Release, Undisturbed
<1> QED
  BY <1>1, <1>2, <1>t, GoesMovesOne DEF Release, Leaves, Points, Inside, Early

LEMMA FirstReleaseReleases ==
  ASSUME Now, NEW t \in Call, FirstRelease(t)
  PROVE  Releases(t)
<1>t. Typed
  BY DEF Now, LockingInv
<1> QED
  BY <1>t, GoesMovesOne DEF FirstRelease, Releases, Points, Inside, Early

(* The steps that leave the locks of entries alone, some of them lost. *)
Waiting(t) ==
  \/ Found(t) \/ ChallengeIgnored(t) \/ ChallengeUnknownId(t) \/ OnBareEntry(t)
  \/ Flood(t) \/ ChallengeLeaksLock(t) \/ Stick(t)

LEMMA WaitingStays ==
  ASSUME Now, NEW t \in Call, Waiting(t)
  PROVE  Stays(t)
<1> USE DEF Stays, Holds
<1>t. Typed
  BY DEF Now, LockingInv
<1>1. CASE Found(t)
  BY <1>1, <1>t, GoesMovesOne DEF Found, LookUp, Points, Inside, Early
<1>2. CASE ChallengeIgnored(t)
  BY <1>2, <1>t, GoesMovesOne DEF ChallengeIgnored, LookUp, locks, Points, Inside, Early
<1>3. CASE ChallengeUnknownId(t)
  BY <1>3, <1>t, GoesMovesOne DEF ChallengeUnknownId, LookUp, locks, Points, Inside, Early
<1>4. CASE OnBareEntry(t)
  BY <1>4, <1>t, GoesMovesOne DEF OnBareEntry, Points, Inside, Early
<1>5. CASE Flood(t)
  BY <1>5, <1>t, GoesMovesOne DEF Flood, locks, Points, Inside, Early
<1>6. CASE ChallengeLeaksLock(t)
  BY <1>6, <1>t, GoesMovesOne DEF ChallengeLeaksLock, locks, Points, Inside, Early
<1>7. CASE Stick(t)
  BY <1>7 DEF Stick, OneMoves, WaitsForEver, Replays, locks, Inside
<1> QED
  BY <1>1, <1>2, <1>3, <1>4, <1>5, <1>6, <1>7 DEF Waiting

LEMMA StepOf ==
  ASSUME NEW t \in Call, Step(t)
  PROVE  \/ Working(t) \/ Waiting(t) \/ Create(t) \/ TakeLock(t) \/ Delayed(t)
         \/ Unlock(t) \/ Resume(t) \/ FirstRelease(t)
BY DEF Step, Working, Waiting

LEMMA StepAlone ==
  ASSUME Now, NEW t \in Call, Step(t), Undisturbed'
  PROVE  OneMoves(t) /\ Alone'
<1>1. CASE Working(t)
  <2>1. Stays(t)
    BY <1>1, WorkingWorks DEF Works, Stays, Holds
  <2> QED
    BY <2>1, AloneKept DEF Stays
<1>2. CASE Waiting(t)
  BY <1>2, WaitingStays, AloneKept DEF Stays
<1>3. CASE Create(t) \/ TakeLock(t) \/ Delayed(t)
  BY <1>3, ArrivingArrives, AloneKept DEF Arrives
<1>4. CASE Unlock(t) \/ Resume(t)
  BY <1>4, UnlockingLeaves, ResumingLeaves, AloneKept DEF Leaves
<1>5. CASE FirstRelease(t)
  BY <1>5, FirstReleaseReleases, AloneKept DEF Releases
<1> QED
  BY <1>1, <1>2, <1>3, <1>4, <1>5, StepOf

-----------------------------------------------------------------------------
(* The structs.                                                            *)

LEMMA EarlyBefore ==
  ASSUME NEW t \in Call, OneMoves(t), NEW u \in Call, pc'[u] \in Early
  PROVE  pc[u] \in Early
BY DEF OneMoves, Early

(* A step that changes no struct. *)
LEMMA SameStructs ==
  ASSUME Structs, NEW t \in Call, OneMoves(t), UNCHANGED <<stored, sigs>>
  PROVE  Structs'
<1>1. \A u \in Call : pc'[u] \in Early => pc[u] \in Early
  BY EarlyBefore
<1>2. \A b \in Ballot : List(b)' = List(b)
  BY DEF List
<1>3. \A b \in Ballot : stored[b] # None => stored[b] \in Call
  BY DEF Structs
<1> QED
  BY <1>1, <1>2, <1>3 DEF Structs

(* A struct s takes the place of the one of b, its list grows by what      *)
(* `add' says; so do other structs of b. *)
LEMMA ListGrows ==
  ASSUME Structs, NEW t \in Call, OneMoves(t), t.kind # "challenge",
         pc[t] \in {"check", "verify"}, pc'[t] \notin Early,
         NEW s \in Call, s.ballot = t.ballot, s \in {t, stored[t.ballot]},
         NEW S \in SUBSET Server, Here \in S => t.kind = "post" \/ Here \in List(t.ballot),
         stored' = [stored EXCEPT ![t.ballot] = s],
         sigs' \in [Call -> SUBSET Server], sigs'[s] = S,
         \A u \in Call : u \notin {t, s, stored[t.ballot]} => sigs'[u] = sigs[u]
  PROVE  /\ Structs'
         /\ List(t.ballot)' = S
         /\ \A b \in Ballot \ {t.ballot} : List(b)' = List(b)
<1>t. /\ stored \in [Ballot -> Call \cup {None}] /\ sigs \in [Call -> SUBSET Server]
      /\ t.ballot \in Ballot
      /\ \A u \in Call : u # None
  BY CallsTyped DEF Structs
<1>1. \A u \in Call : pc'[u] \in Early => pc[u] \in Early
  BY EarlyBefore
<1>2. stored' \in [Ballot -> Call \cup {None}]
  BY <1>t
<1>3. stored'[t.ballot] = s /\ \A b \in Ballot \ {t.ballot} : stored'[b] = stored[b]
  BY <1>t
<1>4. ASSUME NEW b \in Ballot \ {t.ballot} PROVE List(b)' = List(b)
  <2>1. stored[b] # None =>
          stored[b] \in Call /\ stored[b] \notin {t, s, stored[t.ballot]}
    BY <1>t DEF Structs
  <2> QED
    BY <1>3, <2>1 DEF List
<1>5. List(t.ballot)' = S
  BY <1>3, <1>t DEF List
<1>6. \A b \in Ballot : stored'[b] # None => stored'[b].ballot = b /\ pc'[stored'[b]] \notin Early
  <2>1. ASSUME NEW b \in Ballot, stored[b] # None
        PROVE  stored[b].ballot = b /\ pc'[stored[b]] \notin Early
    BY <1>1, <1>t, <2>1 DEF Structs
  <2>2. pc'[s] \notin Early
    BY <2>1, <1>t
  <2> QED
    BY <1>3, <2>1, <2>2
<1>7. ASSUME NEW u \in Call, pc'[u] \in Early PROVE sigs'[u] = {}
  <2>1. u # t /\ pc[u] \in Early
    BY <1>1, <1>7
  <2>2. u # stored[t.ballot] /\ u # s
    BY <1>t, <2>1 DEF Structs
  <2> QED
    BY <2>1, <2>2 DEF Structs
<1>8. ASSUME NEW b \in Ballot, Here \in List(b)'
      PROVE  PostOf(b) \in Call /\ pc'[PostOf(b)] \notin Early
  <2>1. CASE Here \in List(b)
    BY <1>1, <2>1 DEF Structs
  <2>2. CASE Here \notin List(b)
    <3>1. b = t.ballot /\ t.kind = "post"
      BY <1>4, <1>5, <1>8, <2>2
    <3> QED
      BY <3>1, PostShape
  <2> QED
    BY <2>1, <2>2
<1> QED
  BY <1>2, <1>4, <1>5, <1>6, <1>7, <1>8 DEF Structs

LEMMA ListShown ==
  ASSUME NEW b \in Ballot
  PROVE  View(IdOf[b]).lists[b] = List(b)
BY DEF View

LEMMA SignLists ==
  ASSUME Now, NEW t \in Call, Sign(t), OneMoves(t)
  PROVE  /\ Structs'
         /\ List(t.ballot)' = List(t.ballot) \cup {Here} /\ sigs'[t] = List(t.ballot)'
         /\ \A c \in Ballot \ {t.ballot} : List(c)' = List(c) /\ stored'[c] = stored[c]
         /\ stored'[t.ballot] # None
         /\ \A u \in Call \ {t} : u.kind = "post" => sigs'[u] = sigs[u] \/ u.ballot = t.ballot
<1> DEFINE b == t.ballot
           s == IF stored[b] = None THEN t ELSE stored[b]
           S == List(b) \cup {Here}
<1>t. /\ Structs /\ stored \in [Ballot -> Call \cup {None}] /\ sigs \in [Call -> SUBSET Server]
      /\ b \in Ballot /\ Here \in Server /\ \A u \in Call : u # None
  BY CallsTyped, HandlerLockingAssumption DEF Now, Core, Structs
<1>1. t.kind = "post" /\ pc[t] = "check" /\ pc'[t] = "verify"
  BY DEF Sign, Goes, OneMoves, Now, LockingInv, Typed
<1>2. s \in Call /\ s.ballot = b /\ s \in {t, stored[b]}
  BY <1>t DEF Structs
<1>3. S \in SUBSET Server
  BY <1>t DEF List
<1>4. stored' = [stored EXCEPT ![b] = s]
  BY <1>t DEF Sign
<1>5. sigs' = [sigs EXCEPT ![t] = S, ![s] = S]
  BY <1>t DEF Sign
<1>6. /\ sigs' \in [Call -> SUBSET Server] /\ sigs'[s] = S /\ sigs'[t] = S
      /\ \A u \in Call : u \notin {t, s, stored[b]} => sigs'[u] = sigs[u]
  BY <1>t, <1>2, <1>3, <1>5
<1>7. Structs' /\ List(b)' = S /\ \A c \in Ballot \ {b} : List(c)' = List(c)
  <2> HIDE DEF s, S
  <2>1. pc'[t] \notin Early
    BY <1>1 DEF Early
  <2>2. t.kind # "challenge" /\ pc[t] \in {"check", "verify"}
    BY <1>1
  <2> QED
    BY <1>t, <1>1, <1>2, <1>3, <1>4, <1>6, <2>1, <2>2, ListGrows
<1>8. \A u \in Call : u \in {s, stored[b]} => u.ballot = b
  BY <1>t, <1>2 DEF Structs
<1> QED
  BY <1>t, <1>2, <1>4, <1>6, <1>7, <1>8

LEMMA AcceptLists ==
  ASSUME Now, NEW t \in Call, Accept(t), OneMoves(t)
  PROVE  /\ Structs'
         /\ \A c \in Ballot : List(c)' = List(c)
         /\ \A c \in Ballot : stored'[c] = None <=> stored[c] = None
         /\ sigs' = sigs
<1> DEFINE b == t.ballot
<1>t. /\ Structs /\ stored \in [Ballot -> Call \cup {None}] /\ sigs \in [Call -> SUBSET Server]
      /\ b \in Ballot /\ \A u \in Call : u # None
  BY CallsTyped DEF Now, Core, Structs
<1>1. pc[t] = "verify" /\ pc'[t] = "signatures"
  BY DEF Accept, Goes, Now, LockingInv, Typed
<1>2. t.kind = "post" /\ t.id = IdOf[b]
  BY <1>1, KindAt, PostShape
<1>3. sigs[t] = List(b) /\ b \in Received(t.id)
  <2>1. Progress(t)
    BY <1>1, AtWork DEF Inside
  <2>2. sigs[t] = View(t.id).lists[b] /\ b \in View(t.id).received
    BY <1>1, <2>1 DEF Progress, Section, Signed, Listed
  <2> QED
    BY <1>2, <1>t, <2>2, ListShown, ViewFields, CallsTyped
<1>4. stored' = [stored EXCEPT ![b] = t] /\ sigs' = sigs
  BY DEF Accept
<1>5. Structs' /\ List(b)' = List(b) /\ \A c \in Ballot \ {b} : List(c)' = List(c)
  <2>1. pc'[t] \notin Early /\ t.kind # "challenge" /\ pc[t] \in {"check", "verify"}
    BY <1>1, <1>2 DEF Early
  <2>2. List(b) \in SUBSET Server
    BY <1>3, <1>t
  <2> QED
    BY <1>t, <1>2, <1>3, <1>4, <2>1, <2>2, ListGrows
<1> QED
  BY <1>t, <1>3, <1>4, <1>5 DEF Received

LEMMA MergeLists ==
  ASSUME Now, NEW t \in Call, Merge(t), OneMoves(t)
  PROVE  LET new == t.from \ (seen[t.id] \cup List(t.ballot))
         IN  /\ Structs'
             /\ List(t.ballot)' = List(t.ballot) \cup new
             /\ \A c \in Ballot \ {t.ballot} : List(c)' = List(c) /\ stored'[c] = stored[c]
             /\ stored'[t.ballot] # None
             /\ \A u \in Call \ {t} : sigs'[u] = sigs[u] \/ u.ballot = t.ballot
<1> DEFINE b == t.ballot
           new == t.from \ (seen[t.id] \cup List(b))
           s == IF stored[b] = None THEN t ELSE stored[b]
           S == List(b) \cup new
<1>t. /\ Structs /\ stored \in [Ballot -> Call \cup {None}] /\ sigs \in [Call -> SUBSET Server]
      /\ b \in Ballot /\ \A u \in Call : u # None
  BY CallsTyped DEF Now, Core, Structs
<1>1. t.kind = "share" /\ pc[t] = "check" /\ pc'[t] = "signatures"
  BY DEF Merge, Goes, Now, LockingInv, Typed
<1>2. s \in Call /\ s.ballot = b /\ s \in {t, stored[b]}
  BY <1>t DEF Structs
<1>3. S \in SUBSET Server /\ (Here \in S => Here \in List(b))
  BY <1>t, <1>1, ShareShape DEF List
<1>4. stored' = [stored EXCEPT ![b] = s]
  BY DEF Merge
<1>5. sigs[s] = List(b)
  BY <1>t, <1>1 DEF Structs, List, Early
<1>6. /\ sigs' \in [Call -> SUBSET Server] /\ sigs'[s] = S
      /\ \A u \in Call : u # s => sigs'[u] = sigs[u]
  <2>1. sigs' = [sigs EXCEPT ![s] = @ \cup new]
    BY DEF Merge
  <2> QED
    BY <1>t, <1>2, <1>3, <1>5, <2>1
<1>7. Structs' /\ List(b)' = S /\ \A c \in Ballot \ {b} : List(c)' = List(c)
  <2> HIDE DEF s, S, new
  <2>1. pc'[t] \notin Early /\ t.kind # "challenge" /\ pc[t] \in {"check", "verify"}
    BY <1>1 DEF Early
  <2>2. \A u \in Call : u \notin {t, s, stored[b]} => sigs'[u] = sigs[u]
    BY <1>6
  <2>3. Here \in S => t.kind = "post" \/ Here \in List(b)
    BY <1>3
  <2> QED
    BY <1>t, <1>2, <1>3, <1>4, <1>6, <2>1, <2>2, <2>3, ListGrows
<1> QED
  BY <1>t, <1>2, <1>4, <1>6, <1>7

LEMMA StructsKept ==
  ASSUME Now, NEW t \in Call, Step(t), OneMoves(t)
  PROVE  Structs'
<1>1. CASE Sign(t) \/ Accept(t) \/ Merge(t)
  BY <1>1, SignLists, AcceptLists, MergeLists
<1>2. CASE ~ (Sign(t) \/ Accept(t) \/ Merge(t))
  <2>1. UNCHANGED <<stored, sigs>>
    BY <1>2 DEF Step, entries, Found, ChallengeIgnored, ChallengeUnknownId, Create,
       TakeLock, Return, OnBareEntry, Reject, ChallengeBallot, FloodChallenge,
       Invalidate, NothingReady, Deliver, TakeShareLock, SendShare, Replay,
       ReplayTakesIds, ChallengeOwnShare, FirstRelease, Unlock, Release, Delayed,
       Resume, Flood, ChallengeKept, ChallengeLeaksLock, Stick
  <2> QED
    BY <2>1, SameStructs DEF Now, Core
<1> QED
  BY <1>1, <1>2

-----------------------------------------------------------------------------
(* Lost locks.                                                             *)

(* Where a call has lost the lock it had. *)
Away == {"leaked", "panicked"}

LEMMA NotAway ==
  ASSUME Now, NEW t \in Call, Step(t)
  PROVE  pc[t] \notin Away
<1>1. CASE Working(t)
  BY <1>1, WorkingWorks DEF Works, Away, Inside
<1>2. CASE Waiting(t)
  BY <1>2 DEF Waiting, Found, ChallengeIgnored, ChallengeUnknownId, LookUp, OnBareEntry,
     Flood, ChallengeLeaksLock, Goes, Away, Stick, WaitsForEver, Replays
<1>3. CASE Create(t) \/ TakeLock(t) \/ Delayed(t)
  BY <1>3 DEF Create, LookUp, TakeLock, Delayed, Goes, Away
<1>4. CASE Unlock(t) \/ Resume(t) \/ FirstRelease(t)
  BY <1>4 DEF Unlock, Resume, Release, FirstRelease, Goes, Away
<1> QED
  BY <1>1, <1>2, <1>3, <1>4, StepOf

LEMMA LostKept ==
  ASSUME Now, NEW t \in Call, pc[t] \notin Away, pc'[t] \notin Away,
         Arrives(t) \/ Leaves(t) \/ Stays(t) \/ Releases(t)
  PROVE  \A i \in EntryId : Lost(i)' <=> Lost(i)
<1>t. /\ lock \in [EntryId -> Call \cup {None}] /\ t.id \in EntryId /\ None \notin Call
      /\ pc[t] \in Holds => lock[t.id] = t
  BY CallsTyped, HandlerLockingAssumption DEF Now, Core, LockingInv, Typed, Alone
<1>o. \A u \in Call : pc'[u] \in Away <=> pc[u] \in Away
  BY DEF Arrives, Leaves, Stays, Releases, OneMoves, Away
<1> SUFFICES ASSUME NEW i \in EntryId PROVE Lost(i)' <=> Lost(i)
  OBVIOUS
<1>1. CASE lock'[i] = lock[i]
  BY <1>1, <1>o, <1>t DEF Lost, Away
<1>2. CASE lock'[i] # lock[i]
  <2>1. i = t.id /\ lock[i] \in {None, t} /\ lock'[i] \in {None, t}
    BY <1>2, <1>t DEF Arrives, Leaves, Stays, Releases, Holds, Inside
  <2> QED
    BY <2>1, <1>t DEF Lost, Away
<1> QED
  BY <1>1, <1>2

(* A call loses the lock of its entry. *)
LEMMA LostByMe ==
  ASSUME Now, NEW t \in Call, Stays(t), pc'[t] \in Away, pc[t] \in Holds
  PROVE  /\ \A i \in EntryId \ {t.id} : Lost(i)' <=> Lost(i)
         /\ lock[t.id] = t /\ Lost(t.id)'
         /\ pc[t] \notin Away => ~ Lost(t.id)
<1>t. /\ lock \in [EntryId -> Call \cup {None}] /\ t.id \in EntryId /\ None \notin Call
      /\ lock[t.id] = t
      /\ \A u \in Call : pc[u] \in Holds => lock[u.id] = u
      /\ \A u \in Call : u.id \in EntryId
  BY CallsTyped, HandlerLockingAssumption DEF Now, Core, LockingInv, Typed, Alone
<1>o. \A u \in Call \ {t} : pc'[u] \in Away <=> pc[u] \in Away
  BY DEF Stays, OneMoves, Away
<1>1. lock' = lock
  BY DEF Stays
<1>2. ASSUME NEW i \in EntryId \ {t.id} PROVE Lost(i)' <=> Lost(i)
  <2>1. CASE lock[i] # t
    BY <1>t, <1>o, <1>1, <2>1 DEF Lost, Away
  <2>2. CASE lock[i] = t
    <3>1. lock[i].id = i
      BY <1>t, <2>2, CallsTyped DEF Now, Core, Alone
    <3> QED
      BY <3>1, <2>2
  <2> QED
    BY <2>1, <2>2
<1> QED
  BY <1>t, <1>1, <1>2 DEF Lost, Away

-----------------------------------------------------------------------------
(* What is recorded.                                                       *)

LEMMA StepLost ==
  ASSUME Now, NEW t \in Call, Step(t), Undisturbed'
  PROVE  \A i \in EntryId :
           Lost(i)' => \/ Lost(i)
                       \/ i = t.id /\ (OnBareEntry(t) \/ ChallengeLeaksLock(t))
<1>a. pc[t] \notin Away
  BY NotAway
<1>1. CASE Working(t)
  <2>1. Stays(t) /\ pc'[t] \notin Away
    BY <1>1, WorkingWorks DEF Works, Stays, Holds, Inside, Away
  <2> QED
    BY <1>a, <2>1, LostKept
<1>2. CASE Create(t) \/ TakeLock(t) \/ Delayed(t)
  <2>1. Arrives(t) /\ pc'[t] \notin Away
    BY <1>2, ArrivingArrives DEF Arrives, Away
  <2> QED
    BY <1>a, <2>1, LostKept
<1>3. CASE Unlock(t) \/ Resume(t)
  <2>1. Leaves(t) /\ pc'[t] \notin Away
    BY <1>3, UnlockingLeaves, ResumingLeaves DEF Leaves, Away
  <2> QED
    BY <1>a, <2>1, LostKept
<1>4. CASE FirstRelease(t)
  <2>1. Releases(t) /\ pc'[t] \notin Away
    BY <1>4, FirstReleaseReleases DEF Releases, Away
  <2> QED
    BY <1>a, <2>1, LostKept
<1>5. CASE Waiting(t)
  <2>1. Stays(t)
    BY <1>5, WaitingStays
  <2>2. CASE OnBareEntry(t) \/ ChallengeLeaksLock(t)
    <3>1. pc[t] \in Holds /\ (pc'[t] \in Away \/ pc'[t] = "ended")
      BY <2>2 DEF OnBareEntry, ChallengeLeaksLock, Goes, Holds, Inside, Away, Now,
         LockingInv, Typed
    <3>2. CASE pc'[t] \in Away
      BY <2>1, <2>2, <3>1, <3>2, LostByMe
    <3>3. CASE pc'[t] \notin Away
      BY <2>1, <1>a, <3>3, LostKept
    <3> QED
      BY <3>2, <3>3
  <2>3. CASE ~ (OnBareEntry(t) \/ ChallengeLeaksLock(t))
    <3>1. pc'[t] \notin Away
      BY <1>a, <1>5, <2>3 DEF Waiting, Found, ChallengeIgnored, ChallengeUnknownId,
         LookUp, Flood, Goes, Away, Stick, Now, LockingInv, Typed
    <3> QED
      BY <2>1, <1>a, <3>1, LostKept
  <2> QED
    BY <2>2, <2>3
<1> QED
  BY <1>1, <1>2, <1>3, <1>4, <1>5, StepOf

LEMMA StepInvalidated ==
  ASSUME Now, NEW t \in Call, Step(t)
  PROVE  \/ invalidated' = invalidated
         \/ /\ invalidated' = invalidated \cup {t.id} /\ ~ Lost(t.id)
            /\ Invalidate(t) \/ FirstRelease(t)
<1>1. CASE Invalidate(t) \/ FirstRelease(t)
  <2>1. invalidated' = invalidated \cup {t.id}
    BY <1>1 DEF Invalidate, FirstRelease
  <2>2. pc[t] \in Holds \ Away
    BY <1>1 DEF Invalidate, FirstRelease, Goes, Holds, Inside, Away
  <2>3. lock[t.id] = t
    BY <2>2 DEF Now, Core, Alone
  <2> QED
    BY <1>1, <2>1, <2>2, <2>3 DEF Lost, Away
<1>2. CASE ~ (Invalidate(t) \/ FirstRelease(t))
  BY <1>2 DEF Step, entries, Found, ChallengeIgnored, ChallengeUnknownId, Create,
     TakeLock, Return, OnBareEntry, Sign, Accept, Reject, ChallengeBallot,
     FloodChallenge, Merge, NothingReady, Deliver, TakeShareLock, SendShare, Replay,
     ReplayTakesIds, ChallengeOwnShare, Unlock, Release, Delayed, Resume, Flood,
     ChallengeKept, ChallengeLeaksLock, Stick
<1> QED
  BY <1>1, <1>2

LEMMA StepKnown ==
  ASSUME Now, NEW t \in Call, Step(t)
  PROVE  bare' \cup delivered' \cup invalidated' \subseteq known'
<1>t. /\ bare \cup delivered \cup invalidated \subseteq known /\ Typed
      /\ pc[t] \notin {"absent", "start", "done"} => t.id \in known
  BY DEF Now, Core, Recorded, LockingInv, EntryFirst
<1>1. CASE Deliver(t) \/ Invalidate(t) \/ FirstRelease(t)
  BY <1>1, <1>t DEF Deliver, Invalidate, FirstRelease, Goes
<1>2. CASE ChallengeUnknownId(t) \/ Create(t)
  BY <1>2, <1>t DEF ChallengeUnknownId, Create
<1>3. CASE ~ (Deliver(t) \/ Invalidate(t) \/ FirstRelease(t) \/ ChallengeUnknownId(t)
              \/ Create(t))
  <2>1. UNCHANGED <<known, bare, delivered, invalidated>>
    BY <1>3 DEF Step, entries, Found, ChallengeIgnored,
       TakeLock, Return, OnBareEntry, Sign, Accept, Reject, ChallengeBallot,
       FloodChallenge, Merge, NothingReady, TakeShareLock, SendShare, Replay,
       ReplayTakesIds, ChallengeOwnShare, Unlock, Release, Delayed, Resume, Flood,
       ChallengeKept, ChallengeLeaksLock, Stick
  <2> QED
    BY <1>t, <2>1
<1> QED
  BY <1>1, <1>2, <1>3

LEMMA StepLostUntouched ==
  ASSUME Now, NEW t \in Call, Step(t), Undisturbed'
  PROVE  \A i \in EntryId : Lost(i)' => i \notin invalidated'
<1> SUFFICES ASSUME NEW i \in EntryId, Lost(i)' PROVE i \notin invalidated'
  OBVIOUS
<1>1. CASE Lost(i)
  BY <1>1, StepInvalidated DEF Now, Core, Recorded
<1>2. CASE i = t.id /\ OnBareEntry(t)
  BY <1>2 DEF OnBareEntry, Settled, entries
<1>3. CASE i = t.id /\ ChallengeLeaksLock(t)
  <2>1. pc[t] = "find" /\ invalidated' = invalidated
    BY <1>3 DEF ChallengeLeaksLock, Goes
  <2>2. Progress(t)
    BY <2>1, AtWork DEF Inside
  <2>3. ~ View(t.id).invalidated
    BY <2>1, <2>2 DEF Progress, Section, Decided
  <2> QED
    BY <1>3, <2>1, <2>3, ViewFields
<1> QED
  BY <1>1, <1>2, <1>3, StepLost

LEMMA StepWaits ==
  ASSUME Now, NEW t \in Call, Step(t), OneMoves(t)
  PROVE  \A u \in Call : pc'[u] = "wait" => ids' = u
<1>t. /\ Typed /\ \A u \in Call : pc[u] = "wait" => ids = u
      /\ \A u \in Call : u # None
  BY CallsTyped DEF Now, Core, Recorded, LockingInv
<1> SUFFICES ASSUME NEW u \in Call, pc'[u] = "wait" PROVE ids' = u
  OBVIOUS
<1>1. CASE u # t
  <2>1. pc[u] = "wait" /\ ids = u
    BY <1>1, <1>t DEF OneMoves
  <2>2. pc[t] # "wait" /\ ids # None
    BY <1>1, <2>1, <1>t
  <2>3. ids' = ids
    BY <2>2 DEF Step, locks, LookUp, Found, ChallengeIgnored, ChallengeUnknownId, Create,
       TakeLock, Goes, Return, OnBareEntry, Sign, Accept, Reject, ChallengeBallot,
       FloodChallenge, Invalidate, Merge, NothingReady, Deliver, TakeShareLock,
       SendShare, Replay, ReplayTakesIds, ChallengeOwnShare, FirstRelease, Unlock,
       Release, Delayed, Resume, Flood, ChallengeKept, ChallengeLeaksLock, Stick
  <2> QED
    BY <2>1, <2>3
<1>2. CASE u = t /\ pc[t] # "wait"
  <2>1. Found(t)
    BY <1>2, <1>t DEF Step, LookUp, ChallengeIgnored, ChallengeUnknownId, Create,
       TakeLock, Goes, Return, OnBareEntry, Sign, Accept, Reject, ChallengeBallot,
       FloodChallenge, Invalidate, Merge, NothingReady, Deliver, TakeShareLock,
       SendShare, Replay, ReplayTakesIds, ChallengeOwnShare, FirstRelease, Unlock,
       Release, Delayed, Resume, Flood, ChallengeKept, ChallengeLeaksLock, Stick, Typed
  <2> QED
    BY <1>2, <2>1 DEF Found
<1>3. CASE u = t /\ pc[t] = "wait"
  <2>1. Stick(t)
    BY <1>3, <1>t DEF Step, LookUp, Found, ChallengeIgnored, ChallengeUnknownId, Create,
       TakeLock, Goes, Return, OnBareEntry, Sign, Accept, Reject, ChallengeBallot,
       FloodChallenge, Invalidate, Merge, NothingReady, Deliver, TakeShareLock,
       SendShare, Replay, ReplayTakesIds, ChallengeOwnShare, FirstRelease, Unlock,
       Release, Delayed, Resume, Flood, ChallengeKept, ChallengeLeaksLock, Typed
  <2> QED
    BY <1>3, <1>t, <2>1 DEF Stick, locks
<1> QED
  BY <1>1, <1>2, <1>3

LEMMA StepIds ==
  ASSUME Now, NEW t \in Call, Step(t)
  PROVE  ids' \in Call \cup {None}
BY DEF Now, Core, Recorded, Step, locks, LookUp, Found, ChallengeIgnored,
   ChallengeUnknownId, Create, TakeLock, Return, OnBareEntry, Sign, Accept, Reject,
   ChallengeBallot, FloodChallenge, Invalidate, Merge, NothingReady, Deliver,
   TakeShareLock, SendShare, Replay, ReplayTakesIds, ChallengeOwnShare, FirstRelease,
   Unlock, Release, Delayed, Resume, Flood, ChallengeKept, ChallengeLeaksLock, Stick

LEMMA StepTells ==
  ASSUME Now, NEW t \in Call, Step(t), OneMoves(t)
  PROVE  \A u \in Call :
           pc'[u] \in Early \cup {"verify", "invalidate", "find"} => u \notin tells'
<1> DEFINE Before == Early \cup {"verify", "invalidate", "find"}
<1>t. Typed /\ \A u \in Call : pc[u] \in Before => u \notin tells
  BY DEF Now, Core, Recorded, LockingInv
<1>o. \A u \in Call \ {t} : pc'[u] \in Before => pc[u] \in Before
  BY DEF OneMoves, Early
<1>1. CASE Accept(t) \/ Merge(t)
  <2>1. pc'[t] = "signatures" /\ tells' \subseteq tells \cup {t}
    BY <1>1, <1>t DEF Accept, Merge, Goes, Typed
  <2> QED
    BY <1>t, <1>o, <2>1 DEF Early
<1>2. CASE ~ (Accept(t) \/ Merge(t))
  <2>1. tells' = tells
    BY <1>2 DEF Step, rest, Found, ChallengeIgnored, ChallengeUnknownId, Create,
       TakeLock, Return, OnBareEntry, Sign, Reject, ChallengeBallot,
       FloodChallenge, Invalidate, NothingReady, Deliver, TakeShareLock, SendShare, Replay,
       ReplayTakesIds, ChallengeOwnShare, FirstRelease, Unlock, Release, Delayed,
       Resume, Flood, ChallengeKept, ChallengeLeaksLock, Stick
  <2>2. pc'[t] \in Before => pc[t] \in Before
    <3>1. CASE Working(t)
      BY <3>1, WorkingWorks DEF Works, Early, Inside
    <3>2. CASE ~ Working(t)
      <4>1. SUFFICES ASSUME pc'[t] \in {"verify", "invalidate", "find"}
                     PROVE  pc[t] \in Before
        BY EarlyBefore
      <4>2. TakeLock(t)
        BY <3>2, <4>1, <1>t, StepOf DEF Waiting, LookUp, Found, ChallengeIgnored,
           ChallengeUnknownId, Create, TakeLock, Goes, OnBareEntry, FirstRelease, Unlock,
           Release, Delayed, Resume, Flood, ChallengeLeaksLock, Stick, WaitsForEver,
           Replays, Typed
      <4> QED
        BY <4>2 DEF TakeLock, Goes, Early
    <3> QED
      BY <3>1, <3>2
  <2> QED
    BY <1>t, <1>o, <2>1, <2>2
<1> QED
  BY <1>1, <1>2

LEMMA StepSeen ==
  ASSUME Now, NEW t \in Call, Step(t)
  PROVE  seen' \in [VoteId -> SUBSET Server] /\ challenges' \subseteq Call
<1>t. seen \in [VoteId -> SUBSET Server] /\ challenges \subseteq Call
  BY DEF Now, Core, Recorded
<1>1. CASE Accept(t)
  <2>1. seen' = [seen EXCEPT ![t.id] = @ \cup {Here}] /\ challenges' = challenges
    BY <1>1 DEF Accept
  <2>2. Here \in Server
    BY HandlerLockingAssumption
  <2> QED
    BY <1>t, <2>1, <2>2
<1>2. CASE Merge(t)
  <2>1. t.kind = "share"
    BY <1>2 DEF Merge
  <2>2. t.from \in SUBSET Server
    BY <2>1, ShareShape
  <2>3. seen' = [seen EXCEPT ![t.id] = @ \cup (t.from \ (seen[t.id] \cup List(t.ballot)))]
        /\ challenges' = challenges
    BY <1>2 DEF Merge
  <2> QED
    BY <1>t, <2>2, <2>3
<1>3. CASE ~ (Accept(t) \/ Merge(t))
  <2>1. seen' = seen /\ challenges' \subseteq challenges \cup {t}
    BY <1>3 DEF Step, entries, Found, ChallengeIgnored, ChallengeUnknownId, Create,
       TakeLock, Return, OnBareEntry, Sign, Reject, ChallengeBallot,
       FloodChallenge, Invalidate, NothingReady, Deliver, TakeShareLock, SendShare, Replay,
       ReplayTakesIds, ChallengeOwnShare, FirstRelease, Unlock, Release, Delayed,
       Resume, Flood, ChallengeKept, ChallengeLeaksLock, Stick
  <2> QED
    BY <1>t, <2>1
<1> QED
  BY <1>1, <1>2, <1>3

LEMMA StepSettles ==
  ASSUME Now, NEW t \in Call, Step(t)
  PROVE  delivered' \cup invalidated' \subseteq VoteId
<1>t. delivered \cup invalidated \subseteq VoteId
  BY DEF Now, Core, Recorded
<1>1. CASE Deliver(t)
  <2>1. delivered' = delivered \cup {t.id} /\ invalidated' = invalidated /\ pc[t] = "signatures"
    BY <1>1 DEF Deliver, Goes
  <2>2. t.id \in VoteId
    BY <2>1, KindAt, BallotIds
  <2> QED
    BY <1>t, <2>1, <2>2
<1>2. CASE ~ Deliver(t)
  <2>1. delivered' = delivered
    BY <1>2 DEF Step, entries, Found, ChallengeIgnored, ChallengeUnknownId, Create,
       TakeLock, Return, OnBareEntry, Sign, Accept, Reject, ChallengeBallot,
       FloodChallenge, Invalidate, Merge, NothingReady, TakeShareLock, SendShare, Replay,
       ReplayTakesIds, ChallengeOwnShare, FirstRelease, Unlock, Release, Delayed, Resume,
       Flood, ChallengeKept, ChallengeLeaksLock, Stick
  <2>2. invalidated' # invalidated => invalidated' = invalidated \cup {t.id} /\ t.id \in VoteId
    <3>1. CASE Invalidate(t) \/ FirstRelease(t)
      <4>1. pc[t] \in {"invalidate", "doubt"}
        BY <3>1 DEF Invalidate, FirstRelease, Goes
      <4> QED
        BY <4>1, StepInvalidated, KindAt, BallotIds
    <3> QED
      BY <3>1, StepInvalidated
  <2> QED
    BY <1>t, <2>1, <2>2
<1> QED
  BY <1>1, <1>2

LEMMA RecordedKept ==
  ASSUME Now, NEW t \in Call, Step(t), OneMoves(t), Undisturbed'
  PROVE  Recorded'
BY StepSeen, StepKnown, StepSettles, StepLostUntouched, StepIds, StepWaits, StepTells DEF Recorded

LEMMA StuckLater ==
  ASSUME Now, NEW t \in Call, Step(t), stuck # None
  PROVE  Flood(t) \/ Delayed(t) \/ Resume(t)
<1>1. pc[t] \notin Inside \ {"replay"} /\ ids # None /\ (pc[t] = "wait" => lock[t.id] # None)
  <2>1. CASE pc[t] \in Inside \/ pc[t] \in {"start", "wait"}
    BY <2>1, StuckStays
  <2>2. CASE ~ (pc[t] \in Inside \/ pc[t] \in {"start", "wait"})
    BY <2>2, CallsTyped DEF Now, Core, NobodyReturns
  <2> QED
    BY <2>1, <2>2
<1> QED
  BY <1>1 DEF Step, LookUp, Found, ChallengeIgnored, ChallengeUnknownId, Create,
     TakeLock, Goes, Return, OnBareEntry, Sign, Accept, Reject, ChallengeBallot,
     FloodChallenge, Invalidate, Merge, NothingReady, Deliver, TakeShareLock,
     SendShare, Replay, ReplayTakesIds, ChallengeOwnShare, FirstRelease, Unlock,
     Release, ChallengeKept, ChallengeLeaksLock, Stick, Inside

LEMMA NobodyReturnsKept ==
  ASSUME Now, NEW t \in Call, Step(t), OneMoves(t), Undisturbed'
  PROVE  NobodyReturns'
<1>t. /\ Typed /\ ids \in Call \cup {None}
      /\ \A u \in Call : u # None /\ u.id \in EntryId
  BY CallsTyped DEF Now, Core, Recorded, LockingInv
<1>1. CASE stuck # None
  <2>2. Flood(t) \/ Delayed(t) \/ Resume(t)
    BY <1>1, StuckLater
  <2>3. pc[t] \in {"flood", "delayed", "resume"} /\ UNCHANGED <<stuck, ids>>
    BY <2>2 DEF Flood, Delayed, Resume, Release, Goes, locks, rest
  <2>4. Arrives(t) \/ Leaves(t) \/ Stays(t)
    BY <2>2, ArrivingArrives, ResumingLeaves, WaitingStays DEF Waiting
  <2>5. pc'[t] \in {"done", "resume", "flood"}
    BY <2>2, <1>t DEF Flood, Delayed, Resume, Release, Goes, Typed, Undisturbed
  <2>6. \A i \in EntryId : Lost(i)' <=> Lost(i)
    BY <2>3, <2>4, <2>5, LostKept DEF Away
  <2>7. /\ stuck \in Call /\ pc[stuck] \in {"wait", "replay"}
        /\ ids \in Call /\ WaitsForEver(ids)
        /\ \A u \in Call : pc[u] \in Inside => Replays(u)
    BY <1>1 DEF Now, Core, NobodyReturns
  <2>8. \A u \in Call : pc[u] \in {"wait", "replay"} => pc'[u] = pc[u]
    BY <2>3 DEF OneMoves
  <2>9. \A u \in Call : pc'[u] \in Inside => Replays(u)'
    BY <2>3, <2>5, <2>7, <2>8 DEF OneMoves, Inside, Replays
  <2>10. WaitsForEver(ids)'
    <3>1. pc'[ids] = pc[ids]
      BY <2>7, <2>8 DEF WaitsForEver, Replays
    <3>2. CASE Replays(ids)
      BY <2>3, <3>1, <3>2 DEF WaitsForEver, Replays
    <3>3. CASE pc[ids] = "wait" /\ Lost(ids.id)
      BY <1>t, <2>3, <2>6, <2>7, <3>1, <3>3 DEF WaitsForEver
    <3>4. CASE pc[ids] = "wait" /\ lock[ids.id] # None /\ Replays(lock[ids.id])
      <4>1. lock[ids.id] \in Call /\ lock[ids.id] # t
        BY <1>t, <2>3, <2>7, <3>4 DEF Typed, Replays
      <4>2. lock'[ids.id] = lock[ids.id]
        <5>1. ids.id # t.id \/ lock' = lock
          BY <2>3, <2>4, <3>4, <4>1 DEF Arrives, Leaves, Stays, Now, Core, Alone, Holds
        <5> QED
          BY <1>t, <2>4, <2>7, <5>1 DEF Arrives, Leaves, Stays, Typed
      <4>3. pc'[lock[ids.id]] = "replay"
        BY <2>8, <3>4, <4>1 DEF Replays
      <4> QED
        BY <2>3, <3>1, <3>4, <4>2, <4>3 DEF WaitsForEver, Replays
    <3> QED
      BY <2>7, <3>2, <3>3, <3>4 DEF WaitsForEver
  <2> QED
    BY <2>3, <2>7, <2>8, <2>9, <2>10 DEF NobodyReturns
<1>2. CASE stuck = None /\ Stick(t)
  <2>1. /\ stuck' = t /\ UNCHANGED <<pc, ids, lock>> /\ ids # None
        /\ WaitsForEver(ids) /\ pc[t] \in {"wait", "replay"}
    BY <1>2 DEF Stick, locks, Replays
  <2>2. WaitsForEver(ids)'
    BY <2>1 DEF WaitsForEver, Lost, Replays
  <2>3. \A u \in Call : pc[u] \in Inside => Replays(u)'
    BY <1>2, <2>1 DEF Stick, Replays, Inside
  <2> QED
    BY <1>t, <2>1, <2>2, <2>3 DEF NobodyReturns
<1>3. CASE stuck = None /\ ~ Stick(t)
  <2>1. stuck' = None
    BY <1>3 DEF Step, rest, Found, ChallengeIgnored, ChallengeUnknownId, Create,
       TakeLock, Return, OnBareEntry, Sign, Accept, Reject, ChallengeBallot,
       FloodChallenge, Invalidate, Merge, NothingReady, Deliver, TakeShareLock,
       SendShare, Replay, ReplayTakesIds, ChallengeOwnShare, FirstRelease, Unlock,
       Release, Delayed, Resume, Flood, ChallengeKept, ChallengeLeaksLock
  <2> QED
    BY <2>1 DEF NobodyReturns
<1> QED
  BY <1>1, <1>2, <1>3

-----------------------------------------------------------------------------
(* Entries that the step is not in.                                        *)

LEMMA ViewsKept ==
  ASSUME UNCHANGED <<entries, tally, flooded>>, NEW i
  PROVE  View(i)' = View(i)
<1>1. \A b \in Ballot : List(b)' = List(b)
  BY DEF List, entries
<1>2. Pending(i)' = Pending(i)
  BY DEF Pending, entries
<1> QED
  BY <1>1, <1>2, ViewKept DEF entries

LEMMA OtherViews ==
  ASSUME Now, NEW t \in Call, Step(t), OneMoves(t), NEW i \in EntryId \ {t.id}
  PROVE  View(i)' = View(i)
<1>t. /\ t.id \in EntryId /\ t.ballot \in Ballot
      /\ \A u \in Call : u # None
      /\ seen \in [VoteId -> SUBSET Server] /\ tally \in [Ballot -> Nat]
      /\ chosen \in [Call -> Ballot]
  BY CallsTyped DEF Now, Core, Recorded, LockingInv, Typed
<1>v. i # NilId => i \in VoteId
  BY DEF EntryId
<1>1. ASSUME UNCHANGED <<stored, sigs>> PROVE \A b \in Ballot : List(b)' = List(b)
  BY <1>1 DEF List
<1>2. ASSUME challenges' \subseteq challenges \cup {t}, challenges \subseteq challenges'
      PROVE  Pending(i)' = Pending(i)
  BY <1>2 DEF Pending
<1>3. CASE Sign(t)
  <2>1. t.kind = "post" /\ UNCHANGED <<known, bare, delivered, invalidated, seen,
                                       challenges, tally, flooded>>
    BY <1>3 DEF Sign, rest
  <2>2. IdOf[t.ballot] # i
    BY <2>1, PostShape
  <2>3. \A b \in Ballot : IdOf[b] = i => List(b)' = List(b) /\ stored'[b] = stored[b]
    BY <1>3, <2>2, SignLists
  <2> QED
    BY <1>2, <2>1, <2>3, ViewKept
<1>4. CASE Accept(t)
  <2>1. /\ UNCHANGED <<known, bare, delivered, invalidated, challenges, tally, flooded>>
        /\ seen' = [seen EXCEPT ![t.id] = @ \cup {Here}]
    BY <1>4 DEF Accept
  <2>2. i # NilId => seen'[i] = seen[i]
    BY <1>t, <1>v, <2>1
  <2> QED
    BY <1>2, <1>4, <2>1, <2>2, AcceptLists, ViewKept
<1>5. CASE Merge(t)
  <2>1. /\ t.kind = "share"
        /\ UNCHANGED <<known, bare, delivered, invalidated, challenges, tally, flooded>>
        /\ seen' = [seen EXCEPT ![t.id] = @ \cup (t.from \ (seen[t.id] \cup List(t.ballot)))]
    BY <1>5 DEF Merge
  <2>2. i # NilId => seen'[i] = seen[i]
    BY <1>t, <1>v, <2>1
  <2>3. IdOf[t.ballot] # i
    BY <2>1, ShareShape
  <2>4. \A b \in Ballot : IdOf[b] = i => List(b)' = List(b) /\ stored'[b] = stored[b]
    BY <1>5, <2>3, MergeLists
  <2> QED
    BY <1>2, <2>1, <2>2, <2>4, ViewKept
<1>6. CASE ChallengeBallot(t) \/ ChallengeOwnShare(t)
  <2>1. PICK c : /\ IdOf[c.ballot] = t.id
                 /\ flooded' = flooded \cup {c}
                 /\ UNCHANGED <<entries, tally>>
    <3>1. CASE ChallengeBallot(t)
      <4>1. t.kind = "post"
        BY <3>1, KindAt DEF ChallengeBallot, FloodChallenge
      <4>2. IdOf[ChallengeOf(t.id, t.ballot, Here).ballot] = t.id
        BY <4>1, PostShape DEF ChallengeOf
      <4> QED
        BY <3>1, <4>2 DEF ChallengeBallot, FloodChallenge
    <3>2. CASE ChallengeOwnShare(t)
      <4>1. PICK b \in Ready(t.id) :
              FloodChallenge(t, "signatures", "doubt", ChallengeOf(NilId, b, Here))
        BY <3>2 DEF ChallengeOwnShare
      <4>2. IdOf[ChallengeOf(NilId, b, Here).ballot] = t.id
        BY DEF ChallengeOf, Ready, Received
      <4> QED
        BY <4>1, <4>2 DEF FloodChallenge
    <3> QED
      BY <1>6, <3>1, <3>2
  <2> QED
    BY <1>1, <1>2, <2>1, ViewKept DEF entries
<1>7. CASE SendShare(t)
  <2>1. pc[t] = "send" /\ UNCHANGED <<entries, flooded>>
        /\ tally' = [tally EXCEPT ![chosen[t]] = @ + 1]
    BY <1>7 DEF SendShare, Goes
  <2>2. chosen[t] \in View(t.id).received
    <3>1. Progress(t)
      BY <2>1, AtWork DEF Inside
    <3> QED
      BY <2>1, <3>1 DEF Progress, Section, ReadyIn
  <2>3. IdOf[chosen[t]] = t.id
    <3>1. chosen[t] \in Received(t.id)
      BY <1>t, <2>2, ViewFields
    <3> QED
      BY <3>1 DEF Received
  <2>4. \A b \in Ballot : IdOf[b] = i => tally'[b] = tally[b]
    BY <1>t, <2>1, <2>3
  <2> QED
    BY <1>1, <1>2, <2>1, <2>4, ViewKept DEF entries
<1>8. CASE \/ ChallengeUnknownId(t) \/ Create(t) \/ Invalidate(t) \/ Deliver(t)
           \/ FirstRelease(t) \/ ChallengeKept(t) \/ ChallengeLeaksLock(t)
  <2>1. /\ i \in known' <=> i \in known
        /\ i \in bare' <=> i \in bare
        /\ i \in delivered' <=> i \in delivered
        /\ i \in invalidated' <=> i \in invalidated
        /\ challenges' \subseteq challenges \cup {t} /\ challenges \subseteq challenges'
        /\ UNCHANGED <<stored, sigs, seen, tally, flooded>>
    BY <1>8 DEF ChallengeUnknownId, Create, Invalidate, Deliver, FirstRelease,
       ChallengeKept, ChallengeLeaksLock, rest
  <2> QED
    BY <1>1, <1>2, <2>1, ViewKept
<1>9. CASE ~ (\/ Sign(t) \/ Accept(t) \/ Merge(t) \/ ChallengeBallot(t)
              \/ ChallengeOwnShare(t) \/ SendShare(t) \/ ChallengeUnknownId(t)
              \/ Create(t) \/ Invalidate(t) \/ Deliver(t) \/ FirstRelease(t)
              \/ ChallengeKept(t) \/ ChallengeLeaksLock(t))
  <2>1. UNCHANGED <<entries, tally, flooded>>
    BY <1>9 DEF Step, rest, Found, ChallengeIgnored, TakeLock, Return, OnBareEntry, Reject,
       NothingReady, TakeShareLock, Replay, ReplayTakesIds, Unlock, Release, Delayed,
       Resume, Flood, Stick
  <2> QED
    BY <2>1, ViewsKept
<1> QED
  BY <1>3, <1>4, <1>5, <1>6, <1>7, <1>8, <1>9

-----------------------------------------------------------------------------
(* What is shown.                                                          *)

LEMMA StepStuck ==
  ASSUME NEW t \in Call, Step(t)
  PROVE  stuck' = stuck \/ (Stick(t) /\ stuck = None /\ stuck' = t)
<1>1. CASE Stick(t)
  BY <1>1 DEF Stick
<1>2. CASE ~ Stick(t)
  BY <1>2 DEF Step, rest, Found, ChallengeIgnored, ChallengeUnknownId, Create,
     TakeLock, Return, OnBareEntry, Sign, Accept, Reject, ChallengeBallot,
     FloodChallenge, Invalidate, Merge, NothingReady, Deliver, TakeShareLock,
     SendShare, Replay, ReplayTakesIds, ChallengeOwnShare, FirstRelease, Unlock,
     Release, Delayed, Resume, Flood, ChallengeKept, ChallengeLeaksLock
<1> QED
  BY <1>1, <1>2

LEMMA OthersInside ==
  ASSUME NEW t \in Call, Step(t), OneMoves(t), NEW u \in Call \ {t}
  PROVE  /\ pc'[u] \in Inside <=> pc[u] \in Inside
         /\ u # stuck' <=> u # stuck
         /\ pc'[u] \in Inside => pc'[u] = pc[u]
BY StepStuck, CallsTyped DEF OneMoves, Inside

LEMMA OccupiedElsewhere ==
  ASSUME NEW t \in Call, Step(t), OneMoves(t), NEW i \in EntryId \ {t.id}
  PROVE  Occupied(i)' <=> Occupied(i)
BY OthersInside DEF Occupied

(* Only the entry of the step can be shown anew. *)
LEMMA ShowsHere ==
  ASSUME Now, NEW t \in Call, Step(t), OneMoves(t), Shows
  PROVE  /\ Occupied(t.id)' => shown' = shown
         /\ ~ Occupied(t.id)' => shown' = [shown EXCEPT ![t.id] = View(t.id)']
<1>t. t.id \in EntryId /\ Shown
  BY CallsTyped DEF Now, Core
<1>1. shown = [i \in EntryId |-> shown[i]]
  BY <1>t DEF Shown
<1>2. shown' = [i \in EntryId |-> IF Occupied(i)' THEN shown[i] ELSE View(i)']
  BY DEF Shows
<1>3. ASSUME NEW i \in EntryId \ {t.id} PROVE shown'[i] = shown[i]
  <2>1. CASE Occupied(i)'
    BY <1>2, <2>1
  <2>2. CASE ~ Occupied(i)'
    <3>1. ~ Occupied(i) /\ View(i)' = View(i)
      BY <2>2, OccupiedElsewhere, OtherViews
    <3>2. shown'[i] = View(i)' /\ shown[i] = View(i)
      BY <1>2, <1>t, <2>2, <3>1 DEF Shown
    <3> QED
      BY <3>1, <3>2
  <2> QED
    BY <2>1, <2>2
<1>4. shown'[t.id] = IF Occupied(t.id)' THEN shown[t.id] ELSE View(t.id)'
  BY <1>2, <1>t
<1>5. shown' = [i \in EntryId |-> shown'[i]]
  BY <1>2
<1> QED
  BY <1>t, <1>1, <1>3, <1>4, <1>5

LEMMA NothingShown ==
  ASSUME Now, NEW t \in Call, Step(t), OneMoves(t), Shows,
         Occupied(t.id)' \/ (~ Occupied(t.id) /\ View(t.id)' = View(t.id))
  PROVE  shown' = shown
<1>1. CASE Occupied(t.id)'
  BY <1>1, ShowsHere
<1>2. CASE ~ Occupied(t.id)' /\ ~ Occupied(t.id) /\ View(t.id)' = View(t.id)
  <2>1. shown' = [shown EXCEPT ![t.id] = shown[t.id]]
    BY <1>2, ShowsHere, CallsTyped DEF Now, Core, Shown
  <2>2. shown = [i \in EntryId |-> shown[i]]
    BY DEF Now, Core, Shown
  <2> QED
    BY <2>1, <2>2
<1> QED
  BY <1>1, <1>2

(* A call that stays in its entry, or comes into it. *)
LEMMA StaysInside ==
  ASSUME Now, NEW t \in Call, Step(t), pc'[t] \in Inside, ~ Stick(t),
         pc[t] = "wait" => lock[t.id] = None
  PROVE  Occupied(t.id)'
<1>1. t # stuck
  <2>1. CASE stuck = None
    BY <2>1, CallsTyped
  <2>2. CASE stuck # None /\ t = stuck
    <3>1. pc[t] \in {"wait", "replay"}
      BY <2>2 DEF Now, Core, NobodyReturns
    <3>2. pc[t] = "wait" => lock[t.id] # None
      BY <2>2, StuckStays
    <3>3. pc[t] = "replay"
      BY <3>1, <3>2
    <3>4. ReplayTakesIds(t)
      BY <3>3 DEF Step, LookUp, Found, ChallengeIgnored, ChallengeUnknownId, Create,
         TakeLock, Goes, Return, OnBareEntry, Sign, Accept, Reject, ChallengeBallot,
         FloodChallenge, Invalidate, Merge, NothingReady, Deliver, TakeShareLock,
         SendShare, Replay, ChallengeOwnShare, FirstRelease, Unlock,
         Release, Delayed, Resume, Flood, ChallengeKept, ChallengeLeaksLock
    <3>5. ids # None
      BY <2>2, <3>3, StuckStays DEF Inside
    <3> QED
      BY <3>4, <3>5 DEF ReplayTakesIds
  <2> QED
    BY <2>1, <2>2
<1>2. stuck' = stuck
  BY StepStuck
<1> QED
  BY <1>1, <1>2 DEF Occupied

(* A call that leaves its entry leaves it empty. *)
LEMMA LeavesEmpty ==
  ASSUME Now, NEW t \in Call, Step(t), OneMoves(t), pc[t] \in Inside,
         pc'[t] \notin Inside \/ Stick(t)
  PROVE  ~ Occupied(t.id)'
<1>1. ASSUME NEW u \in Call \ {t}, u.id = t.id PROVE pc'[u] \notin Inside
  BY <1>1, OneInside, OthersInside
<1>2. pc'[t] \notin Inside \/ stuck' = t
  BY DEF Stick
<1> QED
  BY <1>1, <1>2 DEF Occupied

LEMMA OutsideStays ==
  ASSUME Now, NEW t \in Call, Step(t), OneMoves(t), pc[t] \notin Inside, pc'[t] \notin Inside
  PROVE  Occupied(t.id)' <=> Occupied(t.id)
BY OthersInside DEF Occupied

(* A call that is outside the entries changes none, but for a new one. *)
LEMMA OutsideSteps ==
  ASSUME Now, NEW t \in Call, Step(t), pc[t] \notin Inside
  PROVE  \/ UNCHANGED <<entries, tally, flooded, tells, chosen>>
         \/ ChallengeUnknownId(t) \/ Create(t)
BY DEF Step, rest, Found, ChallengeIgnored, ChallengeUnknownId, Create,
   TakeLock, Goes, Return, OnBareEntry, Sign, Accept, Reject, ChallengeBallot,
   FloodChallenge, Invalidate, Merge, NothingReady, Deliver, TakeShareLock,
   SendShare, Replay, ReplayTakesIds, ChallengeOwnShare, FirstRelease, Unlock,
   Release, Delayed, Resume, Flood, ChallengeKept, ChallengeLeaksLock, Stick, Inside

(* The section of a call goes on as it was while others take steps. *)
LEMMA ProgressKept ==
  ASSUME NEW u \in Call, Progress(u), pc'[u] = pc[u], View(u.id)' = View(u.id),
         shown'[u.id] = shown[u.id], (u \in tells') = (u \in tells),
         pc[u] = "verify" => sigs'[u] = sigs[u], chosen'[u] = chosen[u]
  PROVE  Progress(u)'
BY DEF Progress, Section

LEMMA OtherSections ==
  ASSUME Now, NEW t \in Call, Step(t), OneMoves(t), Shows,
         NEW u \in Call \ {t}, pc'[u] \in Inside, u # stuck'
  PROVE  Progress(u)'
<1>1. pc[u] \in Inside /\ u # stuck /\ pc'[u] = pc[u] /\ Progress(u)
  BY OthersInside DEF Now, Core, Sections
<1>2. View(u.id)' = View(u.id)
  <2>1. CASE u.id # t.id
    BY <2>1, OtherViews, CallsTyped
  <2>2. CASE u.id = t.id
    <3>1. pc[t] \notin Inside
      BY <1>1, <2>2, OneInside
    <3>2. t.id \in known
      BY <1>1, <2>2 DEF Now, LockingInv, EntryFirst, Inside
    <3>3. UNCHANGED <<entries, tally, flooded>>
      BY <3>1, <3>2, OutsideSteps DEF ChallengeUnknownId, Create
    <3> QED
      BY <3>3, ViewsKept
  <2> QED
    BY <2>1, <2>2
<1>3. shown'[u.id] = shown[u.id]
  <2>1. Occupied(u.id)' /\ u.id \in EntryId
    BY CallsTyped DEF Occupied
  <2> QED
    BY <2>1 DEF Shows
<1>4. (u \in tells') = (u \in tells) /\ chosen'[u] = chosen[u]
  BY DEF Now, LockingInv, Typed, Step, rest, Found, ChallengeIgnored, ChallengeUnknownId,
     Create, TakeLock, Return, OnBareEntry, Sign, Accept, Reject, ChallengeBallot,
     FloodChallenge, Invalidate, Merge, NothingReady, Deliver, TakeShareLock,
     SendShare, Replay, ReplayTakesIds, ChallengeOwnShare, FirstRelease, Unlock,
     Release, Delayed, Resume, Flood, ChallengeKept, ChallengeLeaksLock, Stick
<1>5. ASSUME pc[u] = "verify" PROVE sigs'[u] = sigs[u]
  <2>1. u.kind = "post"
    BY <1>5, KindAt
  <2>2. CASE Sign(t) \/ Merge(t)
    <3>1. t.kind # "challenge" /\ pc[t] \in Inside
      BY <2>2 DEF Sign, Merge, Goes, Inside
    <3>2. u.id # t.id
      BY <1>1, <3>1, OneInside
    <3>3. u.ballot # t.ballot
      BY <2>1, <3>1, <3>2, BallotIds
    <3> QED
      BY <2>1, <2>2, <3>3, SignLists, MergeLists
  <2>3. CASE ~ (Sign(t) \/ Merge(t))
    BY <2>3 DEF Step, entries, Found, ChallengeIgnored, ChallengeUnknownId,
     Create, TakeLock, Return, OnBareEntry, Accept, Reject, ChallengeBallot,
     FloodChallenge, Invalidate, NothingReady, Deliver, TakeShareLock,
     SendShare, Replay, ReplayTakesIds, ChallengeOwnShare, FirstRelease, Unlock,
     Release, Delayed, Resume, Flood, ChallengeKept, ChallengeLeaksLock, Stick
  <2> QED
    BY <2>2, <2>3
<1> QED
  BY <1>1, <1>2, <1>3, <1>4, <1>5, ProgressKept

-----------------------------------------------------------------------------
(* The call's own section.                                                 *)

LEMMA NextFields ==
  ASSUME NEW i \in EntryId
  PROVE  /\ View(i)'.known <=> i \in known'
         /\ View(i)'.bare <=> i \in bare'
         /\ View(i)'.delivered <=> i \in delivered'
         /\ View(i)'.invalidated <=> i \in invalidated'
         /\ View(i)'.received = Received(i)'
         /\ View(i)'.pending = Pending(i)'
         /\ View(i)'.seen = IF i = NilId THEN {} ELSE seen'[i]
         /\ View(i)'.lists = [b \in Ballot |-> IF IdOf[b] = i THEN List(b)' ELSE {}]
         /\ View(i)'.tally = [b \in Ballot |-> IF IdOf[b] = i THEN tally'[b] ELSE 0]
         /\ View(i)'.flooded = {c \in flooded' : IdOf[c.ballot] = i}
BY DEF View

(* What a step leaves alone stays in the view. *)
LEMMA FieldsKept ==
  ASSUME NEW i \in EntryId
  PROVE  LET V == View(i)
             W == View(i)'
         IN  /\ known' = known => (W.known <=> V.known)
             /\ bare' = bare => (W.bare <=> V.bare)
             /\ delivered' = delivered => (W.delivered <=> V.delivered)
             /\ invalidated' = invalidated => (W.invalidated <=> V.invalidated)
             /\ Received(i)' = Received(i) => W.received = V.received
             /\ seen' = seen => W.seen = V.seen
             /\ challenges' = challenges => W.pending = V.pending
             /\ (\A b \in Ballot : List(b)' = List(b)) => W.lists = V.lists
             /\ tally' = tally => W.tally = V.tally
             /\ flooded' = flooded => W.flooded = V.flooded
<1>1. challenges' = challenges => Pending(i)' = Pending(i)
  BY DEF Pending
<1>2. ASSUME \A b \in Ballot : List(b)' = List(b)
      PROVE  View(i)'.lists = View(i).lists
  <2>1. [b \in Ballot |-> IF IdOf[b] = i THEN List(b) ELSE {}]'
          = [b \in Ballot |-> IF IdOf[b] = i THEN List(b) ELSE {}]
    BY <1>2
  <2> QED
    BY <2>1 DEF View
<1>3. ASSUME tally' = tally PROVE View(i)'.tally = View(i).tally
  <2>1. [b \in Ballot |-> IF IdOf[b] = i THEN tally[b] ELSE 0]'
          = [b \in Ballot |-> IF IdOf[b] = i THEN tally[b] ELSE 0]
    BY <1>3
  <2> QED
    BY <2>1 DEF View
<1>4. ASSUME flooded' = flooded PROVE View(i)'.flooded = View(i).flooded
  <2>1. {c \in flooded : IdOf[c.ballot] = i}' = {c \in flooded : IdOf[c.ballot] = i}
    BY <1>4
  <2> QED
    BY <2>1 DEF View
<1>5. /\ View(i)'.received = Received(i)' /\ View(i).received = Received(i)
      /\ View(i)'.pending = Pending(i)' /\ View(i).pending = Pending(i)
  BY NextFields, ViewFields
<1>9. /\ known' = known => (View(i)'.known <=> View(i).known)
      /\ bare' = bare => (View(i)'.bare <=> View(i).bare)
      /\ delivered' = delivered => (View(i)'.delivered <=> View(i).delivered)
      /\ invalidated' = invalidated => (View(i)'.invalidated <=> View(i).invalidated)
  BY NextFields, ViewFields
<1>10. seen' = seen => View(i)'.seen = View(i).seen
  BY DEF View
<1>11. (\A b \in Ballot : List(b)' = List(b)) => View(i)'.lists = View(i).lists
  BY <1>2
<1>12. /\ tally' = tally => View(i)'.tally = View(i).tally
       /\ flooded' = flooded => View(i)'.flooded = View(i).flooded
  BY <1>3, <1>4
<1>13. /\ Received(i)' = Received(i) => View(i)'.received = View(i).received
       /\ challenges' = challenges => View(i)'.pending = View(i).pending
  BY <1>1, <1>5
<1> QED
  BY <1>9, <1>10, <1>11, <1>12, <1>13, Zenon

(* A list grows. *)
LEMMA ListAdded ==
  ASSUME NEW b \in Ballot, NEW A, List(b)' = List(b) \cup A,
         \A c \in Ballot \ {b} : List(c)' = List(c)
  PROVE  LET V == View(IdOf[b])
             W == View(IdOf[b])'
         IN  W.lists = [V.lists EXCEPT ![b] = @ \cup A] /\ W.lists[b] = List(b)'
<1> DEFINE i == IdOf[b]
           K == [c \in Ballot |-> IF IdOf[c] = i THEN List(c) ELSE {}]
           L == [c \in Ballot |-> IF IdOf[c] = i THEN List(c)' ELSE {}]
<1>1. i \in EntryId
  BY HandlerLockingAssumption DEF EntryId
<1>2. L[b] = List(b)' /\ K[b] = List(b) /\ \A c \in Ballot \ {b} : L[c] = K[c]
  OBVIOUS
<1>3. L = [K EXCEPT ![b] = @ \cup A]
  BY <1>2
<1>4. View(i).lists = K /\ View(i)'.lists = L
  BY <1>1, ViewFields, NextFields
<1> HIDE DEF K, L, i
<1>5. View(i)'.lists = [View(i).lists EXCEPT ![b] = @ \cup A] /\ View(i)'.lists[b] = List(b)'
  BY <1>2, <1>3, <1>4
<1> QED
  BY <1>5 DEF i

LEMMA ReadyView ==
  ASSUME NEW i \in EntryId
  PROVE  ReadyIn(View(i)) = Ready(i)
<1>1. View(i).received = Received(i)
  BY ViewFields
<1>2. \A b \in Received(i) : View(i).lists[b] = List(b)
  <2>1. \A b \in Received(i) : b \in Ballot /\ IdOf[b] = i
    BY DEF Received
  <2> QED
    BY <2>1, ListShown
<1> QED
  BY <1>1, <1>2 DEF ReadyIn, Ready

(* The entry is still shown as it was when the call came. *)
LEMMA StillShown ==
  ASSUME Now, NEW t \in Call, Step(t), OneMoves(t), Shows, ~ Stick(t),
         pc[t] \in Inside, pc'[t] \in Inside
  PROVE  shown' = shown
<1>1. Occupied(t.id)'
  BY StaysInside DEF Inside
<1> QED
  BY <1>1, ShowsHere

LEMMA QuietSections ==
  ASSUME Now, NEW t \in Call, Step(t), OneMoves(t), Shows, t # stuck',
         \/ Return(t) \/ Reject(t) \/ NothingReady(t) \/ TakeShareLock(t)
         \/ Replay(t) \/ ReplayTakesIds(t)
  PROVE  Progress(t)'
<1> DEFINE V == View(t.id)
           s == shown[t.id]
<1>t. t.id \in EntryId /\ Typed /\ Recorded
  BY CallsTyped DEF Now, Core, LockingInv
<1>1. View(t.id)' = V
  BY ViewsKept DEF Return, Reject, NothingReady, TakeShareLock, Replay, ReplayTakesIds, rest
<1>2. shown'[t.id] = s
  <2>1. ~ Stick(t)
    BY CallsTyped DEF Stick
  <2>2. pc[t] \in Inside /\ pc'[t] \in Inside
    BY <1>t DEF Return, Reject, NothingReady, TakeShareLock, Replay, ReplayTakesIds, Goes,
       Inside, Typed
  <2> QED
    BY <2>1, <2>2, StillShown
<1>3. tells' = tells /\ sigs' = sigs /\ chosen' = chosen /\ stuck' = stuck
  BY DEF Return, Reject, NothingReady, TakeShareLock, Replay, ReplayTakesIds, rest, entries
<1>4. pc[t] \in Inside /\ Progress(t)
  <2>1. pc[t] \in Inside
    BY DEF Return, Reject, NothingReady, TakeShareLock, Replay, ReplayTakesIds, Goes, Inside
  <2> QED
    BY <2>1, <1>3 DEF Now, Core, Sections
<1>5. Section(t, pc[t], V, s, t \in tells, sigs[t], chosen[t])
  BY <1>4 DEF Progress
<1>6. SUFFICES Section(t, pc'[t], V, s, t \in tells, sigs[t], chosen[t])
  BY <1>1, <1>2, <1>3 DEF Progress
<1>v. /\ V.delivered <=> t.id \in delivered
      /\ V.invalidated <=> t.id \in invalidated
      /\ V.pending = Pending(t.id)
      /\ ReadyIn(V) = Ready(t.id)
  BY <1>t, ViewFields, ReadyView
<1> HIDE DEF V, s
<1>7. CASE Return(t)
  <2>1. pc[t] = "check" /\ pc'[t] = "unlock" /\ Settled(t)
    BY <1>7, <1>t DEF Return, Goes, Typed
  <2>2. t \notin tells
    BY <2>1, <1>t DEF Recorded, Early
  <2> QED
    BY <1>5, <1>v, <2>1, <2>2 DEF Section, Returns, Decided, Settled
<1>8. CASE Reject(t)
  <2>1. pc[t] = "verify" /\ pc'[t] = "unlock" /\ ~ Verifies(t.ballot) /\ ~ Enough(sigs[t])
    BY <1>8, <1>t DEF Reject, Goes, Typed
  <2>2. t \notin tells
    BY <2>1, <1>t DEF Recorded
  <2> QED
    BY <1>5, <2>1, <2>2 DEF Section, Rejects
<1>9. CASE NothingReady(t)
  <2>1. pc[t] = "signatures" /\ pc'[t] = "unlock" /\ Ready(t.id) = {}
    BY <1>9, <1>t DEF NothingReady, Goes, Typed
  <2> QED
    BY <1>5, <1>v, <2>1 DEF Section, FindsNone
<1>10. CASE TakeShareLock(t)
  <2>1. pc[t] = "handover" /\ pc'[t] = "send"
    BY <1>10, <1>t DEF TakeShareLock, Goes, Typed
  <2> QED
    BY <1>5, <2>1 DEF Section
<1>11. CASE Replay(t)
  <2>1. /\ pc[t] = "signatures" /\ pc'[t] = "replay"
        /\ Pending(t.id) # {} /\ \E b \in Ready(t.id) : Verifies(b)
    BY <1>11, <1>t DEF Replay, Goes, Typed
  <2>2. V.pending = s.pending
    BY <1>5, <2>1 DEF Section, SameOthers
  <2> QED
    BY <1>5, <1>v, <2>1, <2>2 DEF Section
<1>12. CASE ReplayTakesIds(t)
  <2>1. pc[t] = "replay" /\ pc'[t] = "replay"
    BY <1>12, <1>t DEF ReplayTakesIds, Goes, Typed
  <2> QED
    BY <1>5, <2>1
<1> QED
  BY <1>7, <1>8, <1>9, <1>10, <1>11, <1>12

LEMMA NotOccupied ==
  ASSUME Now, NEW t \in Call, Arrives(t), pc[t] \in {"start", "wait"}
  PROVE  ~ Occupied(t.id) /\ shown[t.id] = View(t.id)
<1>1. ASSUME NEW u \in Call, u.id = t.id PROVE pc[u] \notin Inside
  <2>1. pc[u] # "again" /\ lock[t.id] = None /\ u # None
    BY <1>1, CallsTyped DEF Arrives
  <2>2. pc[u] \in Holds => lock[u.id] = u
    BY DEF Now, Core, Alone
  <2> QED
    BY <1>1, <2>1, <2>2 DEF Holds
<1>2. ~ Occupied(t.id)
  BY <1>1 DEF Occupied
<1> QED
  BY <1>2, CallsTyped DEF Now, Core, Shown

LEMMA ArrivingSections ==
  ASSUME Now, NEW t \in Call, Step(t), OneMoves(t), Shows, Create(t) \/ TakeLock(t),
         Undisturbed'
  PROVE  Progress(t)' /\ shown' = shown
<1>t. t.id \in EntryId /\ Typed /\ EntryFirst
  BY CallsTyped DEF Now, LockingInv
<1>k. View(t.id).bare \/ View(t.id).delivered \/ View(t.id).invalidated => View(t.id).known
  BY <1>t, ViewFields DEF Now, Core, Recorded
<1>a. Arrives(t)
  BY ArrivingArrives
<1>b. pc[t] \in {"start", "wait"} /\ pc'[t] = IF t.kind = "challenge" THEN "find" ELSE "check"
  BY <1>t DEF Create, LookUp, TakeLock, Goes, Typed
<1>1. ~ Occupied(t.id) /\ shown[t.id] = View(t.id)
  BY <1>a, <1>b, NotOccupied
<1>2. Occupied(t.id)'
  BY <1>a, <1>b, StaysInside DEF Inside, Arrives, Stick, WaitsForEver, Replays
<1>3. shown' = shown
  BY <1>2, ShowsHere
<1>4. CASE Create(t)
  <2>1. /\ UNCHANGED <<bare, delivered, invalidated, seen, challenges, stored, sigs, tally,
                        flooded>>
        /\ t.id \in known' /\ t.kind # "challenge"
    BY <1>4 DEF Create, rest
  <2>2. /\ Received(t.id)' = Received(t.id) /\ Pending(t.id)' = Pending(t.id)
        /\ \A b \in Ballot : List(b)' = List(b)
    BY <2>1 DEF Received, Pending, List
  <2>3. LET V == View(t.id)
            W == View(t.id)'
        IN  /\ W.known /\ (W.bare <=> V.bare) /\ (W.delivered <=> V.delivered)
            /\ (W.invalidated <=> V.invalidated)
            /\ W.received = V.received /\ W.pending = V.pending /\ W.seen = V.seen
            /\ W.lists = V.lists /\ W.tally = V.tally /\ W.flooded = V.flooded
    BY <1>t, <2>1, <2>2, NextFields, FieldsKept
  <2>4. pc'[t] = "check"
    BY <1>b, <2>1
  <2> QED
    BY <1>1, <1>3, <1>k, <2>1, <2>3, <2>4 DEF Progress, Section, Decided, SameLists, SameOthers
<1>5. CASE TakeLock(t)
  <2>1. View(t.id)' = View(t.id)
    BY <1>5, ViewsKept DEF TakeLock, rest
  <2>2. t.id \in known
    BY <1>5, <1>t DEF TakeLock, Goes, EntryFirst
  <2>3. t.kind = "challenge" => t.id \notin invalidated
    BY <1>5 DEF TakeLock, Overtakes, Undisturbed
  <2>4. View(t.id).known /\ (t.kind = "challenge" => ~ View(t.id).invalidated)
    BY <1>t, <2>2, <2>3, ViewFields
  <2> QED
    BY <1>1, <1>3, <1>b, <1>k, <2>1, <2>4 DEF Progress, Section, Decided, SameLists, SameOthers
<1> QED
  BY <1>3, <1>4, <1>5

(* Before a step that changes the entry. *)
LEMMA OwnSection ==
  ASSUME Now, NEW t \in Call, pc[t] \in Inside \ {"replay"}
  PROVE  Section(t, pc[t], View(t.id), shown[t.id], t \in tells, sigs[t], chosen[t])
BY AtWork DEF Progress

LEMMA SignSection ==
  ASSUME Now, NEW t \in Call, OneMoves(t), Sign(t), shown' = shown
  PROVE  Progress(t)'
<1> DEFINE V == View(t.id)
           W == View(t.id)'
           s == shown[t.id]
           b == t.ballot
<1>t. t.id \in EntryId /\ b \in Ballot /\ Typed /\ Recorded /\ Structs
  BY CallsTyped DEF Now, Core, LockingInv
<1>1. /\ pc[t] = "check" /\ pc'[t] = "verify" /\ t.kind = "post" /\ ~ Settled(t)
      /\ t.id \notin bare
      /\ UNCHANGED <<known, bare, delivered, invalidated, seen, challenges, tally, flooded>>
  BY <1>t DEF Sign, Goes, Typed, rest
<1>2. t.id = IdOf[b]
  BY <1>1, PostShape
<1>3. Section(t, "check", V, s, t \in tells, sigs[t], chosen[t])
  BY <1>1, OwnSection DEF Inside
<1>4. Decided(V, s, s.delivered, s.invalidated) /\ SameLists(V, s) /\ SameOthers(V, s)
  BY <1>3 DEF Section
<1>5. /\ List(b)' = List(b) \cup {Here} /\ sigs'[t] = List(b)'
      /\ \A c \in Ballot \ {b} : List(c)' = List(c) /\ stored'[c] = stored[c]
      /\ stored'[b] # None
  BY SignLists
<1>6. Received(t.id)' = Received(t.id) \cup {b}
  BY <1>t, <1>2, <1>5 DEF Received
<1>7. Pending(t.id)' = Pending(t.id)
  BY <1>1 DEF Pending
<1>8. V.lists[b] = List(b)
  BY <1>t, <1>2, ListShown
<1>9. W.lists = [V.lists EXCEPT ![b] = @ \cup {Here}] /\ W.lists[b] = sigs'[t]
  <2>1. LET X == View(IdOf[b])
            Y == View(IdOf[b])'
        IN  Y.lists = [X.lists EXCEPT ![b] = @ \cup {Here}] /\ Y.lists[b] = List(b)'
    BY <1>t, <1>5, ListAdded
  <2> QED
    BY <1>2, <1>5, <2>1
<1>10. /\ W.known /\ (W.bare <=> V.bare) /\ (W.delivered <=> V.delivered)
       /\ (W.invalidated <=> V.invalidated)
       /\ W.received = V.received \cup {b} /\ W.pending = V.pending /\ W.seen = V.seen
       /\ W.tally = V.tally /\ W.flooded = V.flooded
       /\ ~ V.bare /\ ~ V.delivered /\ ~ V.invalidated
  <2>1. V.known /\ t.id \in known
    BY <1>4, <1>t, ViewFields DEF Decided
  <2> QED
    BY <1>t, <1>1, <1>6, <2>1, ViewFields, NextFields, FieldsKept DEF Settled
<1> HIDE DEF V, W, s
<1>11. Undecided(s)
  BY <1>4, <1>10 DEF Undecided, Decided
<1>12. /\ s.lists = V.lists /\ s.received = V.received /\ s.seen = V.seen
       /\ s.pending = V.pending /\ s.tally = V.tally /\ s.flooded = V.flooded
  BY <1>4 DEF SameLists, SameOthers
<1>n. Here \notin s.lists[b]
  <2>1. t = PostOf(b) /\ pc[t] \in Early
    BY <1>1, PostShape DEF Early
  <2>2. Here \notin List(b)
    BY <1>t, <2>1 DEF Structs
  <2> QED
    BY <1>8, <1>12, <2>2
<1>13. Signed(t, W, s)
  BY <1>1, <1>9, <1>10, <1>11, <1>12, <1>n DEF Signed, Listed
<1>14. Decided(W, s, FALSE, FALSE) /\ SameOthers(W, s)
  BY <1>4, <1>10, <1>12 DEF Decided, SameOthers
<1>15. Section(t, "verify", W, s, (t \in tells)', sigs'[t], chosen'[t])
  BY <1>9, <1>13, <1>14 DEF Section
<1> QED
  BY <1>1, <1>15 DEF Progress, W, s

LEMMA AcceptSection ==
  ASSUME Now, NEW t \in Call, OneMoves(t), Accept(t), shown' = shown
  PROVE  Progress(t)'
<1> DEFINE V == View(t.id)
           W == View(t.id)'
           s == shown[t.id]
           b == t.ballot
<1>t. t.id \in EntryId /\ b \in Ballot /\ Typed /\ Recorded
  BY CallsTyped DEF Now, Core, LockingInv
<1>1. /\ pc[t] = "verify" /\ pc'[t] = "signatures" /\ Verifies(b)
      /\ UNCHANGED <<known, bare, delivered, invalidated, challenges, tally, flooded>>
      /\ seen' = [seen EXCEPT ![t.id] = @ \cup {Here}] /\ t \in tells'
  BY <1>t DEF Accept, Goes, Typed
<1>2. Section(t, "verify", V, s, t \in tells, sigs[t], chosen[t])
  BY <1>1, OwnSection DEF Inside
<1>3. Signed(t, V, s) /\ Decided(V, s, FALSE, FALSE) /\ SameOthers(V, s)
  BY <1>2 DEF Section
<1>4. t.kind = "post" /\ t.id \in VoteId /\ t.id # NilId
  BY <1>3, BallotIds DEF Signed
<1>5. /\ \A c \in Ballot : List(c)' = List(c)
      /\ \A c \in Ballot : stored'[c] = None <=> stored[c] = None
  BY AcceptLists
<1>6. Received(t.id)' = Received(t.id) /\ Pending(t.id)' = Pending(t.id)
  BY <1>1, <1>5 DEF Received, Pending
<1>7. W.lists = V.lists
  BY <1>t, <1>5, FieldsKept
<1>8. seen'[t.id] = seen[t.id] \cup {Here}
  BY <1>1, <1>4 DEF Now, Core, Recorded
<1>9. /\ (W.known <=> V.known) /\ (W.bare <=> V.bare) /\ (W.delivered <=> V.delivered)
      /\ (W.invalidated <=> V.invalidated)
      /\ W.received = V.received /\ W.pending = V.pending /\ W.seen = V.seen \cup {Here}
      /\ W.tally = V.tally /\ W.flooded = V.flooded
  BY <1>t, <1>1, <1>4, <1>6, <1>8, ViewFields, NextFields, FieldsKept
<1> HIDE DEF V, W, s
<1>10. Adds(t, s) = {Here} /\ Undecided(s) /\ V.seen = s.seen /\ Listed(V, s, b, {Here})
  BY <1>3, <1>4 DEF Adds, Signed
<1>11. Listed(W, s, b, {Here})
  BY <1>7, <1>9, <1>10 DEF Listed
<1>12. Taken(t, W, s, (t \in tells)')
  BY <1>1, <1>3, <1>4, <1>9, <1>10, <1>11 DEF Taken, Signed
<1>13. Decided(W, s, FALSE, FALSE) /\ SameOthers(W, s)
  BY <1>3, <1>9 DEF Decided, SameOthers
<1>14. Section(t, "signatures", W, s, (t \in tells)', sigs'[t], chosen'[t])
  BY <1>12, <1>13 DEF Section
<1> QED
  BY <1>1, <1>14 DEF Progress, W, s

LEMMA MergeSection ==
  ASSUME Now, NEW t \in Call, OneMoves(t), Merge(t), shown' = shown
  PROVE  Progress(t)'
<1> DEFINE V == View(t.id)
           W == View(t.id)'
           s == shown[t.id]
           b == t.ballot
           new == t.from \ (seen[t.id] \cup List(b))
<1>t. t.id \in EntryId /\ b \in Ballot /\ Typed /\ Recorded
  BY CallsTyped DEF Now, Core, LockingInv
<1>1. /\ pc[t] = "check" /\ pc'[t] = "signatures" /\ t.kind = "share" /\ ~ Settled(t)
      /\ t.id \notin bare
      /\ UNCHANGED <<known, bare, delivered, invalidated, challenges, tally, flooded>>
      /\ seen' = [seen EXCEPT ![t.id] = @ \cup new]
      /\ tells' = IF new = {} THEN tells ELSE tells \cup {t}
  BY <1>t DEF Merge, Goes, Typed
<1>2. t.id = IdOf[b] /\ t.id \in VoteId /\ t.id # NilId
  BY <1>1, BallotIds
<1>3. Section(t, "check", V, s, t \in tells, sigs[t], chosen[t])
  BY <1>1, OwnSection DEF Inside
<1>4. Decided(V, s, s.delivered, s.invalidated) /\ SameLists(V, s) /\ SameOthers(V, s)
  BY <1>3 DEF Section
<1>5. /\ List(b)' = List(b) \cup new
      /\ \A c \in Ballot \ {b} : List(c)' = List(c) /\ stored'[c] = stored[c]
      /\ stored'[b] # None
  BY MergeLists
<1>m. t \notin tells
  BY <1>1, <1>t DEF Recorded, Early
<1>s. seen'[t.id] = seen[t.id] \cup new
  BY <1>1, <1>2, <1>t DEF Recorded
<1>8. V.lists[b] = List(b) /\ V.seen = seen[t.id]
  BY <1>t, <1>2, ListShown, ViewFields
<1>o. new = t.from \ (V.seen \cup V.lists[b])
  BY <1>8
<1> HIDE DEF new
<1>6. Received(t.id)' = Received(t.id) \cup {b}
  BY <1>t, <1>2, <1>5 DEF Received
<1>7. Pending(t.id)' = Pending(t.id)
  BY <1>1 DEF Pending
<1>9. W.lists = [V.lists EXCEPT ![b] = @ \cup new]
  BY <1>t, <1>2, <1>5, ListAdded
<1>10. /\ W.known /\ (W.bare <=> V.bare) /\ (W.delivered <=> V.delivered)
       /\ (W.invalidated <=> V.invalidated)
       /\ W.received = V.received \cup {b} /\ W.pending = V.pending
       /\ W.seen = V.seen \cup new
       /\ W.tally = V.tally /\ W.flooded = V.flooded
       /\ ~ V.bare /\ ~ V.delivered /\ ~ V.invalidated
  <2>1. V.known /\ t.id \in known
    BY <1>4, <1>t, ViewFields DEF Decided
  <2> QED
    BY <1>t, <1>1, <1>2, <1>s, <1>6, <2>1, ViewFields, NextFields, FieldsKept DEF Settled
<1> HIDE DEF V, W, s
<1>11. Undecided(s)
  BY <1>4, <1>10 DEF Undecided, Decided
<1>12. /\ s.lists = V.lists /\ s.received = V.received /\ s.seen = V.seen
       /\ s.pending = V.pending /\ s.tally = V.tally /\ s.flooded = V.flooded
  BY <1>4 DEF SameLists, SameOthers
<1>13. Adds(t, s) = new
  BY <1>1, <1>o, <1>12 DEF Adds
<1>14. t \in tells' <=> new # {}
  BY <1>1, <1>m
<1>15. Listed(W, s, b, new) /\ W.seen = s.seen \cup new
  BY <1>9, <1>10, <1>12 DEF Listed
<1>16. Taken(t, W, s, (t \in tells)')
  BY <1>1, <1>11, <1>13, <1>14, <1>15 DEF Taken
<1>17. Decided(W, s, FALSE, FALSE) /\ SameOthers(W, s)
  BY <1>4, <1>10, <1>12 DEF Decided, SameOthers
<1>18. Section(t, "signatures", W, s, (t \in tells)', sigs'[t], chosen'[t])
  BY <1>16, <1>17 DEF Section
<1> QED
  BY <1>1, <1>18 DEF Progress, W, s

(* A step that leaves the lists of its entry alone. *)
LEMMA ListsOfEntry ==
  ASSUME NEW i \in EntryId, UNCHANGED <<stored, sigs, seen>>
  PROVE  LET V == View(i)
             W == View(i)'
         IN  W.received = V.received /\ W.seen = V.seen /\ W.lists = V.lists
<1>1. \A b \in Ballot : List(b)' = List(b)
  BY DEF List
<1>2. Received(i)' = Received(i)
  BY DEF Received
<1> QED
  BY <1>1, <1>2, FieldsKept

LEMMA FloodSection ==
  ASSUME Now, NEW t \in Call, OneMoves(t), shown' = shown,
         ChallengeBallot(t) \/ ChallengeOwnShare(t)
  PROVE  Progress(t)'
<1> DEFINE V == View(t.id)
           W == View(t.id)'
           s == shown[t.id]
           b == t.ballot
<1>t. t.id \in EntryId /\ b \in Ballot /\ Typed
  BY CallsTyped DEF Now, Core, LockingInv
<1>0. ASSUME NEW c \in OwnChallenges, NEW from \in Inside, NEW to \in Inside \ {"check"},
             FloodChallenge(t, from, to, c), IdOf[c.ballot] = t.id, t.kind # "challenge"
      PROVE  /\ pc[t] = from /\ pc'[t] = to
             /\ UNCHANGED <<entries, tally, tells, chosen>>
             /\ (W.known <=> V.known) /\ (W.bare <=> V.bare)
             /\ (W.delivered <=> V.delivered) /\ (W.invalidated <=> V.invalidated)
             /\ W.received = V.received /\ W.seen = V.seen /\ W.lists = V.lists
             /\ W.pending = V.pending /\ W.tally = V.tally
             /\ W.flooded = V.flooded \cup {c}
  <2>1. pc[t] = from /\ pc'[t] = to
    BY <1>0, <1>t, FloodMovesOne
  <2>2. UNCHANGED <<entries, tally, tells, chosen>> /\ flooded' = flooded \cup {c}
    BY <1>0 DEF FloodChallenge
  <2>3. {d \in flooded' : IdOf[d.ballot] = t.id}
          = {d \in flooded : IdOf[d.ballot] = t.id} \cup {c}
    BY <1>0, <2>2
  <2>4. W.flooded = V.flooded \cup {c}
    BY <2>3 DEF View
  <2>5. W.received = V.received /\ W.seen = V.seen /\ W.lists = V.lists
    BY <1>t, <2>2, ListsOfEntry DEF entries
  <2>6. /\ (W.known <=> V.known) /\ (W.bare <=> V.bare)
        /\ (W.delivered <=> V.delivered) /\ (W.invalidated <=> V.invalidated)
        /\ W.pending = V.pending /\ W.tally = V.tally
    BY <1>t, <2>2, FieldsKept DEF entries
  <2> QED
    BY <2>1, <2>2, <2>4, <2>5, <2>6
<1>1. CASE ChallengeBallot(t)
  <2>1. /\ FloodChallenge(t, "verify", "invalidate", ChallengeOf(t.id, b, Here))
        /\ ~ Verifies(b) /\ Enough(sigs[t])
    BY <1>1 DEF ChallengeBallot
  <2>2. pc[t] = "verify"
    BY <2>1 DEF FloodChallenge
  <2>3. Section(t, "verify", V, s, t \in tells, sigs[t], chosen[t])
    BY <2>2, OwnSection DEF Inside
  <2>4. /\ Signed(t, V, s) /\ Decided(V, s, FALSE, FALSE) /\ SameOthers(V, s)
        /\ sigs[t] = V.lists[b]
    BY <2>3 DEF Section
  <2>5. t.kind = "post" /\ t.id = IdOf[b]
    BY <2>4, PostShape DEF Signed
  <2>6. /\ ChallengeOf(t.id, b, Here) \in OwnChallenges
        /\ IdOf[ChallengeOf(t.id, b, Here).ballot] = t.id
    BY <1>t, <2>5, OwnMade DEF ChallengeOf
  <2>7. /\ pc'[t] = "invalidate"
        /\ (W.known <=> V.known) /\ (W.bare <=> V.bare)
        /\ (W.delivered <=> V.delivered) /\ (W.invalidated <=> V.invalidated)
        /\ W.received = V.received /\ W.seen = V.seen /\ W.lists = V.lists
        /\ W.pending = V.pending /\ W.tally = V.tally
        /\ W.flooded = V.flooded \cup {ChallengeOf(t.id, b, Here)}
    BY <1>0, <2>1, <2>5, <2>6 DEF Inside
  <2> HIDE DEF V, W, s
  <2>8. Signed(t, W, s)
    BY <2>4, <2>7 DEF Signed, Listed
  <2>9. Decided(W, s, FALSE, FALSE)
    BY <2>4, <2>7 DEF Decided
  <2>10. Flooding(W, s, ChallengeOf(t.id, b, Here))
    BY <2>4, <2>7 DEF SameOthers, Flooding
  <2>11. Section(t, "invalidate", W, s, (t \in tells)', sigs'[t], chosen'[t])
    BY <2>1, <2>4, <2>7, <2>8, <2>9, <2>10 DEF Section
  <2> QED
    BY <2>7, <2>11 DEF Progress, W, s
<1>2. CASE ChallengeOwnShare(t)
  <2>1. PICK c \in Ready(t.id) :
          /\ FloodChallenge(t, "signatures", "doubt", ChallengeOf(NilId, c, Here))
          /\ ~ Verifies(c)
    BY <1>2 DEF ChallengeOwnShare
  <2>2. pc[t] = "signatures"
    BY <2>1 DEF FloodChallenge
  <2>3. Section(t, "signatures", V, s, t \in tells, sigs[t], chosen[t])
    BY <2>2, OwnSection DEF Inside
  <2>4. /\ Taken(t, V, s, t \in tells) /\ Decided(V, s, FALSE, FALSE) /\ SameOthers(V, s)
    BY <2>3 DEF Section
  <2>5. t.kind # "challenge"
    BY <2>4 DEF Taken
  <2>6. /\ ChallengeOf(NilId, c, Here) \in OwnChallenges
        /\ IdOf[ChallengeOf(NilId, c, Here).ballot] = t.id
        /\ c \in ReadyIn(V)
    BY <1>t, OwnMade, ReadyView DEF ChallengeOf, Ready, Received
  <2>7. /\ pc'[t] = "doubt" /\ tells' = tells
        /\ (W.known <=> V.known) /\ (W.bare <=> V.bare)
        /\ (W.delivered <=> V.delivered) /\ (W.invalidated <=> V.invalidated)
        /\ W.received = V.received /\ W.seen = V.seen /\ W.lists = V.lists
        /\ W.pending = V.pending /\ W.tally = V.tally
        /\ W.flooded = V.flooded \cup {ChallengeOf(NilId, c, Here)}
    BY <1>0, <2>1, <2>5, <2>6 DEF Inside
  <2> HIDE DEF V, W, s
  <2>8. Taken(t, W, s, (t \in tells)')
    BY <2>4, <2>7 DEF Taken, Listed
  <2>9. Decided(W, s, FALSE, FALSE) /\ c \in ReadyIn(W)
    BY <2>4, <2>6, <2>7 DEF Decided, ReadyIn
  <2>10. Flooding(W, s, ChallengeOf(NilId, c, Here))
    BY <2>4, <2>7 DEF SameOthers, Flooding
  <2>11. Section(t, "doubt", W, s, (t \in tells)', sigs'[t], chosen'[t])
    BY <2>1, <2>8, <2>9, <2>10 DEF Section
  <2> QED
    BY <2>7, <2>11 DEF Progress, W, s
<1> QED
  BY <1>1, <1>2

LEMMA InvalidateSection ==
  ASSUME Now, NEW t \in Call, OneMoves(t), shown' = shown, Invalidate(t) \/ FirstRelease(t)
  PROVE  Progress(t)'
<1> DEFINE V == View(t.id)
           W == View(t.id)'
           s == shown[t.id]
           b == t.ballot
<1>t. t.id \in EntryId /\ b \in Ballot /\ Typed /\ Recorded
  BY CallsTyped DEF Now, Core, LockingInv
<1>1. /\ UNCHANGED <<known, bare, delivered, seen, challenges, stored, sigs, tally, flooded,
                     tells>>
      /\ invalidated' = invalidated \cup {t.id}
      /\ \/ pc[t] = "invalidate" /\ pc'[t] = "unlock"
         \/ pc[t] = "doubt" /\ pc'[t] = "again"
  BY <1>t DEF Invalidate, FirstRelease, rest, Goes, Typed
<1>2. Section(t, pc[t], V, s, t \in tells, sigs[t], chosen[t])
  BY <1>1, OwnSection DEF Inside
<1>4. /\ (W.known <=> V.known) /\ (W.bare <=> V.bare)
      /\ (W.delivered <=> V.delivered) /\ W.invalidated
      /\ W.pending = V.pending /\ W.tally = V.tally /\ W.flooded = V.flooded
  <2>1. W.invalidated
    BY <1>1 DEF View
  <2> QED
    BY <1>t, <1>1, <2>1, FieldsKept
<1>5. W.received = V.received /\ W.seen = V.seen /\ W.lists = V.lists
  BY <1>t, <1>1, ListsOfEntry
<1> HIDE DEF V, W, s
<1>6. CASE pc[t] = "invalidate"
  <2>1. /\ Signed(t, V, s) /\ Decided(V, s, FALSE, FALSE)
        /\ ~ Verifies(b) /\ Enough(V.lists[b])
        /\ Flooding(V, s, ChallengeOf(t.id, b, Here))
    BY <1>2, <1>6 DEF Section
  <2>2. t \notin tells'
    BY <1>1, <1>6, <1>t DEF Recorded
  <2>3. Signed(t, W, s) /\ Decided(W, s, FALSE, TRUE)
    BY <1>4, <1>5, <2>1 DEF Signed, Listed, Decided
  <2>4. Flooding(W, s, ChallengeOf(t.id, b, Here)) /\ Enough(W.lists[b])
    BY <1>4, <1>5, <2>1 DEF Flooding
  <2>5. Challenges(t, W, s, (t \in tells)')
    BY <2>1, <2>2, <2>3, <2>4 DEF Challenges
  <2>6. Section(t, "unlock", W, s, (t \in tells)', sigs'[t], chosen'[t])
    BY <2>5 DEF Section
  <2> QED
    BY <1>1, <1>6, <2>6 DEF Progress, W, s
<1>7. CASE pc[t] = "doubt"
  <2>1. Taken(t, V, s, t \in tells) /\ Decided(V, s, FALSE, FALSE)
    BY <1>2, <1>7 DEF Section
  <2>2. PICK c \in ReadyIn(V) : ~ Verifies(c) /\ Flooding(V, s, ChallengeOf(NilId, c, Here))
    BY <1>2, <1>7 DEF Section
  <2>3. Taken(t, W, s, (t \in tells)') /\ Decided(W, s, FALSE, TRUE)
    BY <1>1, <1>4, <1>5, <2>1 DEF Taken, Listed, Decided
  <2>4. Flooding(W, s, ChallengeOf(NilId, c, Here)) /\ c \in ReadyIn(W)
    BY <1>4, <1>5, <2>2 DEF Flooding, ReadyIn
  <2>5. Section(t, "again", W, s, (t \in tells)', sigs'[t], chosen'[t])
    BY <2>2, <2>3, <2>4 DEF Section
  <2> QED
    BY <1>1, <1>7, <2>5 DEF Progress, W, s
<1> QED
  BY <1>1, <1>6, <1>7

LEMMA DeliverSection ==
  ASSUME Now, NEW t \in Call, OneMoves(t), shown' = shown, Deliver(t)
  PROVE  Progress(t)'
<1> DEFINE V == View(t.id)
           W == View(t.id)'
           s == shown[t.id]
<1>t. t.id \in EntryId /\ Typed
  BY CallsTyped DEF Now, Core, LockingInv
<1>1. /\ UNCHANGED <<known, bare, invalidated, seen, challenges, stored, sigs, tally, flooded,
                     tells>>
      /\ delivered' = delivered \cup {t.id}
      /\ pc[t] = "signatures" /\ pc'[t] = "handover"
      /\ Pending(t.id) = {} /\ chosen'[t] \in Ready(t.id) /\ Verifies(chosen'[t])
  BY <1>t DEF Deliver, Goes, Typed
<1>2. Section(t, pc[t], V, s, t \in tells, sigs[t], chosen[t])
  BY <1>1, OwnSection DEF Inside
<1>4. /\ (W.known <=> V.known) /\ (W.bare <=> V.bare)
      /\ (W.invalidated <=> V.invalidated) /\ W.delivered
      /\ W.pending = V.pending /\ W.tally = V.tally /\ W.flooded = V.flooded
      /\ V.pending = {}
  <2>1. W.delivered /\ V.pending = {}
    BY <1>1 DEF View
  <2> QED
    BY <1>t, <1>1, <2>1, FieldsKept
<1>5. W.received = V.received /\ W.seen = V.seen /\ W.lists = V.lists
  BY <1>t, <1>1, ListsOfEntry
<1>6. chosen'[t] \in ReadyIn(V)
  BY <1>t, <1>1, ReadyView
<1> HIDE DEF V, W, s
<1>7. Taken(t, V, s, t \in tells) /\ Decided(V, s, FALSE, FALSE) /\ SameOthers(V, s)
  BY <1>1, <1>2 DEF Section
<1>8. Taken(t, W, s, (t \in tells)') /\ Decided(W, s, TRUE, FALSE) /\ SameOthers(W, s)
  BY <1>1, <1>4, <1>5, <1>7 DEF Taken, Listed, Decided, SameOthers
<1>9. chosen'[t] \in ReadyIn(W) /\ s.pending = {}
  BY <1>4, <1>5, <1>6, <1>7 DEF ReadyIn, SameOthers
<1>10. Section(t, "handover", W, s, (t \in tells)', sigs'[t], chosen'[t])
  BY <1>1, <1>8, <1>9 DEF Section
<1> QED
  BY <1>1, <1>10 DEF Progress, W, s

LEMMA SendShareSection ==
  ASSUME Now, NEW t \in Call, OneMoves(t), shown' = shown, SendShare(t)
  PROVE  Progress(t)'
<1> DEFINE V == View(t.id)
           W == View(t.id)'
           s == shown[t.id]
           c == chosen[t]
<1>t. t.id \in EntryId /\ Typed
  BY CallsTyped DEF Now, Core, LockingInv
<1>1. /\ UNCHANGED <<entries, flooded, tells>>
      /\ tally' = [tally EXCEPT ![c] = @ + 1]
      /\ pc[t] = "send" /\ pc'[t] = "unlock"
  BY <1>t DEF SendShare, Goes, Typed
<1>2. Section(t, pc[t], V, s, t \in tells, sigs[t], chosen[t])
  BY <1>1, OwnSection DEF Inside
<1>4. /\ (W.known <=> V.known) /\ (W.bare <=> V.bare) /\ (W.delivered <=> V.delivered)
      /\ (W.invalidated <=> V.invalidated)
      /\ W.pending = V.pending /\ W.flooded = V.flooded
  BY <1>t, <1>1, FieldsKept DEF entries
<1>5. W.received = V.received /\ W.seen = V.seen /\ W.lists = V.lists
  BY <1>t, <1>1, ListsOfEntry DEF entries
<1>6. c \in Ready(t.id) /\ Verifies(c) /\ c \in ReadyIn(V)
  <2>1. c \in ReadyIn(V) /\ Verifies(c)
    BY <1>1, <1>2 DEF Section
  <2> QED
    BY <1>t, <2>1, ReadyView
<1>7. c \in Ballot /\ IdOf[c] = t.id
  BY <1>6 DEF Ready, Received
<1>8. W.tally = [V.tally EXCEPT ![c] = @ + 1]
  <2>1. V.tally = [b \in Ballot |-> IF IdOf[b] = t.id THEN tally[b] ELSE 0]
    BY <1>t, ViewFields
  <2>2. W.tally = [b \in Ballot |-> IF IdOf[b] = t.id THEN tally'[b] ELSE 0]
    BY <1>t, NextFields
  <2> HIDE DEF V, W, c
  <2> QED
    BY <1>1, <1>7, <1>t, <2>1, <2>2 DEF Typed
<1> HIDE DEF V, W, s
<1>9. /\ Taken(t, V, s, t \in tells) /\ Decided(V, s, TRUE, FALSE) /\ SameOthers(V, s)
      /\ s.pending = {}
  BY <1>1, <1>2 DEF Section
<1>10. Taken(t, W, s, (t \in tells)') /\ Decided(W, s, TRUE, FALSE)
  BY <1>1, <1>4, <1>5, <1>9 DEF Taken, Listed, Decided
<1>11. W.pending = s.pending /\ W.flooded = s.flooded /\ c \in ReadyIn(W)
       /\ W.tally = [s.tally EXCEPT ![c] = @ + 1]
  BY <1>4, <1>5, <1>6, <1>8, <1>9 DEF ReadyIn, SameOthers
<1>12. Delivers(t, W, s, (t \in tells)')
  BY <1>6, <1>9, <1>10, <1>11 DEF Delivers
<1>13. Section(t, "unlock", W, s, (t \in tells)', sigs'[t], chosen'[t])
  BY <1>12 DEF Section
<1> QED
  BY <1>1, <1>13 DEF Progress, W, s

LEMMA KeptSection ==
  ASSUME Now, NEW t \in Call, OneMoves(t), shown' = shown, ChallengeKept(t)
  PROVE  Progress(t)'
<1> DEFINE V == View(t.id)
           W == View(t.id)'
           s == shown[t.id]
<1>t. t.id \in EntryId /\ Typed /\ Recorded
  BY CallsTyped DEF Now, Core, LockingInv
<1>1. /\ UNCHANGED <<known, bare, delivered, invalidated, seen, stored, sigs, tally, flooded,
                     tells>>
      /\ challenges' = challenges \cup {t} /\ t.ballot \notin Received(t.id)
      /\ pc[t] = "find" /\ pc'[t] = "unlock"
  BY <1>t DEF ChallengeKept, rest, Goes, Typed
<1>2. Section(t, pc[t], V, s, t \in tells, sigs[t], chosen[t])
  BY <1>1, OwnSection DEF Inside
<1>3. Pending(t.id)' = Pending(t.id) \cup {t}
  BY <1>1 DEF Pending
<1>4. /\ (W.known <=> V.known) /\ (W.bare <=> V.bare) /\ (W.delivered <=> V.delivered)
      /\ (W.invalidated <=> V.invalidated) /\ W.tally = V.tally
      /\ W.pending = V.pending \cup {t} /\ W.flooded = V.flooded
      /\ t.ballot \notin V.received
  <2>1. W.pending = V.pending \cup {t} /\ t.ballot \notin V.received
    BY <1>1, <1>3 DEF View
  <2> QED
    BY <1>t, <1>1, <2>1, FieldsKept
<1>5. W.received = V.received /\ W.seen = V.seen /\ W.lists = V.lists
  BY <1>t, <1>1, ListsOfEntry
<1>6. t \notin tells
  BY <1>1, <1>t DEF Recorded
<1> HIDE DEF V, W, s
<1>7. /\ t.kind = "challenge" /\ s.known /\ ~ s.invalidated
      /\ Decided(V, s, s.delivered, s.invalidated)
      /\ SameLists(V, s) /\ SameOthers(V, s)
  BY <1>1, <1>2 DEF Section
<1>8. Keeps(t, W, s, (t \in tells)')
  BY <1>1, <1>4, <1>5, <1>6, <1>7 DEF Keeps, Decided, SameLists, SameOthers
<1>9. Section(t, "unlock", W, s, (t \in tells)', sigs'[t], chosen'[t])
  BY <1>8 DEF Section
<1> QED
  BY <1>1, <1>9 DEF Progress, W, s

(* Every step inside an entry. *)
LEMMA OwnProgress ==
  ASSUME Now, NEW t \in Call, Step(t), OneMoves(t), Shows, Undisturbed',
         pc'[t] \in Inside, t # stuck'
  PROVE  Progress(t)'
<1>1. CASE Create(t) \/ TakeLock(t)
  BY <1>1, ArrivingSections
<1>2. CASE \/ Return(t) \/ Reject(t) \/ NothingReady(t) \/ TakeShareLock(t)
           \/ Replay(t) \/ ReplayTakesIds(t)
  BY <1>2, QuietSections
<1>3. CASE \/ Sign(t) \/ Accept(t) \/ Merge(t) \/ ChallengeBallot(t) \/ ChallengeOwnShare(t)
           \/ Invalidate(t) \/ FirstRelease(t) \/ Deliver(t) \/ SendShare(t)
           \/ ChallengeKept(t)
  <2>1. pc[t] \in Inside
    BY <1>3 DEF Sign, Accept, Merge, ChallengeBallot, ChallengeOwnShare, FloodChallenge,
       Invalidate, FirstRelease, Deliver, SendShare, ChallengeKept, Goes, Inside
  <2>2. shown' = shown
    BY <2>1, StillShown DEF Stick
  <2> QED
    BY <1>3, <2>2, SignSection, AcceptSection, MergeSection, FloodSection,
       InvalidateSection, DeliverSection, SendShareSection, KeptSection
<1>4. CASE \/ Waiting(t) \/ Delayed(t) \/ Unlock(t) \/ Resume(t)
  BY <1>4, UnlockingLeaves, ResumingLeaves DEF Waiting, LookUp, Found, ChallengeIgnored,
     ChallengeUnknownId, Goes, OnBareEntry, Flood, ChallengeLeaksLock, Stick, Delayed,
     Leaves, Inside, Now, LockingInv, Typed
<1> QED
  BY <1>1, <1>2, <1>3, <1>4, StepOf DEF Working

LEMMA SectionsKept ==
  ASSUME Now, NEW t \in Call, Step(t), OneMoves(t), Shows, Undisturbed'
  PROVE  Sections'
BY OwnProgress, OtherSections DEF Sections

-----------------------------------------------------------------------------
(* The server's own challenges, and what is shown.                         *)

LEMMA FloodedStep ==
  ASSUME Now, NEW t \in Call, Step(t)
  PROVE  \/ flooded' = flooded
         \/ \E c \in OwnChallenges :
              /\ flooded' = flooded \cup {c} /\ pc'[c] # "absent"
              /\ ChallengeBallot(t) \/ ChallengeOwnShare(t)
<1>t. Typed
  BY DEF Now, LockingInv
<1>1. CASE ChallengeBallot(t)
  <2>1. FloodChallenge(t, "verify", "invalidate", ChallengeOf(t.id, t.ballot, Here))
    BY <1>1 DEF ChallengeBallot
  <2>2. t.kind = "post"
    BY <2>1, KindAt DEF FloodChallenge
  <2>3. ChallengeOf(t.id, t.ballot, Here) \in OwnChallenges
    BY <2>2, PostShape, CallsTyped, OwnMade
  <2>4. pc'[ChallengeOf(t.id, t.ballot, Here)] # "absent"
    BY <1>t, <2>1, <2>2, <2>3, FloodMovesOne DEF Inside
  <2> QED
    BY <1>1, <2>1, <2>3, <2>4 DEF FloodChallenge
<1>2. CASE ChallengeOwnShare(t)
  <2>1. PICK b \in Ready(t.id) :
          FloodChallenge(t, "signatures", "doubt", ChallengeOf(NilId, b, Here))
    BY <1>2 DEF ChallengeOwnShare
  <2>2. t.kind # "challenge"
    BY <2>1, KindAt DEF FloodChallenge
  <2>3. ChallengeOf(NilId, b, Here) \in OwnChallenges
    BY OwnMade DEF Ready, Received
  <2>4. pc'[ChallengeOf(NilId, b, Here)] # "absent"
    BY <1>t, <2>1, <2>2, <2>3, FloodMovesOne DEF Inside
  <2> QED
    BY <1>2, <2>1, <2>3, <2>4 DEF FloodChallenge
<1>3. CASE ~ (ChallengeBallot(t) \/ ChallengeOwnShare(t))
  BY <1>3 DEF Step, rest, Found, ChallengeIgnored, ChallengeUnknownId,
     Create, TakeLock, Return, OnBareEntry, Sign, Accept, Reject, Invalidate, Merge,
     NothingReady, Deliver, TakeShareLock, SendShare, Replay, ReplayTakesIds,
     FirstRelease, Unlock, Release, Delayed, Resume, Flood, ChallengeKept,
     ChallengeLeaksLock, Stick
<1> QED
  BY <1>1, <1>2, <1>3

(* A challenge of its own is looked up only after it was shown. *)
LEMMA StartedShown ==
  ASSUME Now, NEW t \in Call, t \in OwnChallenges, Step(t), Undisturbed', pc[t] = "start"
  PROVE  t \in AllFlooded
<1>1. LookUp(t, "wait") \/ LookUp(t, "done") \/ LookUp(t, "check")
  BY DEF Step, Found, ChallengeIgnored, ChallengeUnknownId,
     Create, TakeLock, Goes, Return, OnBareEntry, Sign, Accept, Reject, ChallengeBallot,
     FloodChallenge, Invalidate, Merge, NothingReady, Deliver, TakeShareLock,
     SendShare, Replay, ReplayTakesIds, ChallengeOwnShare, FirstRelease, Unlock,
     Release, Delayed, Resume, Flood, ChallengeKept, ChallengeLeaksLock, Stick, WaitsForEver,
     Replays
<1>2. ~ LooksEarly(t)
  BY <1>1 DEF LookUp, Undisturbed
<1>3. t \in shown[IdOf[t.ballot]].flooded
  BY <1>2 DEF LooksEarly
<1>4. IdOf[t.ballot] \in VoteId
  BY CallsTyped, HandlerLockingAssumption
<1> QED
  BY <1>3, <1>4 DEF AllFlooded

LEMMA FloodedShown ==
  ASSUME Now, NEW t \in Call, Step(t), OneMoves(t), Shows
  PROVE  /\ AllFlooded \subseteq AllFlooded'
         /\ AllFlooded' \subseteq flooded'
<1>t. /\ t.id \in EntryId /\ Shown
      /\ AllFlooded \subseteq flooded /\ flooded \subseteq flooded'
  BY CallsTyped, FloodedStep DEF Now, Core, OwnCalls
<1>v. VoteId \subseteq EntryId
  BY DEF EntryId
<1>1. CASE shown' = shown
  BY <1>1, <1>t DEF AllFlooded
<1>2. CASE shown' = [shown EXCEPT ![t.id] = View(t.id)']
  <2>1. ASSUME NEW i \in VoteId
        PROVE  /\ shown[i].flooded \subseteq shown'[i].flooded
               /\ shown'[i].flooded \subseteq flooded'
    <3>1. shown[i].flooded \subseteq AllFlooded
      BY DEF AllFlooded
    <3>2. CASE i = t.id
      <4>1. View(i)'.flooded = {c \in flooded' : IdOf[c.ballot] = i}
        BY <1>v, NextFields
      <4>2. shown'[i] = View(i)'
        BY <1>2, <1>t, <3>2 DEF Shown
      <4>3. \A c \in shown[i].flooded : IdOf[c.ballot] = i
        BY <1>t, <1>v DEF Shown, ViewType
      <4> QED
        BY <1>t, <3>1, <4>1, <4>2, <4>3
    <3>3. CASE i # t.id
      <4>1. shown'[i] = shown[i]
        BY <1>2, <1>t, <1>v, <3>3 DEF Shown
      <4> QED
        BY <1>t, <3>1, <4>1
    <3> QED
      BY <3>2, <3>3
  <2>2. ASSUME NEW c \in AllFlooded PROVE c \in AllFlooded'
    <3>1. PICK i \in VoteId : c \in shown[i].flooded
      BY DEF AllFlooded
    <3>2. c \in shown'[i].flooded
      BY <2>1, <3>1
    <3> QED
      BY <3>2 DEF AllFlooded
  <2>3. ASSUME NEW c \in AllFlooded' PROVE c \in flooded'
    <3>1. PICK i \in VoteId : c \in shown'[i].flooded
      BY DEF AllFlooded
    <3> QED
      BY <2>1, <3>1
  <2> QED
    BY <2>2, <2>3
<1> QED
  BY <1>1, <1>2, ShowsHere

LEMMA OwnCallsKept ==
  ASSUME Now, NEW t \in Call, Step(t), OneMoves(t), Shows, Undisturbed'
  PROVE  OwnCalls'
<1>t. OwnCalls
  BY DEF Now, Core
<1>1. AllFlooded' \subseteq flooded' /\ AllFlooded \subseteq AllFlooded'
  BY FloodedShown
<1>2. flooded' \subseteq OwnChallenges
  BY <1>t, FloodedStep DEF OwnCalls
<1>3. ASSUME NEW c \in OwnChallenges, c \in flooded' PROVE pc'[c] # "absent"
  <2>1. CASE c \in flooded
    <3>1. pc[c] # "absent"
      BY <1>t, <2>1 DEF OwnCalls
    <3> QED
      BY <3>1, OwnShape DEF OneMoves
  <2>2. CASE c \notin flooded
    BY <1>3, <2>2, FloodedStep
  <2> QED
    BY <2>1, <2>2
<1>4. ASSUME NEW c \in OwnChallenges, c \notin AllFlooded' PROVE pc'[c] \in {"absent", "start"}
  <2>1. c \notin AllFlooded /\ pc[c] \in {"absent", "start"} /\ c \in Call
    BY <1>1, <1>4, <1>t, OwnShape DEF OwnCalls
  <2>2. CASE c # t
    BY <2>1, <2>2 DEF OneMoves
  <2>3. CASE c = t /\ pc[t] = "start"
    BY <2>1, <2>3, StartedShown
  <2>4. CASE c = t /\ pc[t] = "absent"
    BY <2>4 DEF Step, LookUp, Found, ChallengeIgnored, ChallengeUnknownId,
       Create, TakeLock, Goes, Return, OnBareEntry, Sign, Accept, Reject, ChallengeBallot,
       FloodChallenge, Invalidate, Merge, NothingReady, Deliver, TakeShareLock,
       SendShare, Replay, ReplayTakesIds, ChallengeOwnShare, FirstRelease, Unlock,
       Release, Delayed, Resume, Flood, ChallengeKept, ChallengeLeaksLock, Stick,
       WaitsForEver, Replays
  <2> QED
    BY <2>1, <2>2, <2>3, <2>4
<1> QED
  BY <1>1, <1>2, <1>3, <1>4 DEF OwnCalls

LEMMA NextViewTyped ==
  ASSUME Structs', Recorded', Typed', flooded' \subseteq OwnChallenges, NEW i \in EntryId
  PROVE  View(i)' \in ViewType(i)
<1>1. (\A b \in Ballot : List(b) \in SUBSET Server)'
  BY DEF Structs, List
<1>2. /\ Received(i)' \in SUBSET {b \in Ballot : IdOf[b] = i}
      /\ Pending(i)' \in SUBSET {c \in Call : c.id = i}
  BY DEF Received, Pending, Recorded
<1>3. (IF i = NilId THEN {} ELSE seen'[i]) \in SUBSET Server
  BY DEF Recorded, EntryId
<1>4. [b \in Ballot |-> IF IdOf[b] = i THEN List(b)' ELSE {}] \in [Ballot -> SUBSET Server]
  BY <1>1
<1>5. [b \in Ballot |-> IF IdOf[b] = i THEN tally'[b] ELSE 0] \in [Ballot -> Nat]
  BY DEF Typed
<1>6. {c \in flooded' : IdOf[c.ballot] = i} \in SUBSET {c \in OwnChallenges : IdOf[c.ballot] = i}
  OBVIOUS
<1> QED
  BY <1>2, <1>3, <1>4, <1>5, <1>6 DEF View, ViewType

LEMMA ViewTyped ==
  ASSUME Structs, Recorded, Typed, flooded \subseteq OwnChallenges, NEW i \in EntryId
  PROVE  View(i) \in ViewType(i)
<1>1. \A b \in Ballot : List(b) \in SUBSET Server
  BY DEF Structs, List
<1>2. /\ Received(i) \in SUBSET {b \in Ballot : IdOf[b] = i}
      /\ Pending(i) \in SUBSET {c \in Call : c.id = i}
  BY DEF Received, Pending, Recorded
<1>3. (IF i = NilId THEN {} ELSE seen[i]) \in SUBSET Server
  BY DEF Recorded, EntryId
<1>4. [b \in Ballot |-> IF IdOf[b] = i THEN List(b) ELSE {}] \in [Ballot -> SUBSET Server]
  BY <1>1
<1>5. [b \in Ballot |-> IF IdOf[b] = i THEN tally[b] ELSE 0] \in [Ballot -> Nat]
  BY DEF Typed
<1>6. {c \in flooded : IdOf[c.ballot] = i} \in SUBSET {c \in OwnChallenges : IdOf[c.ballot] = i}
  OBVIOUS
<1> QED
  BY <1>2, <1>3, <1>4, <1>5, <1>6 DEF View, ViewType

(* A challenge that went out for an entry comes with its end. *)
LEMMA FloodedEnds ==
  ASSUME Now, NEW t \in Call, pc[t] \in {"check", "find", "unlock", "replay"}, t # stuck
  PROVE  View(t.id).flooded # {} => View(t.id).invalidated
<1> DEFINE V == View(t.id)
           s == shown[t.id]
<1>1. Progress(t)
  BY DEF Now, Core, Sections, Inside
<1>2. s.flooded # {} => s.invalidated
  BY CallsTyped DEF Now, Core, Shown
<1>3. Section(t, pc[t], V, s, t \in tells, sigs[t], chosen[t])
  BY <1>1 DEF Progress
<1> HIDE DEF V, s
<1>4. CASE pc[t] \in {"check", "find"}
  BY <1>2, <1>3, <1>4 DEF Section, Decided, SameOthers, V
<1>5. CASE pc[t] = "replay"
  BY <1>2, <1>3, <1>5 DEF Section, SameOthers, Taken, Undecided, V
<1>6. CASE pc[t] = "unlock"
  BY <1>2, <1>3, <1>6 DEF Section, SameOthers, Taken, Signed, Undecided, Returns, Rejects,
     Challenges, FindsNone, Delivers, Keeps, Decided, V
<1> QED
  BY <1>4, <1>5, <1>6

LEMMA ExitView ==
  ASSUME Now, NEW t \in Call, Step(t), OneMoves(t), Shows, Undisturbed', ~ Occupied(t.id)'
  PROVE  View(t.id)'.flooded # {} => View(t.id)'.invalidated
<1>t. t.id \in EntryId /\ Typed /\ t # None
  BY CallsTyped DEF Now, Core, LockingInv
<1>0. ASSUME UNCHANGED <<flooded, invalidated>>,
             View(t.id).flooded # {} => View(t.id).invalidated
      PROVE  View(t.id)'.flooded # {} => View(t.id)'.invalidated
  BY <1>0, <1>t, ViewFields, NextFields
<1>1. CASE pc[t] \in Inside
  <2>1. pc'[t] \notin Inside \/ Stick(t)
    BY <1>1, StaysInside DEF Inside
  <2>2. /\ UNCHANGED <<flooded, invalidated>>
        /\ pc[t] \in {"check", "find", "unlock", "replay"} /\ t # stuck
    <3>1. CASE Stick(t)
      BY <1>1, <1>t, <3>1 DEF Stick, WaitsForEver, Replays, Inside, entries
    <3>2. CASE Unlock(t)
      <4>1. pc[t] = "unlock"
        BY <3>2, UnlockingLeaves
      <4>2. t # stuck
        BY <4>1, AtWork DEF Inside
      <4> QED
        BY <3>2, <4>1, <4>2 DEF Unlock, Release, entries, rest
    <3>3. CASE OnBareEntry(t) \/ ChallengeLeaksLock(t)
      <4>1. pc[t] \in {"check", "find"}
        BY <3>3 DEF OnBareEntry, ChallengeLeaksLock, Goes
      <4>2. t # stuck
        BY <4>1, AtWork DEF Inside
      <4> QED
        BY <3>3, <4>1, <4>2 DEF OnBareEntry, ChallengeLeaksLock, entries, rest
    <3>4. CASE Working(t)
      BY <1>t, <2>1, <3>4, WorkingWorks DEF Works, Stick
    <3>5. CASE FirstRelease(t)
      <4>1. pc[t] = "doubt" /\ pc'[t] = "again"
        BY <3>5, FirstReleaseReleases DEF Releases
      <4>2. ~ Stick(t)
        BY <4>1 DEF Stick, Replays
      <4> QED
        BY <2>1, <4>1, <4>2 DEF Inside
    <3>6. CASE Create(t) \/ TakeLock(t) \/ Delayed(t) \/ Resume(t)
      BY <1>1, <3>6 DEF Create, LookUp, TakeLock, Delayed, Resume, Release, Goes, Inside
    <3>7. CASE Found(t) \/ ChallengeIgnored(t) \/ ChallengeUnknownId(t) \/ Flood(t)
      BY <1>1, <3>7 DEF LookUp, Found, ChallengeIgnored, ChallengeUnknownId, Flood, Goes,
         Inside
    <3> QED
      BY <3>1, <3>2, <3>3, <3>4, <3>5, <3>6, <3>7, StepOf DEF Waiting
  <2> QED
    BY <1>0, <2>2, FloodedEnds
<1>2. CASE pc[t] \notin Inside
  <2>1. ~ Occupied(t.id) /\ UNCHANGED <<flooded, invalidated>>
    <3>1. pc'[t] \notin Inside
      <4>1. CASE Create(t) \/ TakeLock(t)
        <5>1. Arrives(t) /\ pc[t] \in {"start", "wait"}
          BY <4>1, ArrivingArrives DEF Create, LookUp, TakeLock, Goes
        <5>2. pc'[t] \in Inside => Occupied(t.id)'
          BY <5>1, StaysInside DEF Arrives, Inside, Stick, WaitsForEver, Replays
        <5> QED
          BY <5>2
      <4>2. CASE ~ (Create(t) \/ TakeLock(t))
        BY <1>2, <1>t, <4>2, WorkingWorks, FirstReleaseReleases, UnlockingLeaves,
           ResumingLeaves, StepOf DEF Works, Releases, Leaves, Waiting, LookUp, Found,
           ChallengeIgnored, ChallengeUnknownId, Goes, OnBareEntry, Flood,
           ChallengeLeaksLock, Stick, Delayed, Inside, Typed
      <4> QED
        BY <4>1, <4>2
    <3>2. ~ Occupied(t.id)
      BY <1>2, <3>1, OutsideStays
    <3>3. UNCHANGED <<flooded, invalidated>>
      BY <1>2, OutsideSteps DEF entries, ChallengeUnknownId, Create, rest
    <3> QED
      BY <3>2, <3>3
  <2>2. View(t.id).flooded # {} => View(t.id).invalidated
    BY <1>t, <2>1 DEF Now, Core, Shown
  <2> QED
    BY <1>0, <2>1, <2>2
<1> QED
  BY <1>1, <1>2

LEMMA ShownKept ==
  ASSUME Now, NEW t \in Call, Step(t), OneMoves(t), Shows, Undisturbed',
         Structs', Recorded', Typed', OwnCalls'
  PROVE  Shown'
<1>t. Shown /\ t.id \in EntryId
  BY CallsTyped DEF Now, Core
<1>1. shown' = [i \in EntryId |-> IF Occupied(i)' THEN shown[i] ELSE View(i)']
  BY DEF Shows
<1>2. shown' = [i \in EntryId |-> shown'[i]]
  BY <1>1
<1>3. ASSUME NEW i \in EntryId
      PROVE  /\ shown'[i] \in ViewType(i)
             /\ ~ Occupied(i)' => shown'[i] = View(i)'
             /\ shown'[i].flooded # {} => shown'[i].invalidated
  <2>1. CASE Occupied(i)'
    <3>1. shown'[i] = shown[i]
      BY <1>1, <2>1
    <3> QED
      BY <1>t, <2>1, <3>1 DEF Shown
  <2>2. CASE ~ Occupied(i)'
    <3>1. shown'[i] = View(i)'
      BY <1>1, <2>2
    <3>2. View(i)' \in ViewType(i)
      BY NextViewTyped DEF OwnCalls
    <3>3. shown'[i].flooded # {} => shown'[i].invalidated
      <4>1. CASE i = t.id
        BY <2>2, <3>1, <4>1, ExitView
      <4>2. CASE i # t.id
        <5>1. ~ Occupied(i) /\ View(i)' = View(i)
          BY <2>2, <4>2, OccupiedElsewhere, OtherViews
        <5>2. shown'[i] = shown[i]
          BY <1>t, <3>1, <5>1 DEF Shown
        <5> QED
          BY <1>t, <5>2 DEF Shown
      <4> QED
        BY <4>1, <4>2
    <3> QED
      BY <3>1, <3>2, <3>3
  <2> QED
    BY <2>1, <2>2
<1> QED
  BY <1>2, <1>3 DEF Shown

-----------------------------------------------------------------------------
(* The sections are there in every schedule without overtaking.            *)

LEMMA CoreInit == Init => Core
<1> SUFFICES ASSUME Init PROVE Core
  OBVIOUS
<1>1. /\ \A t \in Call : pc[t] \in {"start", "absent"}
      /\ ids = None /\ stuck = None /\ tells = {} /\ flooded = {} /\ challenges = {}
      /\ lock = [i \in EntryId |-> None]
      /\ known = {} /\ bare = {} /\ delivered = {} /\ invalidated = {}
      /\ seen = [i \in VoteId |-> {}]
      /\ tally = [b \in Ballot |-> 0]
      /\ stored = [b \in Ballot |-> None]
      /\ sigs = [t \in Call |-> {}]
      /\ shown = [i \in EntryId |-> View(i)]
  BY DEF Init
<1>2. Alone
  BY <1>1 DEF Alone, Holds, Inside
<1>3. \A b \in Ballot : List(b) = {}
  BY <1>1 DEF List
<1>4. Structs
  BY <1>1, <1>3 DEF Structs
<1>5. Recorded
  BY <1>1 DEF Recorded, Lost
<1>6. NobodyReturns
  BY <1>1 DEF NobodyReturns
<1>7. ASSUME NEW i \in EntryId
      PROVE  shown[i] = View(i) /\ View(i) \in ViewType(i) /\ View(i).flooded = {}
  <2>1. Typed /\ flooded \subseteq OwnChallenges
    BY <1>1, LockingInvInit DEF LockingInv
  <2>2. View(i) \in ViewType(i)
    BY <1>4, <1>5, <2>1, ViewTyped
  <2>3. View(i).flooded = {}
    BY <1>1 DEF View
  <2>4. shown[i] = View(i)
    BY <1>1
  <2> QED
    BY <2>2, <2>3, <2>4
<1>8. OwnCalls
  <2>1. AllFlooded = {}
    BY <1>7 DEF AllFlooded, EntryId
  <2>2. \A c \in OwnChallenges : c \in Call
    BY DEF Call
  <2> QED
    BY <1>1, <2>1, <2>2 DEF OwnCalls
<1>9. Shown
  <2>1. shown = [i \in EntryId |-> shown[i]]
    BY <1>1
  <2> QED
    BY <1>7, <2>1 DEF Shown
<1>10. Sections
  BY <1>1 DEF Sections, Inside
<1> QED
  BY <1>2, <1>4, <1>5, <1>6, <1>8, <1>9, <1>10 DEF Core

LEMMA CoreSame ==
  ASSUME Core, UNCHANGED <<pc, ids, lock, entries, rest, shown>>
  PROVE  Core'
<1> USE DEF entries, rest
<1>1. Alone'
  BY DEF Core, Alone
<1>2. \A b \in Ballot : List(b)' = List(b)
  BY DEF List
<1>3. Structs'
  BY <1>2 DEF Core, Structs
<1>4. \A i : Lost(i)' <=> Lost(i)
  BY DEF Lost
<1>5. Recorded'
  BY <1>4 DEF Core, Recorded
<1>6. NobodyReturns'
  <2>1. \A u : WaitsForEver(u)' <=> WaitsForEver(u)
    BY <1>4 DEF WaitsForEver, Replays
  <2>2. NobodyReturns
    BY DEF Core
  <2>3. \A u : Replays(u)' <=> Replays(u)
    BY DEF Replays
  <2> QED
    BY <2>1, <2>2, <2>3 DEF NobodyReturns
<1>7. OwnCalls'
  <2>1. AllFlooded' = AllFlooded
    BY DEF AllFlooded
  <2> QED
    BY <2>1 DEF Core, OwnCalls
<1>8. \A i : View(i)' = View(i)
  BY ViewsKept
<1>9. Shown'
  <2>1. \A i : Occupied(i)' <=> Occupied(i)
    BY DEF Occupied
  <2> QED
    BY <1>8, <2>1 DEF Core, Shown
<1>10. Sections'
  <2>1. ASSUME NEW t \in Call, pc'[t] \in Inside, t # stuck' PROVE Progress(t)'
    <3>1. Progress(t)
      BY <2>1 DEF Core, Sections
    <3> QED
      BY <3>1, <1>8, ProgressKept
  <2> QED
    BY <2>1 DEF Sections
<1> QED
  BY <1>1, <1>3, <1>5, <1>6, <1>7, <1>9, <1>10 DEF Core

LEMMA AddShareSame ==
  ASSUME Core, AddShare, Shows
  PROVE  UNCHANGED <<pc, ids, lock, up, overtaken, entries, rest, shown>>
<1>1. UNCHANGED <<pc, ids, lock, up, overtaken, entries, rest>>
  BY DEF AddShare
<1>2. \A i : View(i)' = View(i)
  BY <1>1, ViewsKept DEF rest
<1>3. \A i : Occupied(i)' <=> Occupied(i)
  BY <1>1 DEF Occupied, rest
<1>4. shown' = [i \in EntryId |-> IF Occupied(i) THEN shown[i] ELSE View(i)]
  BY <1>2, <1>3 DEF Shows
<1>5. shown' = [i \in EntryId |-> shown[i]]
  BY <1>4 DEF Core, Shown
<1> QED
  BY <1>1, <1>5 DEF Core, Shown

LEMMA DisturbedStays ==
  ASSUME NEW t \in Call, Step(t), Undisturbed'
  PROVE  Undisturbed
<1>1. up
  BY DEF Step, Found, LookUp, ChallengeIgnored, ChallengeUnknownId, Create, TakeLock, Goes,
     Return, OnBareEntry, Sign, Accept, Reject, ChallengeBallot, FloodChallenge, Invalidate,
     Merge, NothingReady, Deliver, TakeShareLock, SendShare, Replay, ReplayTakesIds,
     ChallengeOwnShare, FirstRelease, Unlock, Release, Delayed, Resume, Flood,
     ChallengeKept, ChallengeLeaksLock, Stick
<1>2. CASE \/ Found(t) \/ ChallengeIgnored(t) \/ ChallengeUnknownId(t) \/ Create(t)
           \/ TakeLock(t) \/ Delayed(t)
  <2>1. (overtaken' = (overtaken \/ LooksEarly(t))) \/ (overtaken' = (overtaken \/ Overtakes(t)))
    BY <1>2 DEF Found, LookUp, ChallengeIgnored, ChallengeUnknownId, Create, TakeLock, Delayed
  <2> QED
    BY <1>1, <2>1 DEF Undisturbed
<1>3. CASE ~ (\/ Found(t) \/ ChallengeIgnored(t) \/ ChallengeUnknownId(t) \/ Create(t)
              \/ TakeLock(t) \/ Delayed(t))
  <2>1. overtaken' = overtaken
    BY <1>3 DEF Step, Return, OnBareEntry, Sign, Accept, Reject, ChallengeBallot,
       FloodChallenge, Invalidate, Merge, NothingReady, Deliver, TakeShareLock, SendShare,
       Replay, ReplayTakesIds, ChallengeOwnShare, FirstRelease, Unlock, Release, Resume,
       Flood, ChallengeKept, ChallengeLeaksLock, Stick
  <2> QED
    BY <1>1, <2>1 DEF Undisturbed
<1> QED
  BY <1>2, <1>3

LEMMA CoreStep ==
  ASSUME Now, NEW t \in Call, Step(t), Shows, Undisturbed', LockingInv'
  PROVE  Core'
<1>1. OneMoves(t) /\ Alone'
  BY StepAlone
<1>2. Structs' /\ Recorded' /\ NobodyReturns' /\ OwnCalls' /\ Sections'
  BY <1>1, StructsKept, RecordedKept, NobodyReturnsKept, OwnCallsKept, SectionsKept
<1>3. Shown'
  BY <1>1, <1>2, ShownKept DEF LockingInv
<1> QED
  BY <1>1, <1>2, <1>3 DEF Core

LEMMA SectionInvNext == SectionInv /\ [Next]_vars => SectionInv'
<1> SUFFICES ASSUME SectionInv, [Next]_vars PROVE SectionInv'
  OBVIOUS
<1>1. LockingInv'
  BY LockingInvNext DEF SectionInv
<1>2. ASSUME Undisturbed' PROVE Core'
  <2>1. CASE AddShare /\ Shows
    <3>1. Undisturbed
      BY <1>2, <2>1 DEF AddShare, Undisturbed
    <3> QED
      BY <2>1, <3>1, AddShareSame, CoreSame DEF SectionInv
  <2>2. CASE UNCHANGED vars
    <3>1. Undisturbed
      BY <1>2, <2>2 DEF vars, locks, Undisturbed
    <3> QED
      BY <2>2, <3>1, CoreSame DEF SectionInv, vars, locks
  <2>3. ASSUME NEW t \in Call, Step(t), Shows PROVE Core'
    <3>1. Undisturbed
      BY <1>2, <2>3, DisturbedStays
    <3> QED
      BY <1>1, <1>2, <2>3, <3>1, CoreStep DEF SectionInv, Now
  <2> QED
    BY <2>1, <2>2, <2>3 DEF Next
<1> QED
  BY <1>1, <1>2 DEF SectionInv

LEMMA SectionsHold == Spec => []SectionInv
<1>1. Init => SectionInv
  BY CoreInit, LockingInvInit DEF SectionInv
<1> QED
  BY <1>1, SectionInvNext, PTL DEF Spec

-----------------------------------------------------------------------------
(* What VoteDelivery is shown of an entry.                                 *)

ShownTyped ==
  /\ shown = [i \in EntryId |-> shown[i]]
  /\ \A i \in EntryId : shown[i] \in ViewType(i)

LEMMA HereOnly ==
  ASSUME NEW X, NEW Y, NEW e
  PROVE  /\ ForHere(X, e)[Here] = X
         /\ ForHere(Y, e) = [ForHere(X, e) EXCEPT ![Here] = Y]
<1>1. Here \in Server
  BY HandlerLockingAssumption
<1> QED
  BY <1>1 DEF ForHere

LEMMA ShownAt ==
  ASSUME ShownTyped, NEW i \in EntryId
  PROVE  /\ i \in ShownKnown[Here] <=> shown[i].known
         /\ i \in ShownBare[Here] <=> shown[i].bare
         /\ i \in VoteId =>
              /\ i \in ShownDelivered[Here] <=> shown[i].delivered
              /\ i \in ShownInvalidated[Here] <=> shown[i].invalidated
              /\ ShownSeen[Here][i] = shown[i].seen
<1>1. /\ ShownKnown[Here] = {j \in EntryId : shown[j].known}
      /\ ShownBare[Here] = {j \in EntryId : shown[j].bare}
      /\ ShownDelivered[Here] = {j \in VoteId : shown[j].delivered}
      /\ ShownInvalidated[Here] = {j \in VoteId : shown[j].invalidated}
      /\ ShownSeen[Here] = [j \in VoteId |-> shown[j].seen]
  BY HereOnly DEF ShownKnown, ShownBare, ShownDelivered, ShownInvalidated, ShownSeen
<1> QED
  BY <1>1

LEMMA ShownAtBallot ==
  ASSUME ShownTyped, NEW b \in Ballot
  PROVE  /\ b \in ShownReceived[Here] <=> b \in shown[IdOf[b]].received
         /\ ShownSignatures[Here][b] = shown[IdOf[b]].lists[b]
         /\ ShownOwnCopies[Here][b] = 0
         /\ ShownTally[Here][b] = shown[IdOf[b]].tally[b]
<1>1. /\ ShownReceived[Here] = UNION {shown[j].received : j \in VoteId}
      /\ ShownSignatures[Here] = [c \in Ballot |-> shown[IdOf[c]].lists[c]]
      /\ ShownOwnCopies[Here] = [c \in Ballot |-> 0]
      /\ ShownTally[Here] = [c \in Ballot |-> shown[IdOf[c]].tally[c]]
  BY HereOnly DEF ShownReceived, ShownSignatures, ShownOwnCopies, ShownTally
<1>2. IdOf[b] \in VoteId /\ VoteId \subseteq EntryId
  BY HandlerLockingAssumption DEF EntryId
<1>3. ASSUME NEW j \in VoteId, b \in shown[j].received PROVE j = IdOf[b]
  BY <1>2, <1>3 DEF ShownTyped, ViewType
<1> QED
  BY <1>1, <1>2, <1>3

LEMMA ShownPending ==
  ASSUME ShownTyped, NEW i \in EntryId
  PROVE  {c \in ShownChallenges[Here] : c.id = i} = {AsChallenge(c) : c \in shown[i].pending}
<1>1. ShownChallenges[Here]
        = {AsChallenge(c) : c \in UNION {shown[j].pending : j \in EntryId}}
  BY HereOnly DEF ShownChallenges
<1>2. ASSUME NEW j \in EntryId, NEW c \in shown[j].pending PROVE AsChallenge(c).id = j
  BY <1>2 DEF ShownTyped, ViewType, AsChallenge
<1>3. ASSUME NEW d \in ShownChallenges[Here], d.id = i
      PROVE  d \in {AsChallenge(c) : c \in shown[i].pending}
  <2>1. PICK j \in EntryId : \E c \in shown[j].pending : d = AsChallenge(c)
    BY <1>1
  <2>2. j = i
    BY <1>2, <1>3, <2>1
  <2> QED
    BY <2>1, <2>2
<1>4. ASSUME NEW d \in {AsChallenge(c) : c \in shown[i].pending}
      PROVE  d \in ShownChallenges[Here] /\ d.id = i
  <2>1. PICK c \in shown[i].pending : d = AsChallenge(c)
    OBVIOUS
  <2>2. c \in UNION {shown[j].pending : j \in EntryId}
    OBVIOUS
  <2> QED
    BY <1>1, <1>2, <2>1, <2>2
<1> QED
  BY <1>3, <1>4

-----------------------------------------------------------------------------
(* An entry is shown anew.                                                 *)

LEMMA ShowsKnown ==
  ASSUME ShownTyped, NEW i \in EntryId, NEW W \in ViewType(i), shown' = [shown EXCEPT ![i] = W]
  PROVE  /\ (W.known <=> shown[i].known) => ShownKnown' = ShownKnown
         /\ W.known => ShownKnown' = [ShownKnown EXCEPT ![Here] = @ \cup {i}]
         /\ (W.bare <=> shown[i].bare) => ShownBare' = ShownBare
         /\ W.bare => ShownBare' = [ShownBare EXCEPT ![Here] = @ \cup {i}]
<1>1. shown'[i] = W /\ \A j \in EntryId \ {i} : shown'[j] = shown[j]
  BY DEF ShownTyped
<1> DEFINE K == {j \in EntryId : shown[j].known}
           L == {j \in EntryId : shown'[j].known}
           B == {j \in EntryId : shown[j].bare}
           C == {j \in EntryId : shown'[j].bare}
<1>2. /\ (W.known <=> shown[i].known) => L = K
      /\ W.known => L = K \cup {i}
      /\ (W.bare <=> shown[i].bare) => C = B
      /\ W.bare => C = B \cup {i}
  BY <1>1
<1>3. /\ ShownKnown' = ForHere(L, {}) /\ ShownKnown = ForHere(K, {})
      /\ ShownBare' = ForHere(C, {}) /\ ShownBare = ForHere(B, {})
  BY DEF ShownKnown, ShownBare, ForHere
<1> HIDE DEF K, L, B, C
<1> QED
  BY <1>2, <1>3, HereOnly

LEMMA ShowsSettled ==
  ASSUME ShownTyped, NEW i \in EntryId, NEW W \in ViewType(i), shown' = [shown EXCEPT ![i] = W]
  PROVE  /\ (W.delivered <=> shown[i].delivered) => ShownDelivered' = ShownDelivered
         /\ (W.invalidated <=> shown[i].invalidated) => ShownInvalidated' = ShownInvalidated
         /\ i \in VoteId /\ W.delivered
              => ShownDelivered' = [ShownDelivered EXCEPT ![Here] = @ \cup {i}]
         /\ i \in VoteId /\ W.invalidated
              => ShownInvalidated' = [ShownInvalidated EXCEPT ![Here] = @ \cup {i}]
<1>1. shown'[i] = W /\ \A j \in EntryId \ {i} : shown'[j] = shown[j]
  BY DEF ShownTyped
<1>v. VoteId \subseteq EntryId
  BY DEF EntryId
<1> DEFINE K == {j \in VoteId : shown[j].delivered}
           L == {j \in VoteId : shown'[j].delivered}
           B == {j \in VoteId : shown[j].invalidated}
           C == {j \in VoteId : shown'[j].invalidated}
<1>2. /\ (W.delivered <=> shown[i].delivered) => L = K
      /\ i \in VoteId /\ W.delivered => L = K \cup {i}
      /\ (W.invalidated <=> shown[i].invalidated) => C = B
      /\ i \in VoteId /\ W.invalidated => C = B \cup {i}
  BY <1>1, <1>v
<1>3. /\ ShownDelivered' = ForHere(L, {}) /\ ShownDelivered = ForHere(K, {})
      /\ ShownInvalidated' = ForHere(C, {}) /\ ShownInvalidated = ForHere(B, {})
  BY DEF ShownDelivered, ShownInvalidated, ForHere
<1> HIDE DEF K, L, B, C
<1> QED
  BY <1>2, <1>3, HereOnly

LEMMA ShowsSeen ==
  ASSUME ShownTyped, NEW i \in EntryId, NEW W \in ViewType(i), shown' = [shown EXCEPT ![i] = W]
  PROVE  /\ W.seen = shown[i].seen => ShownSeen' = ShownSeen
         /\ \A A : i \in VoteId /\ W.seen = shown[i].seen \cup A =>
              ShownSeen' = [ShownSeen EXCEPT ![Here][i] = @ \cup A]
<1>1. shown'[i] = W /\ \A j \in EntryId \ {i} : shown'[j] = shown[j]
  BY DEF ShownTyped
<1>v. VoteId \subseteq EntryId
  BY DEF EntryId
<1> DEFINE K == [j \in VoteId |-> shown[j].seen]
           L == [j \in VoteId |-> shown'[j].seen]
           e == [j \in VoteId |-> {}]
<1>2. ShownSeen' = ForHere(L, e) /\ ShownSeen = ForHere(K, e)
  BY DEF ShownSeen, ForHere
<1>3. W.seen = shown[i].seen => L = K
  BY <1>1, <1>v
<1>4. ASSUME NEW A, i \in VoteId, W.seen = shown[i].seen \cup A
      PROVE  ShownSeen' = [ShownSeen EXCEPT ![Here][i] = @ \cup A]
  <2>1. L = [K EXCEPT ![i] = @ \cup A]
    <3>1. L[i] = K[i] \cup A
      BY <1>1, <1>4
    <3>2. \A j \in VoteId \ {i} : L[j] = K[j]
      BY <1>1, <1>v
    <3> QED
      BY <1>4, <3>1, <3>2
  <2>2. ShownSeen[Here] = K /\ ShownSeen' = [ShownSeen EXCEPT ![Here] = L]
    BY <1>2, HereOnly
  <2> HIDE DEF K, L
  <2> QED
    BY <2>1, <2>2
<1> QED
  BY <1>2, <1>3, <1>4

LEMMA ShowsReceived ==
  ASSUME ShownTyped, NEW i \in EntryId, NEW W \in ViewType(i), shown' = [shown EXCEPT ![i] = W]
  PROVE  /\ W.received = shown[i].received => ShownReceived' = ShownReceived
         /\ \A b : i \in VoteId /\ W.received = shown[i].received \cup {b} =>
              ShownReceived' = [ShownReceived EXCEPT ![Here] = @ \cup {b}]
<1>1. shown'[i] = W /\ \A j \in EntryId \ {i} : shown'[j] = shown[j]
  BY DEF ShownTyped
<1>v. VoteId \subseteq EntryId
  BY DEF EntryId
<1> DEFINE K == UNION {shown[j].received : j \in VoteId}
           L == UNION {shown'[j].received : j \in VoteId}
<1>2. ShownReceived' = ForHere(L, {}) /\ ShownReceived = ForHere(K, {})
  BY DEF ShownReceived, ForHere
<1>3. ASSUME W.received = shown[i].received PROVE L = K
  <2>1. \A j \in VoteId : shown'[j].received = shown[j].received
    BY <1>1, <1>v, <1>3
  <2> QED
    BY <2>1
<1>4. ASSUME NEW b, i \in VoteId, W.received = shown[i].received \cup {b}
      PROVE  ShownReceived' = [ShownReceived EXCEPT ![Here] = @ \cup {b}]
  <2>1. ASSUME NEW x \in L PROVE x \in K \cup {b}
    <3>1. PICK j \in VoteId : x \in shown'[j].received
      OBVIOUS
    <3> QED
      BY <1>1, <1>v, <1>4, <3>1
  <2>2. ASSUME NEW x \in K PROVE x \in L
    <3>1. PICK j \in VoteId : x \in shown[j].received
      OBVIOUS
    <3>2. x \in shown'[j].received
      BY <1>1, <1>v, <1>4, <3>1
    <3> QED
      BY <3>2
  <2>3. b \in L
    <3>1. b \in shown'[i].received
      BY <1>1, <1>4
    <3> QED
      BY <1>4, <3>1
  <2>4. L = K \cup {b}
    BY <2>1, <2>2, <2>3
  <2>5. ShownReceived[Here] = K /\ ShownReceived' = [ShownReceived EXCEPT ![Here] = L]
    BY <1>2, HereOnly
  <2> HIDE DEF K, L
  <2> QED
    BY <2>4, <2>5
<1> QED
  BY <1>2, <1>3, <1>4

LEMMA ShowsLists ==
  ASSUME ShownTyped, NEW i \in EntryId, NEW W \in ViewType(i), shown' = [shown EXCEPT ![i] = W]
  PROVE  /\ W.lists = shown[i].lists => ShownSignatures' = ShownSignatures
         /\ \A b \in Ballot : \A A :
              IdOf[b] = i /\ W.lists = [shown[i].lists EXCEPT ![b] = @ \cup A] =>
              ShownSignatures' = [ShownSignatures EXCEPT ![Here][b] = @ \cup A]
<1>1. shown'[i] = W /\ \A j \in EntryId \ {i} : shown'[j] = shown[j]
  BY DEF ShownTyped
<1>v. \A c \in Ballot : IdOf[c] \in EntryId
  BY HandlerLockingAssumption DEF EntryId
<1> DEFINE K == [c \in Ballot |-> shown[IdOf[c]].lists[c]]
           L == [c \in Ballot |-> shown'[IdOf[c]].lists[c]]
           e == [c \in Ballot |-> {}]
<1>2. ShownSignatures' = ForHere(L, e) /\ ShownSignatures = ForHere(K, e)
  BY DEF ShownSignatures, ForHere
<1>3. W.lists = shown[i].lists => L = K
  BY <1>1, <1>v
<1>4. ASSUME NEW b \in Ballot, IdOf[b] = i, NEW A,
             W.lists = [shown[i].lists EXCEPT ![b] = @ \cup A]
      PROVE  ShownSignatures' = [ShownSignatures EXCEPT ![Here][b] = @ \cup A]
  <2>0. shown[i].lists \in [Ballot -> SUBSET Server]
    BY DEF ShownTyped, ViewType
  <2>1. L = [K EXCEPT ![b] = @ \cup A]
    <3>1. /\ shown'[i].lists[b] = shown[i].lists[b] \cup A
          /\ \A c \in Ballot \ {b} : shown'[i].lists[c] = shown[i].lists[c]
      BY <1>1, <1>4, <2>0
    <3>2. \A c \in Ballot \ {b} : shown'[IdOf[c]].lists[c] = shown[IdOf[c]].lists[c]
      BY <1>1, <1>v, <3>1
    <3> QED
      BY <1>4, <3>1, <3>2
  <2>2. ShownSignatures[Here] = K /\ ShownSignatures' = [ShownSignatures EXCEPT ![Here] = L]
    BY <1>2, HereOnly
  <2> HIDE DEF K, L
  <2> QED
    BY <2>1, <2>2
<1> QED
  BY <1>2, <1>3, <1>4

LEMMA ShowsTally ==
  ASSUME ShownTyped, NEW i \in EntryId, NEW W \in ViewType(i), shown' = [shown EXCEPT ![i] = W]
  PROVE  /\ W.tally = shown[i].tally => ShownTally' = ShownTally
         /\ \A b \in Ballot :
              IdOf[b] = i /\ W.tally = [shown[i].tally EXCEPT ![b] = @ + 1] =>
              ShownTally' = [ShownTally EXCEPT ![Here][b] = @ + 1]
<1>1. shown'[i] = W /\ \A j \in EntryId \ {i} : shown'[j] = shown[j]
  BY DEF ShownTyped
<1>v. \A c \in Ballot : IdOf[c] \in EntryId
  BY HandlerLockingAssumption DEF EntryId
<1> DEFINE K == [c \in Ballot |-> shown[IdOf[c]].tally[c]]
           L == [c \in Ballot |-> shown'[IdOf[c]].tally[c]]
           e == [c \in Ballot |-> 0]
<1>2. ShownTally' = ForHere(L, e) /\ ShownTally = ForHere(K, e)
  BY DEF ShownTally, ForHere
<1>3. W.tally = shown[i].tally => L = K
  BY <1>1, <1>v
<1>4. ASSUME NEW b \in Ballot, IdOf[b] = i,
             W.tally = [shown[i].tally EXCEPT ![b] = @ + 1]
      PROVE  ShownTally' = [ShownTally EXCEPT ![Here][b] = @ + 1]
  <2>0. shown[i].tally \in [Ballot -> Nat]
    BY DEF ShownTyped, ViewType
  <2>1. L = [K EXCEPT ![b] = @ + 1]
    <3>1. /\ shown'[i].tally[b] = shown[i].tally[b] + 1
          /\ \A c \in Ballot \ {b} : shown'[i].tally[c] = shown[i].tally[c]
      BY <1>1, <1>4, <2>0
    <3>2. \A c \in Ballot \ {b} : shown'[IdOf[c]].tally[c] = shown[IdOf[c]].tally[c]
      BY <1>1, <1>v, <3>1
    <3> QED
      BY <1>4, <3>1, <3>2
  <2>2. ShownTally[Here] = K /\ ShownTally' = [ShownTally EXCEPT ![Here] = L]
    BY <1>2, HereOnly
  <2> HIDE DEF K, L
  <2> QED
    BY <2>1, <2>2
<1> QED
  BY <1>2, <1>3, <1>4

LEMMA ShowsPending ==
  ASSUME ShownTyped, NEW i \in EntryId, NEW W \in ViewType(i), shown' = [shown EXCEPT ![i] = W]
  PROVE  /\ W.pending = shown[i].pending => ShownChallenges' = ShownChallenges
         /\ \A t : W.pending = shown[i].pending \cup {t} =>
              ShownChallenges' = [ShownChallenges EXCEPT ![Here] = @ \cup {AsChallenge(t)}]
<1>1. shown'[i] = W /\ \A j \in EntryId \ {i} : shown'[j] = shown[j]
  BY DEF ShownTyped
<1> DEFINE P == UNION {shown[j].pending : j \in EntryId}
           Q == UNION {shown'[j].pending : j \in EntryId}
           K == {AsChallenge(c) : c \in P}
           L == {AsChallenge(c) : c \in Q}
<1>2. ShownChallenges' = ForHere(L, {}) /\ ShownChallenges = ForHere(K, {})
  BY DEF ShownChallenges, ForHere, AsChallenge
<1>3. ASSUME W.pending = shown[i].pending PROVE L = K
  <2>1. \A j \in EntryId : shown'[j].pending = shown[j].pending
    BY <1>1, <1>3
  <2>2. P = Q
    BY <2>1
  <2> QED
    BY <2>2
<1>4. ASSUME NEW t, W.pending = shown[i].pending \cup {t}
      PROVE  ShownChallenges' = [ShownChallenges EXCEPT ![Here] = @ \cup {AsChallenge(t)}]
  <2>1. ASSUME NEW x \in Q PROVE x \in P \cup {t}
    <3>1. PICK j \in EntryId : x \in shown'[j].pending
      OBVIOUS
    <3> QED
      BY <1>1, <1>4, <3>1
  <2>2. ASSUME NEW x \in P PROVE x \in Q
    <3>1. PICK j \in EntryId : x \in shown[j].pending
      OBVIOUS
    <3>2. x \in shown'[j].pending
      BY <1>1, <1>4, <3>1
    <3> QED
      BY <3>2
  <2>3. t \in Q
    <3>1. t \in shown'[i].pending
      BY <1>1, <1>4
    <3> QED
      BY <3>1
  <2>4. Q = P \cup {t}
    BY <2>1, <2>2, <2>3
  <2>5. L = K \cup {AsChallenge(t)}
    <3> HIDE DEF P, Q
    <3> QED
      BY <2>4
  <2>6. ShownChallenges[Here] = K /\ ShownChallenges' = [ShownChallenges EXCEPT ![Here] = L]
    BY <1>2, HereOnly
  <2> HIDE DEF K, L
  <2> QED
    BY <2>5, <2>6
<1> QED
  BY <1>2, <1>3, <1>4

-----------------------------------------------------------------------------
(* What VoteDelivery is shown of the calls.                                *)

Active  == Inside \cup {"start", "wait", "panicked", "ended"}
Gone    == {"panicked", "ended"}
Telling == {"delayed", "resume", "flood"}
Sought  == Inside \cup {"start", "wait"}

LEMMA PostsAt ==
  ASSUME NEW b \in Ballot, NEW points
  PROVE  /\ Posts(b, points) <=> PostOf(b) \in Call /\ pc[PostOf(b)] \in points
         /\ Posts(b, points)' <=> PostOf(b) \in Call /\ pc'[PostOf(b)] \in points
<1>1. PostOf(b).kind = "post" /\ PostOf(b).ballot = b
  BY DEF PostOf
<1>2. \A t \in Call : t.kind = "post" /\ t.ballot = b => t = PostOf(b)
  BY PostShape
<1> QED
  BY <1>1, <1>2 DEF Posts

LEMMA PostsElsewhere ==
  ASSUME NEW t \in Call, OneMoves(t), NEW b \in Ballot, t # PostOf(b), NEW points
  PROVE  Posts(b, points)' <=> Posts(b, points)
<1>1. PostOf(b) \notin OwnChallenges
  BY OwnShape DEF PostOf
<1>2. PostOf(b) \in Call => pc'[PostOf(b)] = pc[PostOf(b)]
  BY <1>1 DEF OneMoves
<1> QED
  BY <1>2, PostsAt

LEMMA NotPost ==
  ASSUME NEW t \in Call, NEW b \in Ballot, t.kind # "post" \/ t.ballot # b
  PROVE  t # PostOf(b)
BY DEF PostOf

LEMMA ClientsKept ==
  ASSUME NEW t \in Call, OneMoves(t), stuck' = stuck,
         t.kind = "post" => /\ pc[t] \in Active <=> pc'[t] \in Active
                            /\ pc[t] \notin Gone /\ pc'[t] \notin Gone
  PROVE  ShownUnsent' = ShownUnsent /\ ShownTarget' = ShownTarget
<1>1. ASSUME NEW b \in Ballot
      PROVE  /\ Posts(b, Active)' <=> Posts(b, Active)
             /\ Posts(b, Gone)' <=> Posts(b, Gone)
  <2>1. CASE t = PostOf(b)
    <3>1. t.kind = "post"
      BY <2>1 DEF PostOf
    <3> QED
      BY <2>1, <3>1, PostsAt
  <2>2. CASE t # PostOf(b)
    BY <2>2, PostsElsewhere
  <2> QED
    BY <2>1, <2>2
<1>2. \A b \in Ballot : StaysWith(b)' <=> StaysWith(b)
  BY <1>1 DEF StaysWith, Gone
<1> QED
  BY <1>1, <1>2 DEF ShownUnsent, ShownTarget, Active

LEMMA AtHand ==
  ASSUME NEW t \in Call, t.kind = "post", stuck = None, pc[t] \in Active \ Gone
  PROVE  /\ t.ballot \in Ballot /\ t = PostOf(t.ballot)
         /\ Here \in ShownUnsent[t.ballot] /\ ShownTarget[t.ballot] = None
<1>1. t.ballot \in Ballot /\ t = PostOf(t.ballot)
  BY PostShape, CallsTyped
<1>2. Posts(t.ballot, Active) /\ ~ Posts(t.ballot, Gone)
  BY <1>1, PostsAt
<1>3. ~ StaysWith(t.ballot)
  BY <1>2 DEF StaysWith, Gone
<1> QED
  BY <1>1, <1>2, <1>3 DEF ShownUnsent, ShownTarget, Active

LEMMA Answered ==
  ASSUME NEW t \in Call, OneMoves(t), t.kind = "post", stuck = None, stuck' = None,
         pc[t] \in Active \ Gone, pc'[t] \notin Active
  PROVE  /\ ShownUnsent' = [ShownUnsent EXCEPT ![t.ballot] = @ \ {Here}]
         /\ ShownTarget' = [ShownTarget EXCEPT ![t.ballot] = None]
<1> DEFINE b == t.ballot
<1>1. b \in Ballot /\ t = PostOf(b) /\ Gone \subseteq Active
  BY AtHand DEF Active, Gone
<1>2. ~ Posts(b, Active)' /\ ~ Posts(b, Gone)'
  BY <1>1, PostsAt
<1>3. ASSUME NEW c \in Ballot \ {b}
      PROVE  /\ Posts(c, Active)' <=> Posts(c, Active)
             /\ StaysWith(c)' <=> StaysWith(c)
  <2>1. t # PostOf(c)
    BY NotPost
  <2> QED
    BY <2>1, PostsElsewhere DEF StaysWith
<1>4. ~ StaysWith(b)'
  BY <1>2 DEF StaysWith, Gone
<1>5. ShownUnsent' = [c \in Ballot |-> IF Posts(c, Active)' THEN {Here} ELSE {}]
  BY DEF ShownUnsent, Active
<1>6. ShownUnsent = [c \in Ballot |-> IF Posts(c, Active) THEN {Here} ELSE {}]
  BY DEF ShownUnsent, Active
<1>7. ShownTarget' = [c \in Ballot |-> IF StaysWith(c)' THEN Here ELSE None]
  BY DEF ShownTarget
<1>8. ShownTarget = [c \in Ballot |-> IF StaysWith(c) THEN Here ELSE None]
  BY DEF ShownTarget
<1> HIDE DEF b
<1>9. ShownUnsent' = [ShownUnsent EXCEPT ![b] = @ \ {Here}]
  BY <1>1, <1>2, <1>3, <1>5, <1>6
<1>10. ShownTarget' = [ShownTarget EXCEPT ![b] = None]
  BY <1>1, <1>3, <1>4, <1>7, <1>8
<1> QED
  BY <1>9, <1>10 DEF b

LEMMA NotAnswered ==
  ASSUME NEW t \in Call, OneMoves(t), t.kind = "post", stuck = None,
         pc[t] \in Active \ Gone, pc'[t] \in Active,
         (stuck' = None /\ pc'[t] \in Gone) \/ stuck' = t
  PROVE  /\ ShownUnsent' = ShownUnsent
         /\ ShownTarget' = [ShownTarget EXCEPT ![t.ballot] = Here]
<1> DEFINE b == t.ballot
<1>1. b \in Ballot /\ t = PostOf(b) /\ t # None
  BY AtHand, CallsTyped
<1>2. Posts(b, Active)' /\ Posts(b, Active)
  BY <1>1, PostsAt
<1>3. ASSUME NEW c \in Ballot \ {b}
      PROVE  /\ Posts(c, Active)' <=> Posts(c, Active)
             /\ StaysWith(c)' <=> StaysWith(c)
  <2>1. t # PostOf(c)
    BY NotPost
  <2> QED
    BY <2>1, PostsElsewhere DEF StaysWith
<1>4. StaysWith(b)'
  BY <1>1, PostsAt DEF StaysWith, Gone
<1>5. ShownUnsent' = [c \in Ballot |-> IF Posts(c, Active)' THEN {Here} ELSE {}]
  BY DEF ShownUnsent, Active
<1>6. ShownUnsent = [c \in Ballot |-> IF Posts(c, Active) THEN {Here} ELSE {}]
  BY DEF ShownUnsent, Active
<1>7. ShownTarget' = [c \in Ballot |-> IF StaysWith(c)' THEN Here ELSE None]
  BY DEF ShownTarget
<1>8. ShownTarget = [c \in Ballot |-> IF StaysWith(c) THEN Here ELSE None]
  BY DEF ShownTarget
<1> HIDE DEF b
<1>9. ShownUnsent' = ShownUnsent
  BY <1>1, <1>2, <1>3, <1>5, <1>6
<1>10. ShownTarget' = [ShownTarget EXCEPT ![b] = Here]
  BY <1>1, <1>3, <1>4, <1>7, <1>8
<1> QED
  BY <1>9, <1>10 DEF b

LEMMA OthersStick ==
  ASSUME NEW t \in Call, t.kind # "post", stuck = None, stuck' = t, pc' = pc
  PROVE  ShownUnsent' = ShownUnsent /\ ShownTarget' = ShownTarget
<1>1. \A b \in Ballot, points \in {Active, Gone} : Posts(b, points)' <=> Posts(b, points)
  BY DEF Posts
<1>2. \A b \in Ballot : t # PostOf(b)
  BY NotPost
<1>3. \A b \in Ballot : StaysWith(b)' <=> StaysWith(b)
  BY <1>1, <1>2 DEF StaysWith, Gone
<1> QED
  BY <1>1, <1>3 DEF ShownUnsent, ShownTarget, Active

(* Ballots that are still to be flooded. *)
LEMMA Tellers ==
  /\ ShownOutgoing = ForHere({u.ballot : u \in {v \in Call : pc[v] \in Telling}}, {})
  /\ ShownOutgoing' = ForHere({u.ballot : u \in {v \in Call : pc'[v] \in Telling}}, {})
BY DEF ShownOutgoing, Telling, ForHere

LEMMA ToldSame ==
  ASSUME NEW t \in Call, OneMoves(t), pc[t] \in Telling <=> pc'[t] \in Telling
  PROVE  ShownOutgoing' = ShownOutgoing
<1>1. \A u \in Call : pc[u] \in Telling <=> pc'[u] \in Telling
  BY DEF OneMoves, Telling
<1>2. {v \in Call : pc[v] \in Telling} = {v \in Call : pc'[v] \in Telling}
  BY <1>1
<1> QED
  BY <1>2, Tellers

LEMMA ToldMore ==
  ASSUME NEW t \in Call, OneMoves(t), pc[t] \notin Telling, pc'[t] \in Telling
  PROVE  ShownOutgoing' = [ShownOutgoing EXCEPT ![Here] = @ \cup {t.ballot}]
<1> DEFINE U == {v \in Call : pc[v] \in Telling}
           K == {u.ballot : u \in U}
           M == {v \in Call : pc'[v] \in Telling}
           L == {u.ballot : u \in M}
<1>1. \A u \in Call \ {t} : pc[u] \in Telling <=> pc'[u] \in Telling
  BY DEF OneMoves, Telling
<1>2. M = U \cup {t}
  BY <1>1
<1>3. L = K \cup {t.ballot}
  <2> HIDE DEF M, U
  <2> QED
    BY <1>2
<1>4. ShownOutgoing = ForHere(K, {}) /\ ShownOutgoing' = ForHere(L, {})
  BY Tellers
<1> HIDE DEF K, L
<1> QED
  BY <1>3, <1>4, HereOnly

LEMMA ToldLess ==
  ASSUME NEW t \in Call, OneMoves(t), pc[t] \in Telling, pc'[t] \notin Telling
  PROVE  /\ t.ballot \in ShownOutgoing[Here]
         /\ \/ ShownOutgoing' = ShownOutgoing
            \/ ShownOutgoing' = [ShownOutgoing EXCEPT ![Here] = @ \ {t.ballot}]
<1> DEFINE U == {v \in Call : pc[v] \in Telling}
           K == {u.ballot : u \in U}
           M == {v \in Call : pc'[v] \in Telling}
           L == {u.ballot : u \in M}
<1>1. \A u \in Call \ {t} : pc[u] \in Telling <=> pc'[u] \in Telling
  BY DEF OneMoves, Telling
<1>2. M = U \ {t} /\ t \in U
  BY <1>1
<1>3. t.ballot \in K /\ (L = K \/ L = K \ {t.ballot})
  <2> HIDE DEF M, U
  <2> QED
    BY <1>2
<1>4. ShownOutgoing = ForHere(K, {}) /\ ShownOutgoing' = ForHere(L, {})
  BY Tellers
<1> HIDE DEF K, L
<1> QED
  BY <1>3, <1>4, HereOnly

(* Locks that nobody gives back. *)
LEMMA LockedKept ==
  ASSUME stuck' = stuck, stuck # None => pc'[stuck] = pc[stuck],
         \A i \in EntryId : Lost(i)' <=> Lost(i)
  PROVE  ShownLocked' = ShownLocked
<1>1. stuck # None => (Replays(stuck)' <=> Replays(stuck))
  BY DEF Replays
<1> QED
  BY <1>1 DEF ShownLocked, ForHere

LEMMA NoneLocked ==
  ASSUME stuck = None, NEW i \in EntryId
  PROVE  i \in ShownLocked[Here] <=> Lost(i)
<1>1. ShownLocked[Here] =
        {j \in EntryId : Lost(j) \/ (stuck # None /\ stuck.id = j /\ Replays(stuck))}
  BY HereOnly DEF ShownLocked
<1> QED
  BY <1>1

LEMMA LockedMore ==
  ASSUME stuck = None, NEW i \in EntryId,
         \A j \in EntryId \ {i} : Lost(j)' <=> Lost(j),
         stuck' # None => stuck'.id = i,
         Lost(i)' \/ (stuck' # None /\ Replays(stuck)')
  PROVE  ShownLocked' = [ShownLocked EXCEPT ![Here] = @ \cup {i}]
<1> DEFINE K == {j \in EntryId : Lost(j)}
           L == {j \in EntryId : Lost(j)' \/ (stuck' # None /\ stuck'.id = j /\ Replays(stuck)')}
<1>1. L = K \cup {i}
  OBVIOUS
<1>2. ShownLocked = ForHere(K, {}) /\ ShownLocked' = ForHere(L, {})
  BY DEF ShownLocked, ForHere
<1>3. ShownLocked[Here] = K /\ ShownLocked' = [ShownLocked EXCEPT ![Here] = L]
  BY <1>2, HereOnly
<1> HIDE DEF K, L
<1> QED
  BY <1>1, <1>3

(* Challenges. *)
LEMMA ShowsFlooded ==
  ASSUME ShownTyped, NEW i \in EntryId, NEW W \in ViewType(i), shown' = [shown EXCEPT ![i] = W]
  PROVE  /\ W.flooded = shown[i].flooded => AllFlooded' = AllFlooded
         /\ \A c : i \in VoteId /\ W.flooded = shown[i].flooded \cup {c} =>
              AllFlooded' = AllFlooded \cup {c}
<1>1. shown'[i] = W /\ \A j \in EntryId \ {i} : shown'[j] = shown[j]
  BY DEF ShownTyped
<1>v. VoteId \subseteq EntryId
  BY DEF EntryId
<1>2. ASSUME W.flooded = shown[i].flooded PROVE AllFlooded' = AllFlooded
  <2>1. \A j \in VoteId : shown'[j].flooded = shown[j].flooded
    BY <1>1, <1>v, <1>2
  <2> QED
    BY <2>1 DEF AllFlooded
<1>3. ASSUME NEW c, i \in VoteId, W.flooded = shown[i].flooded \cup {c}
      PROVE  AllFlooded' = AllFlooded \cup {c}
  <2>1. ASSUME NEW x \in AllFlooded' PROVE x \in AllFlooded \cup {c}
    <3>1. PICK j \in VoteId : x \in shown'[j].flooded
      BY DEF AllFlooded
    <3>2. x \in shown[j].flooded \/ x = c
      BY <1>1, <1>v, <1>3, <3>1
    <3> QED
      BY <3>2 DEF AllFlooded
  <2>2. ASSUME NEW x \in AllFlooded PROVE x \in AllFlooded'
    <3>1. PICK j \in VoteId : x \in shown[j].flooded
      BY DEF AllFlooded
    <3>2. x \in shown'[j].flooded
      BY <1>1, <1>v, <1>3, <3>1
    <3> QED
      BY <3>2 DEF AllFlooded
  <2>3. c \in AllFlooded'
    <3>1. c \in shown'[i].flooded
      BY <1>1, <1>3
    <3> QED
      BY <1>3, <3>1 DEF AllFlooded
  <2> QED
    BY <2>1, <2>2, <2>3
<1> QED
  BY <1>2, <1>3

LEMMA InboxKept ==
  ASSUME OwnCalls, NEW t \in Call, OneMoves(t), AllFlooded' = AllFlooded,
         stuck' = stuck \/ (stuck' = t /\ stuck = None /\ t.kind # "challenge"),
         t.kind = "challenge" => (pc[t] \in Sought <=> pc'[t] \in Sought)
  PROVE  ShownInbox' = ShownInbox
<1>1. ASSUME NEW u \in Call, u.kind = "challenge"
      PROVE  /\ u # stuck' <=> u # stuck
             /\ (u \in OwnChallenges => u \in AllFlooded)
                  => (pc'[u] \in Sought <=> pc[u] \in Sought)
  <2>1. u # stuck' <=> u # stuck
    BY <1>1, CallsTyped
  <2>2. u # t => \/ pc'[u] = pc[u]
                 \/ u \in OwnChallenges /\ u \notin AllFlooded
    BY DEF OneMoves, OwnCalls
  <2> QED
    BY <1>1, <2>1, <2>2
<1>2. UnderWay' = UnderWay
  <2>1. ASSUME NEW u \in Call
        PROVE  u \in UnderWay' <=> u \in UnderWay
    BY <1>1 DEF UnderWay, Sought
  <2> QED
    BY <2>1 DEF UnderWay
<1> QED
  BY <1>2 DEF ShownInbox, AsChallenge

LEMMA InboxMore ==
  ASSUME OwnCalls, NEW t \in Call, OneMoves(t), t.kind # "challenge", stuck = None, stuck' = None,
         NEW c \in OwnChallenges, c \in flooded, c \notin AllFlooded,
         AllFlooded' = AllFlooded \cup {c}
  PROVE  ShownInbox' = [p \in Server |-> ShownInbox[p] \cup {AsChallenge(c)}]
<1>1. c \in Call /\ c.kind = "challenge" /\ c # t
  BY OwnShape
<1>2. pc[c] = "start" /\ pc'[c] = "start"
  BY <1>1 DEF OwnCalls, OneMoves
<1>3. ASSUME NEW u \in Call, u.kind = "challenge", u # c,
             u \in OwnChallenges => u \in AllFlooded
      PROVE  pc'[u] = pc[u]
  BY <1>3 DEF OneMoves, OwnCalls
<1>4. UnderWay' = UnderWay \cup {c}
  <2>1. ASSUME NEW u \in UnderWay' PROVE u \in UnderWay \cup {c}
    BY <1>3, CallsTyped DEF UnderWay
  <2>2. ASSUME NEW u \in UnderWay PROVE u \in UnderWay'
    <3>1. /\ u \in Call /\ u.kind = "challenge" /\ pc[u] \in Inside \cup {"start", "wait"}
          /\ u \in OwnChallenges => u \in AllFlooded
      BY DEF UnderWay
    <3>2. pc'[u] = pc[u] /\ u # None
      BY <1>2, <1>3, <3>1, CallsTyped
    <3> QED
      BY <3>1, <3>2 DEF UnderWay
  <2>3. c \in UnderWay'
    BY <1>1, <1>2, CallsTyped DEF UnderWay
  <2> QED
    BY <2>1, <2>2, <2>3
<1> DEFINE A == {AsChallenge(d) : d \in UnderWay}
           B == {AsChallenge(d) : d \in AllFlooded}
<1>5. /\ {AsChallenge(d) : d \in UnderWay \cup {c}} = A \cup {AsChallenge(c)}
      /\ {AsChallenge(d) : d \in AllFlooded \cup {c}} = B \cup {AsChallenge(c)}
  OBVIOUS
<1>6. ShownInbox = [p \in Server |-> IF p = Here THEN A ELSE B]
  BY DEF ShownInbox
<1>7. ShownInbox' = [p \in Server |-> IF p = Here THEN A \cup {AsChallenge(c)}
                                                  ELSE B \cup {AsChallenge(c)}]
  BY <1>4, <1>5 DEF ShownInbox, AsChallenge
<1> HIDE DEF A, B
<1> QED
  BY <1>6, <1>7

LEMMA InboxLess ==
  ASSUME OwnCalls, NEW t \in Call, OneMoves(t), t \in UnderWay, t.kind = "challenge",
         AllFlooded' = AllFlooded,
         (stuck' = stuck /\ pc'[t] \notin Sought) \/ (stuck = None /\ stuck' = t)
  PROVE  /\ AsChallenge(t) \in ShownInbox[Here]
         /\ ShownInbox' = [ShownInbox EXCEPT ![Here] = @ \ {AsChallenge(t)}]
<1>h. Here \in Server
  BY HandlerLockingAssumption
<1>1. ASSUME NEW u \in Call, u.kind = "challenge", u # t,
             u \in OwnChallenges => u \in AllFlooded
      PROVE  pc'[u] = pc[u]
  BY <1>1 DEF OneMoves, OwnCalls
<1>2. UnderWay' = UnderWay \ {t}
  <2>1. ASSUME NEW u \in UnderWay' PROVE u \in UnderWay \ {t}
    <3>1. /\ u \in Call /\ u.kind = "challenge" /\ pc'[u] \in Sought /\ u # stuck'
          /\ u \in OwnChallenges => u \in AllFlooded
      BY DEF UnderWay, Sought
    <3>2. u # t /\ u # stuck
      BY <3>1, CallsTyped
    <3> QED
      BY <1>1, <3>1, <3>2 DEF UnderWay, Sought
  <2>2. ASSUME NEW u \in UnderWay \ {t} PROVE u \in UnderWay'
    <3>1. /\ u \in Call /\ u.kind = "challenge" /\ pc[u] \in Sought /\ u # stuck
          /\ u \in OwnChallenges => u \in AllFlooded
      BY DEF UnderWay, Sought
    <3>2. pc'[u] = pc[u] /\ u # stuck'
      BY <1>1, <3>1
    <3> QED
      BY <3>1, <3>2 DEF UnderWay, Sought
  <2> QED
    BY <2>1, <2>2
<1> DEFINE A == {AsChallenge(d) : d \in UnderWay}
           A2 == {AsChallenge(d) : d \in UnderWay \ {t}}
           B == {AsChallenge(d) : d \in AllFlooded}
<1>3. A2 = A \ {AsChallenge(t)}
  <2>1. \A d \in UnderWay : d \in Call /\ d.kind = "challenge"
    BY DEF UnderWay
  <2>2. \A d \in UnderWay : AsChallenge(d) = AsChallenge(t) => d = t
    BY <2>1, ChallengesApart
  <2> QED
    BY <2>2
<1>4. ShownInbox = [p \in Server |-> IF p = Here THEN A ELSE B]
  BY DEF ShownInbox
<1>5. ShownInbox' = [p \in Server |-> IF p = Here THEN A2 ELSE B]
  BY <1>2 DEF ShownInbox, AsChallenge
<1>6. AsChallenge(t) \in A
  OBVIOUS
<1> HIDE DEF A, A2, B
<1> QED
  BY <1>h, <1>3, <1>4, <1>5, <1>6

-----------------------------------------------------------------------------
(* The steps VoteDelivery does not see.                                    *)

LEMMA NowShown ==
  ASSUME Now
  PROVE  ShownTyped /\ OwnCalls
BY DEF Now, Core, Shown, ShownTyped

LEMMA Constant == AnyShareMsgs' = AnyShareMsgs /\ ShownRetries' = ShownRetries
                  /\ ShownOwnCopies' = ShownOwnCopies
BY DEF AnyShareMsgs, ShownRetries, ShownOwnCopies, ForHere

LEMMA EntriesShown ==
  ASSUME shown' = shown
  PROVE  /\ ShownKnown' = ShownKnown /\ ShownBare' = ShownBare
         /\ ShownReceived' = ShownReceived /\ ShownSignatures' = ShownSignatures
         /\ ShownSeen' = ShownSeen /\ ShownDelivered' = ShownDelivered
         /\ ShownInvalidated' = ShownInvalidated /\ ShownChallenges' = ShownChallenges
         /\ ShownTally' = ShownTally /\ AllFlooded' = AllFlooded
BY DEF ShownKnown, ShownBare, ShownReceived, ShownSignatures, ShownSeen, ShownDelivered,
   ShownInvalidated, ShownChallenges, ShownTally, AllFlooded, ForHere, AsChallenge

(* Nothing VoteDelivery speaks of changes. *)
Unseen ==
  UNCHANGED <<ShownUnsent, ShownTarget, ShownRetries, ShownKnown, ShownBare, ShownReceived,
              ShownSignatures, ShownOwnCopies, ShownSeen, ShownDelivered, ShownInvalidated,
              ShownChallenges, ShownLocked, ShownIdsHeld, ShownUp, ShownOutgoing, ShownTally,
              AnyShareMsgs, ShownInbox>>

LEMMA UnseenStutters ==
  ASSUME Unseen
  PROVE  UNCHANGED Delivery!vars
BY DEF Unseen, Delivery!vars, Delivery!clientVars, Delivery!entryVars, Delivery!serverVars,
   Delivery!netVars

LEMMA UpKept ==
  /\ up' = up => ShownUp' = ShownUp
  /\ stuck' = stuck => ShownIdsHeld' = ShownIdsHeld
BY DEF ShownUp, ShownIdsHeld

LEMMA QuietStep ==
  ASSUME Now, NEW t \in Call, Step(t), OneMoves(t), shown' = shown, up' = up, stuck' = stuck,
         \A i \in EntryId : Lost(i)' <=> Lost(i),
         pc[t] \in Telling <=> pc'[t] \in Telling,
         t.kind = "post" => /\ pc[t] \in Active <=> pc'[t] \in Active
                            /\ pc[t] \notin Gone /\ pc'[t] \notin Gone,
         t.kind = "challenge" => (pc[t] \in Sought <=> pc'[t] \in Sought)
  PROVE  UNCHANGED Delivery!vars
<1>1. stuck # None => pc'[stuck] = pc[stuck]
  <2>1. SUFFICES ASSUME stuck # None PROVE pc'[stuck] = pc[stuck]
    OBVIOUS
  <2>2. pc[t] \in {"flood", "delayed", "resume"}
    BY <2>1, StuckLater DEF Flood, Delayed, Resume, Release, Goes
  <2>3. stuck \in Call /\ pc[stuck] \in {"wait", "replay"}
    BY <2>1 DEF Now, Core, NobodyReturns
  <2> QED
    BY <2>2, <2>3 DEF OneMoves
<1>2. ShownUnsent' = ShownUnsent /\ ShownTarget' = ShownTarget
  BY ClientsKept
<1>3. ShownOutgoing' = ShownOutgoing
  BY ToldSame
<1>4. ShownLocked' = ShownLocked
  BY <1>1, LockedKept
<1>5. ShownInbox' = ShownInbox
  BY NowShown, EntriesShown, InboxKept
<1>6. ShownUp' = ShownUp /\ ShownIdsHeld' = ShownIdsHeld
  BY UpKept
<1> QED
  BY <1>2, <1>3, <1>4, <1>5, <1>6, EntriesShown, Constant, UnseenStutters DEF Unseen

LEMMA WorkingQuiet ==
  ASSUME Now, NEW t \in Call, Step(t), Shows, Undisturbed', Working(t) \/ FirstRelease(t)
  PROVE  UNCHANGED Delivery!vars
<1>1. OneMoves(t)
  BY StepAlone
<1>2. /\ pc[t] \in Inside /\ pc'[t] \in Inside
      /\ Stays(t) \/ Releases(t)
      /\ up' = up /\ stuck' = stuck
  <2>1. CASE Working(t)
    BY <2>1, WorkingWorks DEF Works, Stays, Holds
  <2>2. CASE FirstRelease(t)
    BY <2>2, FirstReleaseReleases DEF Releases, Inside, FirstRelease, rest
  <2> QED
    BY <2>1, <2>2
<1>3. ~ Stick(t)
  BY <1>2, CallsTyped DEF Stick
<1>4. shown' = shown
  BY <1>1, <1>2, <1>3, StillShown
<1>5. \A i \in EntryId : Lost(i)' <=> Lost(i)
  BY <1>2, LostKept DEF Away, Inside
<1> QED
  BY <1>1, <1>2, <1>4, <1>5, QuietStep DEF Telling, Active, Gone, Sought, Inside

LEMMA ArrivingQuiet ==
  ASSUME Now, NEW t \in Call, Step(t), Shows, Undisturbed', Create(t) \/ TakeLock(t)
  PROVE  UNCHANGED Delivery!vars
<1>1. OneMoves(t) /\ Arrives(t)
  BY StepAlone, ArrivingArrives
<1>2. pc[t] \in {"start", "wait"} /\ pc'[t] \in {"check", "find"} /\ up' = up /\ stuck' = stuck
  BY DEF Create, LookUp, TakeLock, Goes, Now, LockingInv, Typed, rest
<1>3. shown' = shown
  BY <1>1, ArrivingSections
<1>4. \A i \in EntryId : Lost(i)' <=> Lost(i)
  BY <1>1, <1>2, LostKept DEF Away
<1> QED
  BY <1>1, <1>2, <1>3, <1>4, QuietStep DEF Telling, Active, Gone, Sought, Inside

LEMMA OutsideQuiet ==
  ASSUME Now, NEW t \in Call, Step(t), Shows, Undisturbed', Found(t) \/ Delayed(t) \/ Resume(t)
  PROVE  UNCHANGED Delivery!vars
<1>1. OneMoves(t)
  BY StepAlone
<1>2. /\ \/ pc[t] = "start" /\ pc'[t] = "wait"
         \/ pc[t] = "delayed" /\ pc'[t] = "resume"
         \/ pc[t] = "resume" /\ pc'[t] = "flood"
      /\ up' = up /\ stuck' = stuck
      /\ UNCHANGED <<entries, tally, flooded>>
  BY ResumingLeaves DEF Found, LookUp, Delayed, Resume, Release, Goes, Now, LockingInv, Typed,
     rest, Undisturbed
<1>3. Stays(t) \/ Arrives(t) \/ Leaves(t)
  BY ArrivingArrives, ResumingLeaves, WaitingStays DEF Waiting
<1>4. shown' = shown
  <2>1. Occupied(t.id)' <=> Occupied(t.id)
    BY <1>1, <1>2, OutsideStays DEF Inside
  <2>2. View(t.id)' = View(t.id)
    BY <1>2, ViewsKept
  <2> QED
    BY <1>1, <2>1, <2>2, NothingShown
<1>5. \A i \in EntryId : Lost(i)' <=> Lost(i)
  BY <1>2, <1>3, LostKept DEF Away
<1>6. t.kind = "challenge" => (pc[t] \in Sought <=> pc'[t] \in Sought)
  BY <1>2 DEF Sought, Inside
<1> QED
  BY <1>1, <1>2, <1>4, <1>5, <1>6, QuietStep DEF Telling, Active, Gone, Inside

LEMMA AddShareQuiet ==
  ASSUME UNCHANGED <<pc, lock, up, stuck, shown>>
  PROVE  UNCHANGED Delivery!vars
<1>1. \A i : Lost(i)' <=> Lost(i)
  BY DEF Lost
<1>2. ShownLocked' = ShownLocked
  BY <1>1 DEF ShownLocked, ForHere, Replays
<1>3. /\ \A b, points : Posts(b, points)' <=> Posts(b, points)
      /\ \A b : StaysWith(b)' <=> StaysWith(b)
  BY DEF Posts, StaysWith
<1>4. ShownUnsent' = ShownUnsent /\ ShownTarget' = ShownTarget
  BY <1>3 DEF ShownUnsent, ShownTarget
<1>5. ShownOutgoing' = ShownOutgoing
  BY DEF ShownOutgoing, ForHere
<1>6. AllFlooded' = AllFlooded
  BY EntriesShown
<1>7. UnderWay' = UnderWay
  BY <1>6 DEF UnderWay
<1>8. ShownInbox' = ShownInbox
  BY <1>6, <1>7 DEF ShownInbox, AsChallenge
<1> QED
  BY <1>2, <1>4, <1>5, <1>8, UpKept, EntriesShown, Constant, UnseenStutters DEF Unseen

-----------------------------------------------------------------------------
(* What VoteDelivery asks of a server, asked of this one.                  *)

LEMMA ServingHere ==
  ASSUME stuck = None, up
  PROVE  /\ Delivery!Serving(Here) /\ ShownUp = Server /\ ShownIdsHeld = {}
         /\ ~ Delivery!DialPanics(Here) /\ Here \in ShownUp /\ Here \in Server
BY HandlerLockingAssumption DEF Delivery!Serving, Delivery!DialPanics, ShownUp, ShownIdsHeld

LEMMA DialsHere == ~ Delivery!DialPanics(Here) /\ Here \in Server
                   /\ Server = Server \cup {Here}
BY HandlerLockingAssumption DEF Delivery!DialPanics

LEMMA Ends ==
  ASSUME up, ~ up'
  PROVE  ShownUp' = ShownUp \ {Here}
BY DEF ShownUp

LEMMA Sticks ==
  ASSUME stuck = None, stuck' # None
  PROVE  ShownIdsHeld' = ShownIdsHeld \cup {Here}
BY DEF ShownIdsHeld

LEMMA NeededHere ==
  ASSUME NEW S \in SUBSET Server
  PROVE  Delivery!ListLength(S, 0) >= Delivery!Needed <=> Enough(S)
<1>1. IsFiniteSet(Server) /\ IsFiniteSet(S)
  BY HandlerLockingAssumption, FS_Subset
<1>2. Cardinality(S) \in Nat
  BY <1>1, FS_CardinalityType
<1>3. \A T : Delivery!Cardinality(T) = Cardinality(T)
  BY DEF Delivery!Cardinality, Cardinality
<1> QED
  BY <1>2, <1>3 DEF Delivery!ListLength, Delivery!Needed, Delivery!N, Delivery!SignaturesNeeded,
     Delivery!CalculateT, SignaturesNeeded, CalculateT, Enough

LEMMA QuorateIs ==
  ASSUME NEW V, NEW i \in EntryId, V \in ViewType(i), NEW rec, NEW lists, NEW copies,
         \A b \in Ballot : copies[b] = 0,
         \A b : b \in rec => b \in Ballot,
         \A b \in Ballot : IdOf[b] = i => (b \in rec <=> b \in V.received) /\ lists[b] = V.lists[b]
  PROVE  Delivery!Quorate(i, rec, lists, copies) = ReadyIn(V)
<1>1. /\ V.received \subseteq {b \in Ballot : IdOf[b] = i}
      /\ \A b \in Ballot : V.lists[b] \in SUBSET Server
  BY DEF ViewType
<1>2. \A b \in Ballot : Delivery!ListLength(V.lists[b], 0) >= Delivery!Needed
                          <=> Enough(V.lists[b])
  BY <1>1, NeededHere
<1>3. ASSUME NEW b \in Ballot, IdOf[b] = i
      PROVE  Delivery!ListLength(lists[b], copies[b]) >= Delivery!Needed <=> Enough(V.lists[b])
  <2>1. lists[b] = V.lists[b] /\ copies[b] = 0
    BY <1>3
  <2> QED
    BY <1>2, <2>1
<1> QED
  BY <1>1, <1>3 DEF Delivery!Quorate, ReadyIn

LEMMA QuorateHere ==
  ASSUME ShownTyped, NEW i \in EntryId
  PROVE  Delivery!Quorate(i, ShownReceived[Here], ShownSignatures[Here], ShownOwnCopies[Here])
           = ReadyIn(shown[i])
<1>1. \A b : b \in ShownReceived[Here] => b \in Ballot
  <2>1. ShownReceived[Here] = UNION {shown[j].received : j \in VoteId}
    BY HereOnly DEF ShownReceived
  <2>2. ASSUME NEW j \in VoteId, NEW b \in shown[j].received PROVE b \in Ballot
    BY DEF ShownTyped, ViewType, EntryId
  <2> QED
    BY <2>1, <2>2
<1>2. shown[i] \in ViewType(i)
  BY DEF ShownTyped
<1> QED
  BY <1>1, <1>2, ShownAtBallot, QuorateIs

LEMMA ReadyHere ==
  ASSUME ShownTyped', NEW i \in EntryId
  PROVE  Delivery!Ready(Here, i) = ReadyIn(shown'[i])
<1>1. /\ ShownReceived'[Here] = UNION {shown'[j].received : j \in VoteId}
      /\ ShownSignatures'[Here] = [c \in Ballot |-> shown'[IdOf[c]].lists[c]]
      /\ ShownOwnCopies'[Here] = [c \in Ballot |-> 0]
  BY HereOnly DEF ShownReceived, ShownSignatures, ShownOwnCopies
<1>2. \A b : b \in ShownReceived'[Here] => b \in Ballot
  BY <1>1 DEF ShownTyped, ViewType, EntryId
<1>3. shown'[i] \in ViewType(i)
  BY DEF ShownTyped
<1>4. \A b \in Ballot : IdOf[b] \in VoteId /\ IdOf[b] \in EntryId
  BY HandlerLockingAssumption DEF EntryId
<1>5. ASSUME NEW b \in Ballot, IdOf[b] = i
      PROVE  /\ b \in ShownReceived'[Here] <=> b \in shown'[i].received
             /\ ShownSignatures'[Here][b] = shown'[i].lists[b]
  <2>1. ASSUME NEW j \in VoteId, b \in shown'[j].received PROVE j = i
    BY <1>5, <2>1 DEF ShownTyped, ViewType, EntryId
  <2> QED
    BY <1>1, <1>4, <1>5, <2>1
<1>6. \A b \in Ballot : ShownOwnCopies'[Here][b] = 0
  BY <1>1
<1>7. Delivery!Quorate(i, ShownReceived'[Here], ShownSignatures'[Here], ShownOwnCopies'[Here])
        = ReadyIn(shown'[i])
  BY <1>2, <1>3, <1>5, <1>6, QuorateIs
<1> QED
  BY <1>7 DEF Delivery!Ready

-----------------------------------------------------------------------------
(* A call leaves its entry.                                                *)

LEMMA ShownAnew ==
  ASSUME Now, NEW t \in Call, Step(t), OneMoves(t), Shows, pc[t] \in Inside,
         pc'[t] \notin Inside \/ Stick(t), View(t.id)' \in ViewType(t.id)
  PROVE  /\ shown' = [shown EXCEPT ![t.id] = View(t.id)']
         /\ shown'[t.id] = View(t.id)'
         /\ ShownTyped'
<1>1. ~ Occupied(t.id)'
  BY LeavesEmpty
<1>2. shown' = [shown EXCEPT ![t.id] = View(t.id)']
  BY <1>1, ShowsHere
<1>3. t.id \in EntryId /\ ShownTyped
  BY NowShown, CallsTyped
<1>4. /\ shown' = [i \in EntryId |-> shown'[i]]
      /\ shown'[t.id] = View(t.id)'
      /\ \A i \in EntryId \ {t.id} : shown'[i] = shown[i]
  BY <1>2, <1>3 DEF ShownTyped
<1>5. \A i \in EntryId : shown'[i] \in ViewType(i)
  BY <1>3, <1>4 DEF ShownTyped
<1> QED
  BY <1>2, <1>4, <1>5 DEF ShownTyped

LEMMA SameViewTyped ==
  ASSUME Now, NEW i \in EntryId, View(i)' = View(i)
  PROVE  View(i)' \in ViewType(i)
BY ViewTyped DEF Now, Core, LockingInv, OwnCalls

(* The ballot of a call is signed in the entry, or its signatures taken.   *)
LEMMA ListedShown ==
  ASSUME ShownTyped, NEW t \in Call, t.kind # "challenge", NEW W \in ViewType(t.id),
         shown' = [shown EXCEPT ![t.id] = W],
         Undecided(shown[t.id]), W.known, ~ W.bare,
         NEW A, Listed(W, shown[t.id], t.ballot, A)
  PROVE  /\ ~ Delivery!Settled(Here, t.id) /\ t.id \notin ShownBare[Here]
         /\ ShownKnown' = [ShownKnown EXCEPT ![Here] = @ \cup {t.id}]
         /\ ShownBare' = ShownBare
         /\ ShownReceived' = [ShownReceived EXCEPT ![Here] = @ \cup {t.ballot}]
         /\ ShownSignatures' = [ShownSignatures EXCEPT ![Here][t.ballot] = @ \cup A]
<1> DEFINE i == t.id
           b == t.ballot
<1>1. i \in VoteId /\ i \in EntryId /\ b \in Ballot /\ i = IdOf[b]
  BY BallotIds, CallsTyped
<1>2. ~ Delivery!Settled(Here, i) /\ i \notin ShownBare[Here]
  BY <1>1, ShownAt DEF Delivery!Settled, Undecided
<1>3. /\ ShownKnown' = [ShownKnown EXCEPT ![Here] = @ \cup {i}]
      /\ ShownBare' = ShownBare
  BY <1>1, ShowsKnown DEF Undecided
<1>4. ShownReceived' = [ShownReceived EXCEPT ![Here] = @ \cup {b}]
  <2>1. W.received = shown[i].received \cup {b}
    BY DEF Listed
  <2>2. \A c : i \in VoteId /\ W.received = shown[i].received \cup {c} =>
               ShownReceived' = [ShownReceived EXCEPT ![Here] = @ \cup {c}]
    BY <1>1, ShowsReceived
  <2> QED
    BY <1>1, <2>1, <2>2
<1>5. ShownSignatures' = [ShownSignatures EXCEPT ![Here][b] = @ \cup A]
  <2>1. W.lists = [shown[i].lists EXCEPT ![b] = @ \cup A]
    BY DEF Listed
  <2>2. \A c \in Ballot : \A B :
          IdOf[c] = i /\ W.lists = [shown[i].lists EXCEPT ![c] = @ \cup B] =>
          ShownSignatures' = [ShownSignatures EXCEPT ![Here][c] = @ \cup B]
    BY <1>1, ShowsLists
  <2> QED
    BY <1>1, <2>1, <2>2
<1> QED
  BY <1>2, <1>3, <1>4, <1>5

-----------------------------------------------------------------------------
(* Posts.                                                                  *)

LEMMA PostNext ==
  ASSUME NEW b \in Ballot, Delivery!Post(b, Here)
  PROVE  Delivery!Next
BY HandlerLockingAssumption DEF Delivery!Next

LEMMA ShareNext ==
  ASSUME NEW m \in AnyShareMsgs, Delivery!ReceiveServerShare(Here, m)
  PROVE  Delivery!Next
BY HandlerLockingAssumption DEF Delivery!Next

LEMMA ChallengeNext ==
  ASSUME NEW c \in ShownInbox[Here], Delivery!ChallengeVote(Here, c)
  PROVE  Delivery!Next
BY HandlerLockingAssumption DEF Delivery!Next

LEMMA FloodNext ==
  ASSUME NEW b \in Ballot, Delivery!Flood(Here, b)
  PROVE  Delivery!Next
BY HandlerLockingAssumption DEF Delivery!Next

(* The call has the lock of its entry, and that one is not lost. *)
LEMMA NotLost ==
  ASSUME Now, NEW t \in Call, pc[t] \in Inside
  PROVE  ~ Lost(t.id) /\ t.id \in EntryId
<1>1. /\ pc[t] # "again" => lock[t.id] = t
      /\ pc[t] = "again" => lock[t.id] = None
  BY DEF Now, Core, Alone, Holds
<1> QED
  BY <1>1, CallsTyped DEF Lost, Inside

LEMMA ClientRuns ==
  ASSUME Now, NEW t \in Call, t.kind = "post", stuck = None, up, pc[t] \in Inside
  PROVE  Delivery!ClientShareRuns(t.ballot, Here)
<1>1. pc[t] \in Active \ Gone
  BY DEF Active, Gone, Inside
<1>2. /\ Here \in ShownUnsent[t.ballot] /\ ShownTarget[t.ballot] = None
      /\ t.id = IdOf[t.ballot]
  BY <1>1, AtHand, PostShape
<1>3. t.id \notin ShownLocked[Here]
  BY NotLost, NoneLocked
<1>4. Delivery!Serving(Here)
  BY ServingHere
<1> QED
  BY <1>2, <1>3, <1>4 DEF Delivery!ClientShareRuns, Delivery!MayPost

LEMMA ClientAnswers ==
  ASSUME NEW t \in Call, OneMoves(t), t.kind = "post", stuck = None, stuck' = None,
         pc[t] \in Inside, pc'[t] \notin Active
  PROVE  Delivery!ClientAnswered(t.ballot, Here)
<1>1. pc[t] \in Active \ Gone
  BY DEF Active, Gone, Inside
<1> QED
  BY <1>1, Answered, Constant DEF Delivery!ClientAnswered

LEMMA ClientStays ==
  ASSUME NEW t \in Call, OneMoves(t), t.kind = "post", stuck = None,
         pc[t] \in Active \ Gone, pc'[t] \in Active,
         (stuck' = None /\ pc'[t] \in Gone) \/ stuck' = t
  PROVE  Delivery!ClientStuck(t.ballot, Here)
BY NotAnswered, Constant DEF Delivery!ClientStuck

LEMMA OwnListHere ==
  ASSUME ShownTyped', NEW b \in Ballot
  PROVE  Delivery!OwnListReady(b, Here) <=> Enough(shown'[IdOf[b]].lists[b])
<1>1. IdOf[b] \in VoteId /\ IdOf[b] \in EntryId
  BY HandlerLockingAssumption DEF EntryId
<1>2. /\ ShownSignatures'[Here] = [c \in Ballot |-> shown'[IdOf[c]].lists[c]]
      /\ ShownOwnCopies'[Here] = [c \in Ballot |-> 0]
  BY HereOnly DEF ShownSignatures, ShownOwnCopies
<1>3. ShownSignatures'[Here][b] = shown'[IdOf[b]].lists[b] /\ ShownOwnCopies'[Here][b] = 0
  BY <1>2
<1>4. shown'[IdOf[b]].lists[b] \in SUBSET Server
  BY <1>1 DEF ShownTyped, ViewType
<1> QED
  BY <1>3, <1>4, NeededHere DEF Delivery!OwnListReady

(* A handler leaves its entry with Unlock. *)
UnlockShown(t, W) ==
  /\ OneMoves(t) /\ pc[t] = "unlock"
  /\ pc'[t] = IF t \notin tells THEN "done"
              ELSE IF t.kind = "post" THEN "flood" ELSE "delayed"
  /\ t.id \in EntryId /\ t.ballot \in Ballot /\ W \in ViewType(t.id)
  /\ shown' = [shown EXCEPT ![t.id] = W] /\ shown'[t.id] = W
  /\ ShownTyped /\ ShownTyped' /\ OwnCalls
  /\ stuck = None /\ stuck' = None /\ up
  /\ ShownLocked' = ShownLocked /\ t.id \notin ShownLocked[Here]
  /\ up' = up /\ ShownUp' = ShownUp /\ ShownIdsHeld' = ShownIdsHeld

LEMMA UnlockShows ==
  ASSUME Now, NEW t \in Call, Step(t), Unlock(t), Shows, Undisturbed'
  PROVE  /\ UnlockShown(t, View(t.id))
         /\ \/ Returns(t, View(t.id), shown[t.id], t \in tells)
            \/ Rejects(t, View(t.id), shown[t.id], t \in tells)
            \/ Challenges(t, View(t.id), shown[t.id], t \in tells)
            \/ FindsNone(t, View(t.id), shown[t.id], t \in tells)
            \/ Delivers(t, View(t.id), shown[t.id], t \in tells)
            \/ Keeps(t, View(t.id), shown[t.id], t \in tells)
<1>1. /\ OneMoves(t) /\ pc[t] = "unlock" /\ Leaves(t)
      /\ pc'[t] = IF t \notin tells THEN "done"
                  ELSE IF t.kind = "post" THEN "flood" ELSE "delayed"
  BY UnlockingLeaves DEF Leaves, Tells
<1>2. UNCHANGED <<entries, rest>>
  BY DEF Unlock, Release
<1>3. View(t.id)' = View(t.id)
  BY <1>2, ViewsKept DEF rest
<1>4. /\ shown' = [shown EXCEPT ![t.id] = View(t.id)] /\ shown'[t.id] = View(t.id)
      /\ ShownTyped' /\ View(t.id) \in ViewType(t.id)
  <2>1. View(t.id)' \in ViewType(t.id)
    BY <1>3, CallsTyped, SameViewTyped
  <2>2. pc[t] \in Inside /\ pc'[t] \notin Inside
    BY <1>1 DEF Inside
  <2> QED
    BY <1>1, <1>3, <2>1, <2>2, ShownAnew
<1>5. stuck = None /\ stuck' = None
  BY <1>1, <1>2, AtWork DEF Inside, rest
<1>6. up /\ up' = up
  BY DEF Now, Undisturbed
<1>7. ShownLocked' = ShownLocked
  BY <1>1, <1>5, LostKept, LockedKept DEF Away
<1>8. t.id \notin ShownLocked[Here]
  BY <1>1, <1>5, NotLost, NoneLocked DEF Inside
<1>9. Section(t, "unlock", View(t.id), shown[t.id], t \in tells, sigs[t], chosen[t])
  BY <1>1, OwnSection DEF Inside
<1> QED
  BY <1>1, <1>4, <1>5, <1>6, <1>7, <1>8, <1>9, CallsTyped, NowShown, UpKept
     DEF UnlockShown, Section

LEMMA NothingNew ==
  ASSUME ShownTyped, NEW i \in EntryId, NEW W \in ViewType(i), shown' = [shown EXCEPT ![i] = W],
         W.known <=> shown[i].known, W.bare <=> shown[i].bare,
         W.delivered <=> shown[i].delivered, W.invalidated <=> shown[i].invalidated,
         SameLists(W, shown[i]), SameOthers(W, shown[i])
  PROVE  shown' = shown
<1>1. shown[i] \in ViewType(i) /\ shown = [j \in EntryId |-> shown[j]]
  BY DEF ShownTyped
<1>2. W = shown[i]
  BY <1>1 DEF ViewType, SameLists, SameOthers
<1> QED
  BY <1>1, <1>2

LEMMA ReturnsMapped ==
  ASSUME Now, NEW t \in Call, Step(t), NEW W, UnlockShown(t, W),
         Returns(t, W, shown[t.id], t \in tells)
  PROVE  Delivery!Next \/ UNCHANGED Delivery!vars
<1> USE DEF UnlockShown
<1>1. /\ shown[t.id].known /\ (shown[t.id].delivered \/ shown[t.id].invalidated)
      /\ t \notin tells /\ pc'[t] = "done" /\ t.kind \in {"post", "share"}
  BY CallsTyped DEF Returns
<1>2. shown' = shown
  BY NothingNew DEF Returns, Decided
<1>3. ShownOutgoing' = ShownOutgoing
  BY <1>1, ToldSame DEF Telling
<1>4. ShownInbox' = ShownInbox
  BY <1>1, <1>2, EntriesShown, InboxKept
<1>5. CASE t.kind = "share"
  <2>1. ShownUnsent' = ShownUnsent /\ ShownTarget' = ShownTarget
    BY <1>5, ClientsKept
  <2> QED
    BY <2>1, <1>2, <1>3, <1>4, EntriesShown, Constant, UnseenStutters DEF Unseen
<1>6. CASE t.kind = "post"
  <2>1. t.id = IdOf[t.ballot] /\ t.id \in VoteId
    BY <1>6, BallotIds
  <2>2. Delivery!Settled(Here, IdOf[t.ballot])
    BY <1>1, <2>1, ShownAt DEF Delivery!Settled
  <2>3. Delivery!ClientAnswered(t.ballot, Here)
    BY <1>1, <1>6, ClientAnswers DEF Active, Inside
  <2>4. Delivery!ClientShareRuns(t.ballot, Here)
    BY <1>6, ClientRuns DEF Inside
  <2>5. UNCHANGED <<Delivery!entryVars, Delivery!serverVars, Delivery!netVars>>
    BY <1>2, <1>3, <1>4, EntriesShown, Constant
       DEF Delivery!entryVars, Delivery!serverVars, Delivery!netVars
  <2>6. Delivery!ClientShareIgnored(t.ballot, Here)
    BY <2>2, <2>3, <2>4, <2>5 DEF Delivery!ClientShareIgnored
  <2> QED
    BY <2>6, PostNext DEF Delivery!Post
<1> QED
  BY <1>1, <1>5, <1>6

LEMMA ClientSigns ==
  ASSUME Now, NEW t \in Call, t.kind = "post", stuck = None, up, pc[t] \in Inside,
         NEW W \in ViewType(t.id), shown' = [shown EXCEPT ![t.id] = W],
         Undecided(shown[t.id]), W.known, ~ W.bare,
         Listed(W, shown[t.id], t.ballot, {Here}), Here \notin shown[t.id].lists[t.ballot]
  PROVE  Delivery!ClientShareSigned(t.ballot, Here) /\ ShownBare' = ShownBare
<1>1. t.id = IdOf[t.ballot] /\ t.ballot \in Ballot /\ ShownTyped
  BY BallotIds, CallsTyped, NowShown
<1>2. /\ ~ Delivery!Settled(Here, t.id) /\ t.id \notin ShownBare[Here]
      /\ ShownKnown' = [ShownKnown EXCEPT ![Here] = @ \cup {t.id}]
      /\ ShownBare' = ShownBare
      /\ ShownReceived' = [ShownReceived EXCEPT ![Here] = @ \cup {t.ballot}]
      /\ ShownSignatures' = [ShownSignatures EXCEPT ![Here][t.ballot] = @ \cup {Here}]
  BY <1>1, ListedShown
<1>3. Here \notin ShownSignatures[Here][t.ballot]
  BY <1>1, ShownAtBallot
<1>4. Delivery!SignBallot(t.ballot, Here)
  BY <1>1, <1>2, <1>3, Constant DEF Delivery!SignBallot
<1>5. Delivery!ClientShareRuns(t.ballot, Here)
  BY ClientRuns
<1> QED
  BY <1>1, <1>2, <1>4, <1>5 DEF Delivery!ClientShareSigned

LEMMA RejectsMapped ==
  ASSUME Now, NEW t \in Call, Step(t), NEW W, UnlockShown(t, W),
         Rejects(t, W, shown[t.id], t \in tells)
  PROVE  Delivery!Next
<1> USE DEF UnlockShown
<1>1. /\ t.kind = "post" /\ t \notin tells /\ pc'[t] = "done"
      /\ Undecided(shown[t.id]) /\ Listed(W, shown[t.id], t.ballot, {Here})
      /\ Here \notin shown[t.id].lists[t.ballot] /\ W.seen = shown[t.id].seen
      /\ ~ Verifies(t.ballot) /\ ~ Enough(W.lists[t.ballot])
  BY DEF Rejects, Signed
<1>2. /\ W.known /\ ~ W.bare /\ ~ W.delivered /\ ~ W.invalidated
      /\ W.pending = shown[t.id].pending /\ W.tally = shown[t.id].tally
      /\ W.flooded = shown[t.id].flooded
      /\ ~ shown[t.id].delivered /\ ~ shown[t.id].invalidated
  BY <1>1 DEF Rejects, Decided, SameOthers, Undecided
<1>3. Delivery!ClientShareSigned(t.ballot, Here) /\ ShownBare' = ShownBare
  BY <1>1, <1>2, ClientSigns DEF Inside
<1>4. Delivery!ClientAnswered(t.ballot, Here)
  BY <1>1, ClientAnswers DEF Active, Inside
<1>5. ~ Delivery!OwnListReady(t.ballot, Here)
  BY <1>1, OwnListHere, BallotIds
<1>6. /\ ShownSeen' = ShownSeen /\ ShownDelivered' = ShownDelivered
      /\ ShownInvalidated' = ShownInvalidated /\ ShownChallenges' = ShownChallenges
      /\ ShownTally' = ShownTally /\ AllFlooded' = AllFlooded
  BY <1>1, <1>2, ShowsSeen, ShowsSettled, ShowsPending, ShowsTally, ShowsFlooded
<1>7. ShownOutgoing' = ShownOutgoing
  BY <1>1, ToldSame DEF Telling
<1>8. ShownInbox' = ShownInbox
  BY <1>1, <1>6, InboxKept
<1>9. ~ Delivery!Verifies(Here, t.ballot)
  BY <1>1 DEF Delivery!Verifies, Verifies
<1>10. Delivery!ClientShareRejected(t.ballot, Here)
  BY <1>3, <1>4, <1>5, <1>6, <1>7, <1>8, <1>9, Constant
     DEF Delivery!ClientShareRejected, Delivery!EarlierFlood, Delivery!netVars
<1> QED
  BY <1>10, PostNext DEF Delivery!Post

(* A challenge goes out when the entry it is about is left. *)
LEMMA ChallengeGoesOut ==
  ASSUME Now, NEW t \in Call, OneMoves(t), t.kind # "challenge", stuck = None, stuck' = None,
         ~ shown[t.id].invalidated, View(t.id) \in ViewType(t.id),
         shown' = [shown EXCEPT ![t.id] = View(t.id)],
         NEW b \in Ballot, IdOf[b] = t.id, NEW i \in {t.id, NilId},
         View(t.id).flooded = shown[t.id].flooded \cup {ChallengeOf(i, b, Here)}
  PROVE  Delivery!FloodChallenge([id |-> i, ballot |-> b, sender |-> Here], Server)
<1> DEFINE c == ChallengeOf(i, b, Here)
<1>1. t.id \in VoteId /\ t.id \in EntryId /\ ShownTyped /\ OwnCalls
  BY BallotIds, CallsTyped, NowShown
<1>2. c \in OwnChallenges /\ c.ballot = b
  BY OwnMade DEF ChallengeOf
<1>3. c \in flooded
  BY DEF View
<1>4. c \notin AllFlooded
  <2>1. SUFFICES ASSUME NEW j \in VoteId, c \in shown[j].flooded PROVE FALSE
    BY DEF AllFlooded
  <2>2. j = t.id
    <3>1. shown[j] \in ViewType(j)
      BY <1>1 DEF ShownTyped, EntryId
    <3>2. c \in {d \in OwnChallenges : IdOf[d.ballot] = j}
      BY <2>1, <3>1 DEF ViewType
    <3> QED
      BY <1>2, <3>2
  <2>3. shown[t.id].flooded = {}
    BY <1>1 DEF Now, Core, Shown
  <2> QED
    BY <2>1, <2>2, <2>3
<1>5. AllFlooded' = AllFlooded \cup {c}
  <2>1. \A d : t.id \in VoteId /\ View(t.id).flooded = shown[t.id].flooded \cup {d} =>
                 AllFlooded' = AllFlooded \cup {d}
    BY <1>1, ShowsFlooded
  <2> QED
    BY <1>1, <2>1
<1>6. ShownInbox' = [p \in Server |-> ShownInbox[p] \cup {AsChallenge(c)}]
  <2> HIDE DEF c
  <2> QED
    BY <1>1, <1>2, <1>3, <1>4, <1>5, InboxMore
<1>7. AsChallenge(c) = [id |-> i, ballot |-> b, sender |-> Here]
  BY ChallengeMapped
<1> QED
  BY <1>6, <1>7 DEF Delivery!FloodChallenge

LEMMA ChallengesMapped ==
  ASSUME Now, NEW t \in Call, Step(t), UnlockShown(t, View(t.id)),
         Challenges(t, View(t.id), shown[t.id], t \in tells)
  PROVE  Delivery!Next
<1> DEFINE W == View(t.id)
<1> USE DEF UnlockShown
<1>1. /\ t.kind = "post" /\ t \notin tells /\ pc'[t] = "done"
      /\ Undecided(shown[t.id]) /\ Listed(W, shown[t.id], t.ballot, {Here})
      /\ Here \notin shown[t.id].lists[t.ballot] /\ W.seen = shown[t.id].seen
      /\ ~ Verifies(t.ballot) /\ Enough(W.lists[t.ballot])
  BY DEF Challenges, Signed
<1>2. /\ W.known /\ ~ W.bare /\ ~ W.delivered /\ W.invalidated
      /\ W.pending = shown[t.id].pending /\ W.tally = shown[t.id].tally
      /\ W.flooded = shown[t.id].flooded \cup {ChallengeOf(t.id, t.ballot, Here)}
      /\ ~ shown[t.id].delivered /\ ~ shown[t.id].invalidated
  BY <1>1 DEF Challenges, Decided, Flooding, Undecided
<1>3. t.id = IdOf[t.ballot] /\ t.id \in VoteId
  BY <1>1, BallotIds
<1>4. Delivery!FloodChallenge([id |-> IdOf[t.ballot], ballot |-> t.ballot, sender |-> Here], Server)
  BY <1>1, <1>2, <1>3, ChallengeGoesOut
<1> HIDE DEF W
<1>5. Delivery!ClientShareSigned(t.ballot, Here) /\ ShownBare' = ShownBare
  BY <1>1, <1>2, ClientSigns DEF Inside, W
<1>6. Delivery!ClientAnswered(t.ballot, Here)
  BY <1>1, ClientAnswers DEF Active, Inside
<1>7. Delivery!OwnListReady(t.ballot, Here)
  BY <1>1, <1>3, OwnListHere DEF W
<1>8. /\ ShownSeen' = ShownSeen /\ ShownDelivered' = ShownDelivered
      /\ ShownInvalidated' = [ShownInvalidated EXCEPT ![Here] = @ \cup {t.id}]
      /\ ShownChallenges' = ShownChallenges /\ ShownTally' = ShownTally
  BY <1>1, <1>2, <1>3, ShowsSeen, ShowsSettled, ShowsPending, ShowsTally DEF W
<1>9. ShownOutgoing' = ShownOutgoing
  BY <1>1, ToldSame DEF Telling
<1>10. ~ Delivery!Verifies(Here, t.ballot)
  BY <1>1 DEF Delivery!Verifies, Verifies
<1>11. Delivery!ClientShareChallenged(t.ballot, Here)
  BY <1>3, <1>4, <1>5, <1>6, <1>7, <1>8, <1>9, <1>10, Constant, DialsHere
     DEF Delivery!ClientShareChallenged, Delivery!EarlierFlood
<1> QED
  BY <1>11, PostNext DEF Delivery!Post

-----------------------------------------------------------------------------
(* A call whose signatures the entry takes.                                *)

(* What is shown when it leaves the entry, or stays there for ever. *)
TakenShown(t, W, told) ==
  /\ ShownTyped /\ ShownTyped' /\ stuck = None /\ up /\ pc[t] \in Inside /\ OneMoves(t)
  /\ W \in ViewType(t.id) /\ shown' = [shown EXCEPT ![t.id] = W] /\ shown'[t.id] = W
  /\ Taken(t, W, shown[t.id], told) /\ W.known /\ ~ W.bare

LEMMA TakenFacts ==
  ASSUME NEW t \in Call, NEW W, NEW told, TakenShown(t, W, told)
  PROVE  /\ t.kind \in {"post", "share"} /\ Undecided(shown[t.id])
         /\ t.id = IdOf[t.ballot] /\ t.id \in VoteId /\ t.id \in EntryId
         /\ t.ballot \in Ballot
         /\ Listed(W, shown[t.id], t.ballot, Adds(t, shown[t.id]))
         /\ W.seen = shown[t.id].seen \cup Adds(t, shown[t.id])
         /\ told <=> Adds(t, shown[t.id]) # {}
         /\ ~ shown[t.id].delivered /\ ~ shown[t.id].invalidated
<1>1. Taken(t, W, shown[t.id], told)
  BY DEF TakenShown
<1>2. t.kind # "challenge"
  BY <1>1 DEF Taken
<1> QED
  BY <1>1, <1>2, BallotIds, CallsTyped DEF Taken, Undecided

LEMMA TakenSeen ==
  ASSUME NEW t \in Call, NEW W, NEW told, TakenShown(t, W, told)
  PROVE  ShownSeen' = [ShownSeen EXCEPT ![Here][t.id] = @ \cup Adds(t, shown[t.id])]
<1>1. /\ ShownTyped /\ t.id \in EntryId /\ t.id \in VoteId
      /\ W \in ViewType(t.id) /\ shown' = [shown EXCEPT ![t.id] = W]
      /\ W.seen = shown[t.id].seen \cup Adds(t, shown[t.id])
  BY TakenFacts DEF TakenShown
<1>2. \A A : t.id \in VoteId /\ W.seen = shown[t.id].seen \cup A =>
              ShownSeen' = [ShownSeen EXCEPT ![Here][t.id] = @ \cup A]
  BY <1>1, ShowsSeen
<1> QED
  BY <1>1, <1>2

LEMMA ClientTakes ==
  ASSUME Now, NEW t \in Call, NEW W, NEW told, TakenShown(t, W, told), t.kind = "post"
  PROVE  /\ Delivery!ClientShareSigned(t.ballot, Here) /\ Delivery!Verifies(Here, t.ballot)
         /\ ShownBare' = ShownBare /\ told
         /\ ShownSeen' = [ShownSeen EXCEPT ![Here][IdOf[t.ballot]] = @ \cup {Here}]
<1>1. Adds(t, shown[t.id]) = {Here}
  BY DEF Adds
<1>2. Verifies(t.ballot) /\ Here \notin shown[t.id].lists[t.ballot]
  BY DEF TakenShown, Taken
<1>3. /\ W \in ViewType(t.id) /\ shown' = [shown EXCEPT ![t.id] = W] /\ W.known /\ ~ W.bare
      /\ stuck = None /\ up /\ pc[t] \in Inside
  BY DEF TakenShown
<1>4. Undecided(shown[t.id]) /\ Listed(W, shown[t.id], t.ballot, {Here}) /\ told
  BY <1>1, TakenFacts
<1>5. Delivery!ClientShareSigned(t.ballot, Here) /\ ShownBare' = ShownBare
  BY <1>2, <1>3, <1>4, ClientSigns
<1>6. ShownSeen' = [ShownSeen EXCEPT ![Here][IdOf[t.ballot]] = @ \cup {Here}]
  BY <1>1, TakenSeen, TakenFacts
<1> QED
  BY <1>2, <1>4, <1>5, <1>6 DEF Verifies, Delivery!Verifies

(* The message VoteDelivery knows a call by. *)
AsMsg(t) == [ballot |-> t.ballot, sigs |-> t.from]

LEMMA ServerTakes ==
  ASSUME Now, NEW t \in Call, NEW W, NEW told, TakenShown(t, W, told), t.kind = "share"
  PROVE  /\ AsMsg(t) \in AnyShareMsgs
         /\ AsMsg(t).ballot = t.ballot
         /\ Delivery!NewSignatures(Here, AsMsg(t)) = Adds(t, shown[t.id])
         /\ Delivery!ServerShareRuns(Here, AsMsg(t))
         /\ t.id \notin ShownBare[Here] /\ ShownBare' = ShownBare
         /\ ShownKnown' = [ShownKnown EXCEPT ![Here] = @ \cup {t.id}]
         /\ ShownReceived' = [ShownReceived EXCEPT ![Here] = @ \cup {t.ballot}]
         /\ ShownSignatures' =
              [ShownSignatures EXCEPT ![Here][t.ballot] = @ \cup Adds(t, shown[t.id])]
         /\ ShownSeen' = [ShownSeen EXCEPT ![Here][t.id] = @ \cup Adds(t, shown[t.id])]
<1>1. /\ t.id = IdOf[t.ballot] /\ t.id \in VoteId /\ t.id \in EntryId /\ t.ballot \in Ballot
      /\ Undecided(shown[t.id])
      /\ Listed(W, shown[t.id], t.ballot, Adds(t, shown[t.id]))
  BY TakenFacts
<1>2. /\ ShownTyped /\ W \in ViewType(t.id) /\ shown' = [shown EXCEPT ![t.id] = W]
      /\ W.known /\ ~ W.bare /\ stuck = None /\ up /\ pc[t] \in Inside
  BY DEF TakenShown
<1>3. AsMsg(t) \in AnyShareMsgs /\ AsMsg(t).ballot = t.ballot /\ AsMsg(t).sigs = t.from
  BY <1>1, ShareShape DEF AsMsg, AnyShareMsgs
<1>4. Delivery!NewSignatures(Here, AsMsg(t)) = Adds(t, shown[t.id])
  <2>1. /\ ShownSeen[Here][t.id] = shown[t.id].seen
        /\ ShownSignatures[Here][t.ballot] = shown[t.id].lists[t.ballot]
    BY <1>1, <1>2, ShownAt, ShownAtBallot
  <2> QED
    BY <1>1, <1>3, <2>1 DEF Delivery!NewSignatures, Adds
<1>5. /\ ~ Delivery!Settled(Here, t.id) /\ t.id \notin ShownBare[Here]
      /\ ShownKnown' = [ShownKnown EXCEPT ![Here] = @ \cup {t.id}]
      /\ ShownBare' = ShownBare
      /\ ShownReceived' = [ShownReceived EXCEPT ![Here] = @ \cup {t.ballot}]
      /\ ShownSignatures' =
           [ShownSignatures EXCEPT ![Here][t.ballot] = @ \cup Adds(t, shown[t.id])]
  BY <1>1, <1>2, ListedShown
<1>6. t.id \notin ShownLocked[Here]
  BY <1>2, NotLost, NoneLocked
<1>7. Delivery!ServerShareRuns(Here, AsMsg(t))
  BY <1>1, <1>2, <1>3, <1>5, <1>6, ServingHere DEF Delivery!ServerShareRuns
<1> QED
  BY <1>3, <1>4, <1>5, <1>7, TakenSeen

LEMMA MergedMapped ==
  ASSUME Now, NEW t \in Call, NEW W, NEW told, TakenShown(t, W, told), t.kind = "share",
         \/ /\ Delivery!CheckSignaturesReturns(Here, t.id)
            /\ ShownOutgoing' = IF Adds(t, shown[t.id]) = {} THEN ShownOutgoing
                                ELSE [ShownOutgoing EXCEPT ![Here] = @ \cup {t.ballot}]
         \/ /\ Delivery!CheckSignaturesNeverReturns(Here, t.id, FALSE)
            /\ ShownOutgoing' = ShownOutgoing,
         ShownUnsent' = ShownUnsent, ShownTarget' = ShownTarget,
         ShownChallenges' = ShownChallenges
  PROVE  Delivery!Next
<1>1. t.id = IdOf[t.ballot]
  BY TakenFacts
<1>2. Delivery!ServerShareMerged(Here, AsMsg(t))
  BY <1>1, ServerTakes, Constant DEF Delivery!ServerShareMerged, Delivery!clientVars
<1> QED
  BY <1>2, ServerTakes, ShareNext DEF Delivery!ReceiveServerShare

(* _CheckSignatures comes back. *)
LEMMA CheckReturns ==
  ASSUME Now, NEW t \in Call, Step(t), NEW W, UnlockShown(t, W),
         \/ FindsNone(t, W, shown[t.id], t \in tells)
         \/ Delivers(t, W, shown[t.id], t \in tells)
  PROVE  /\ TakenShown(t, W, t \in tells)
         /\ Delivery!CheckSignaturesReturns(Here, t.id)
         /\ ShownChallenges' = ShownChallenges
<1> USE DEF UnlockShown
<1>1. /\ Taken(t, W, shown[t.id], t \in tells) /\ W.known /\ ~ W.bare
      /\ ~ W.invalidated /\ W.pending = shown[t.id].pending
      /\ W.flooded = shown[t.id].flooded
  BY DEF FindsNone, Delivers, Decided, SameOthers, Taken, Undecided
<1>2. TakenShown(t, W, t \in tells)
  BY <1>1 DEF TakenShown, Inside
<1>3. /\ ~ shown[t.id].delivered /\ ~ shown[t.id].invalidated /\ t.id \in VoteId
      /\ t.kind # "challenge"
  BY <1>2, TakenFacts
<1>4. /\ ShownInvalidated' = ShownInvalidated /\ ShownChallenges' = ShownChallenges
      /\ AllFlooded' = AllFlooded
  BY <1>1, <1>3, ShowsSettled, ShowsPending, ShowsFlooded
<1>5. ShownInbox' = ShownInbox
  BY <1>3, <1>4, InboxKept
<1>6. Delivery!Ready(Here, t.id) = ReadyIn(W)
  BY ReadyHere
<1>7. CASE FindsNone(t, W, shown[t.id], t \in tells)
  <2>1. ~ W.delivered /\ W.tally = shown[t.id].tally /\ ReadyIn(W) = {}
    BY <1>7 DEF FindsNone, Decided, SameOthers
  <2>2. ShownDelivered' = ShownDelivered /\ ShownTally' = ShownTally
    BY <1>3, <2>1, ShowsSettled, ShowsTally
  <2>3. Delivery!NothingReady(Here, t.id)
    BY <1>4, <1>5, <1>6, <2>1, <2>2 DEF Delivery!NothingReady
  <2> QED
    BY <1>2, <1>4, <2>3 DEF Delivery!CheckSignaturesReturns
<1>8. CASE Delivers(t, W, shown[t.id], t \in tells)
  <2>1. /\ W.delivered /\ shown[t.id].pending = {}
    BY <1>8 DEF Delivers, Decided
  <2>2. PICK c \in ReadyIn(W) : Verifies(c) /\ W.tally = [shown[t.id].tally EXCEPT ![c] = @ + 1]
    BY <1>8 DEF Delivers
  <2>3. c \in Ballot /\ IdOf[c] = t.id
    BY <2>2 DEF ReadyIn, ViewType
  <2>4. ShownDelivered' = [ShownDelivered EXCEPT ![Here] = @ \cup {t.id}]
    BY <1>3, <2>1, ShowsSettled
  <2>5. ShownTally' = [ShownTally EXCEPT ![Here][c] = @ + 1]
    <3>1. \A d \in Ballot :
            IdOf[d] = t.id /\ W.tally = [shown[t.id].tally EXCEPT ![d] = @ + 1] =>
            ShownTally' = [ShownTally EXCEPT ![Here][d] = @ + 1]
      BY ShowsTally
    <3> QED
      BY <2>2, <2>3, <3>1
  <2>6. Delivery!Pending(Here, t.id) = {}
    <3>1. {d \in ShownChallenges[Here] : d.id = t.id} = {AsChallenge(d) : d \in shown[t.id].pending}
      BY ShownPending
    <3> QED
      BY <2>1, <3>1 DEF Delivery!Pending
  <2>7. Delivery!Verifies(Here, c)
    BY <2>2 DEF Verifies, Delivery!Verifies
  <2>8. Delivery!Deliver(Here, t.id)
    BY <1>4, <1>5, <1>6, <2>2, <2>4, <2>5, <2>6, <2>7 DEF Delivery!Deliver
  <2> QED
    BY <1>2, <1>4, <2>8 DEF Delivery!CheckSignaturesReturns
<1> QED
  BY <1>7, <1>8

LEMMA TakesMapped ==
  ASSUME Now, NEW t \in Call, Step(t), NEW W, UnlockShown(t, W),
         \/ FindsNone(t, W, shown[t.id], t \in tells)
         \/ Delivers(t, W, shown[t.id], t \in tells)
  PROVE  Delivery!Next
<1>1. /\ TakenShown(t, W, t \in tells) /\ Delivery!CheckSignaturesReturns(Here, t.id)
      /\ ShownChallenges' = ShownChallenges
  BY CheckReturns
<1>2. /\ OneMoves(t) /\ pc[t] = "unlock" /\ stuck = None /\ stuck' = None
      /\ pc'[t] = IF t \notin tells THEN "done"
                  ELSE IF t.kind = "post" THEN "flood" ELSE "delayed"
  BY DEF UnlockShown
<1>3. /\ t.kind \in {"post", "share"} /\ t.id = IdOf[t.ballot]
      /\ t \in tells <=> Adds(t, shown[t.id]) # {}
  BY <1>1, TakenFacts
<1>4. CASE t.kind = "post"
  <2>1. /\ Delivery!ClientShareSigned(t.ballot, Here) /\ Delivery!Verifies(Here, t.ballot)
        /\ ShownBare' = ShownBare /\ t \in tells
        /\ ShownSeen' = [ShownSeen EXCEPT ![Here][IdOf[t.ballot]] = @ \cup {Here}]
    BY <1>1, <1>4, ClientTakes
  <2>2. pc'[t] = "flood"
    BY <1>2, <1>4, <2>1
  <2>3. ShownOutgoing' = [ShownOutgoing EXCEPT ![Here] = @ \cup {t.ballot}]
    BY <1>2, <2>2, ToldMore DEF Telling
  <2>4. Delivery!ClientAnswered(t.ballot, Here)
    BY <1>2, <1>4, <2>2, ClientAnswers DEF Active, Inside
  <2>5. Delivery!ClientShareAccepted(t.ballot, Here)
    BY <1>1, <1>3, <2>1, <2>3, <2>4, Constant DEF Delivery!ClientShareAccepted
  <2> QED
    BY <1>1, <2>5, PostNext, TakenFacts DEF Delivery!Post
<1>5. CASE t.kind = "share"
  <2>1. ShownUnsent' = ShownUnsent /\ ShownTarget' = ShownTarget
    BY <1>2, <1>5, ClientsKept
  <2>2. ShownOutgoing' = IF Adds(t, shown[t.id]) = {} THEN ShownOutgoing
                         ELSE [ShownOutgoing EXCEPT ![Here] = @ \cup {t.ballot}]
    BY <1>2, <1>3, <1>5, ToldSame, ToldMore DEF Telling
  <2> QED
    BY <1>1, <1>5, <2>1, <2>2, MergedMapped
<1> QED
  BY <1>3, <1>4, <1>5

-----------------------------------------------------------------------------
(* Challenges.                                                             *)

LEMMA ChallengeTaken ==
  ASSUME Now, NEW t \in Call, t.kind = "challenge", OneMoves(t), stuck = None, up,
         pc[t] \in Sought, t \in OwnChallenges => t \in AllFlooded, AllFlooded' = AllFlooded,
         (stuck' = None /\ pc'[t] \notin Sought) \/ stuck' = t, up' = up,
         ShownOutgoing' = ShownOutgoing, ShownTally' = ShownTally,
         ShownUnsent' = ShownUnsent, ShownTarget' = ShownTarget
  PROVE  /\ AsChallenge(t) \in ShownInbox[Here]
         /\ Delivery!TakeChallenge(Here, AsChallenge(t))
         /\ AsChallenge(t).id = t.id /\ AsChallenge(t).ballot = t.ballot
<1>1. t \in UnderWay
  BY CallsTyped DEF UnderWay, Sought
<1>2. OwnCalls
  BY NowShown
<1>3. /\ AsChallenge(t) \in ShownInbox[Here]
      /\ ShownInbox' = [ShownInbox EXCEPT ![Here] = @ \ {AsChallenge(t)}]
  BY <1>1, <1>2, InboxLess
<1>4. Delivery!TakeChallenge(Here, AsChallenge(t))
  BY <1>3, ServingHere, UpKept, Constant DEF Delivery!TakeChallenge, Delivery!clientVars
<1> QED
  BY <1>3, <1>4 DEF AsChallenge

LEMMA InvalidatedHere ==
  ASSUME ShownTyped, NEW i \in EntryId
  PROVE  i \in ShownInvalidated[Here] => shown[i].invalidated
<1>1. ShownInvalidated[Here] = {j \in VoteId : shown[j].invalidated}
  BY HereOnly DEF ShownInvalidated
<1> QED
  BY <1>1

LEMMA FoundThere ==
  ASSUME ShownTyped, NEW i \in EntryId, NEW b \in Ballot
  PROVE  b \in Delivery!ReceivedUnder(Here, i) <=> b \in shown[i].received
<1>1. shown[i].received \subseteq {c \in Ballot : IdOf[c] = i}
  BY DEF ShownTyped, ViewType
<1>2. b \in ShownReceived[Here] <=> b \in shown[IdOf[b]].received
  BY ShownAtBallot
<1> QED
  BY <1>1, <1>2 DEF Delivery!ReceivedUnder

LEMMA KeepsMapped ==
  ASSUME Now, NEW t \in Call, Step(t), NEW W, UnlockShown(t, W),
         Keeps(t, W, shown[t.id], t \in tells)
  PROVE  Delivery!Next
<1> USE DEF UnlockShown
<1>1. /\ t.kind = "challenge" /\ t \notin tells /\ pc'[t] = "done"
      /\ shown[t.id].known /\ ~ shown[t.id].invalidated
      /\ t.ballot \notin shown[t.id].received
      /\ W.pending = shown[t.id].pending \cup {t}
  BY DEF Keeps
<1>2. /\ W.known /\ (W.bare <=> shown[t.id].bare) /\ (W.delivered <=> shown[t.id].delivered)
      /\ ~ W.invalidated
      /\ W.received = shown[t.id].received /\ W.seen = shown[t.id].seen
      /\ W.lists = shown[t.id].lists
      /\ W.tally = shown[t.id].tally /\ W.flooded = shown[t.id].flooded
  BY DEF Keeps, Decided, SameLists
<1>3. /\ ShownKnown' = ShownKnown /\ ShownBare' = ShownBare
      /\ ShownDelivered' = ShownDelivered /\ ShownInvalidated' = ShownInvalidated
      /\ ShownReceived' = ShownReceived /\ ShownSeen' = ShownSeen
      /\ ShownSignatures' = ShownSignatures /\ ShownTally' = ShownTally
      /\ AllFlooded' = AllFlooded
  BY <1>1, <1>2, ShowsKnown, ShowsSettled, ShowsReceived, ShowsSeen, ShowsLists, ShowsTally,
     ShowsFlooded
<1>4. ShownChallenges' = [ShownChallenges EXCEPT ![Here] = @ \cup {AsChallenge(t)}]
  <2>1. \A u : W.pending = shown[t.id].pending \cup {u} =>
          ShownChallenges' = [ShownChallenges EXCEPT ![Here] = @ \cup {AsChallenge(u)}]
    BY ShowsPending
  <2> QED
    BY <1>1, <2>1
<1>5. ShownUnsent' = ShownUnsent /\ ShownTarget' = ShownTarget
  BY <1>1, ClientsKept
<1>6. ShownOutgoing' = ShownOutgoing
  BY <1>1, ToldSame DEF Telling
<1>7. t \in OwnChallenges => t \in AllFlooded
  BY DEF OwnCalls
<1>8. /\ AsChallenge(t) \in ShownInbox[Here]
      /\ Delivery!TakeChallenge(Here, AsChallenge(t))
      /\ AsChallenge(t).id = t.id /\ AsChallenge(t).ballot = t.ballot
  BY <1>1, <1>3, <1>5, <1>6, <1>7, ChallengeTaken DEF Sought, Inside
<1>9. t.id \in ShownKnown[Here] /\ t.id \notin ShownInvalidated[Here]
  BY <1>1, ShownAt, InvalidatedHere
<1>10. t.ballot \notin Delivery!ReceivedUnder(Here, t.id)
  BY <1>1, FoundThere
<1>11. Delivery!ChallengeKept(Here, AsChallenge(t))
  BY <1>3, <1>4, <1>8, <1>9, <1>10, Constant
     DEF Delivery!ChallengeKept, Delivery!ChallengeRuns, Delivery!KeepChallenge
<1> QED
  BY <1>8, <1>11, ChallengeNext DEF Delivery!ChallengeVote

LEMMA UnlockMapped ==
  ASSUME Now, NEW t \in Call, Step(t), Unlock(t), Shows, Undisturbed'
  PROVE  Delivery!Next \/ UNCHANGED Delivery!vars
<1> DEFINE W == View(t.id)
<1>1. UnlockShown(t, W)
  BY UnlockShows
<1>2. \/ Returns(t, W, shown[t.id], t \in tells) \/ Rejects(t, W, shown[t.id], t \in tells)
      \/ Challenges(t, W, shown[t.id], t \in tells)
      \/ FindsNone(t, W, shown[t.id], t \in tells)
      \/ Delivers(t, W, shown[t.id], t \in tells) \/ Keeps(t, W, shown[t.id], t \in tells)
  BY UnlockShows
<1>3. CASE Challenges(t, W, shown[t.id], t \in tells)
  BY <1>1, <1>3, ChallengesMapped
<1> HIDE DEF W
<1> QED
  BY <1>1, <1>2, <1>3, ReturnsMapped, RejectsMapped, TakesMapped, KeepsMapped

-----------------------------------------------------------------------------
(* Calls that do not come into an entry.                                   *)

LEMMA NobodyStuckAtStart ==
  ASSUME Now, NEW t \in Call, ids = None, pc[t] = "start"
  PROVE  stuck = None
BY StuckStays

LEMMA ChallengeIgnoredMapped ==
  ASSUME Now, NEW t \in Call, Step(t), ChallengeIgnored(t), Shows, Undisturbed'
  PROVE  Delivery!Next
<1>t. Typed /\ Recorded /\ t.id \in EntryId
  BY CallsTyped DEF Now, Core, LockingInv
<1>1. /\ OneMoves(t) /\ Stays(t)
  BY StepAlone, WaitingStays DEF Waiting
<1>2. /\ pc[t] = "start" /\ pc'[t] = "done" /\ ids = None
      /\ t.kind = "challenge" /\ t.id \in invalidated
      /\ overtaken' = (overtaken \/ LooksEarly(t))
      /\ UNCHANGED <<locks, entries, rest>>
  BY <1>t DEF ChallengeIgnored, LookUp, Goes, Typed
<1>3. ~ Occupied(t.id)
  <2>1. ~ LooksEarly(t)
    BY <1>2 DEF Undisturbed
  <2> QED
    BY <1>2, <2>1 DEF LooksEarly
<1>4. stuck = None /\ stuck' = None /\ up /\ up' = up
  BY <1>2, NobodyStuckAtStart DEF rest, locks, Now, Undisturbed
<1>5. shown' = shown
  <2>1. View(t.id)' = View(t.id)
    BY <1>2, ViewsKept DEF rest
  <2> QED
    BY <1>1, <1>3, <2>1, NothingShown
<1>6. t.id \in ShownInvalidated[Here]
  <2>1. shown[t.id] = View(t.id) /\ t.id \in VoteId
    BY <1>t, <1>2, <1>3 DEF Now, Core, Shown, Recorded
  <2>2. shown[t.id].invalidated
    BY <1>t, <1>2, <2>1, ViewFields
  <2> QED
    BY <1>t, <2>1, <2>2, NowShown, ShownAt
<1>7. t \in OwnChallenges => t \in AllFlooded
  BY <1>2, StartedShown
<1>8. ShownUnsent' = ShownUnsent /\ ShownTarget' = ShownTarget
  BY <1>1, <1>2, <1>4, ClientsKept
<1>9. ShownOutgoing' = ShownOutgoing
  BY <1>1, <1>2, ToldSame DEF Telling
<1>10. ShownLocked' = ShownLocked
  BY <1>1, <1>2, <1>4, LostKept, LockedKept DEF Away
<1>11. /\ AsChallenge(t) \in ShownInbox[Here]
       /\ Delivery!TakeChallenge(Here, AsChallenge(t))
       /\ AsChallenge(t).id = t.id
  BY <1>1, <1>2, <1>4, <1>5, <1>7, <1>8, <1>9, EntriesShown, ChallengeTaken DEF Sought, Inside
<1>12. Delivery!ChallengeIgnored(Here, AsChallenge(t))
  BY <1>4, <1>5, <1>6, <1>10, <1>11, EntriesShown, Constant, UpKept
     DEF Delivery!ChallengeIgnored, Delivery!entryVars
<1> QED
  BY <1>11, <1>12, ChallengeNext DEF Delivery!ChallengeVote

LEMMA ChallengeUnknownIdMapped ==
  ASSUME Now, NEW t \in Call, Step(t), ChallengeUnknownId(t), Shows, Undisturbed', LockingInv'
  PROVE  Delivery!Next
<1> DEFINE W == View(t.id)'
           s == shown[t.id]
<1>t. Typed /\ Recorded /\ t.id \in EntryId
  BY CallsTyped DEF Now, Core, LockingInv
<1>1. /\ OneMoves(t) /\ Stays(t)
  BY StepAlone, WaitingStays DEF Waiting
<1>2. /\ pc[t] = "start" /\ pc'[t] = "done" /\ ids = None
      /\ t.kind = "challenge" /\ t.id \notin known
      /\ known' = known \cup {t.id} /\ bare' = bare \cup {t.id}
      /\ challenges' = challenges \cup {t}
      /\ UNCHANGED <<locks, delivered, invalidated, seen, stored, sigs, rest>>
  BY <1>t DEF ChallengeUnknownId, LookUp, Goes, Typed
<1>3. ~ Occupied(t.id) /\ ~ Occupied(t.id)'
  <2>1. \A u \in Call : pc[u] \in Inside => u.id \in known
    BY DEF Now, LockingInv, EntryFirst, Inside
  <2>2. ~ Occupied(t.id)
    BY <1>2, <2>1 DEF Occupied
  <2> QED
    BY <1>1, <1>2, <2>2, OutsideStays DEF Inside
<1>4. stuck = None /\ stuck' = None /\ up /\ up' = up
  BY <1>2, NobodyStuckAtStart DEF rest, locks, Now, Undisturbed
<1>5. W \in ViewType(t.id)
  <2>1. Core'
    BY CoreStep
  <2>2. Structs' /\ Recorded' /\ Typed' /\ flooded' \subseteq OwnChallenges
    BY <2>1 DEF Core, OwnCalls, LockingInv
  <2> QED
    BY <1>t, <2>2, NextViewTyped
<1>6. shown' = [shown EXCEPT ![t.id] = W]
  BY <1>1, <1>3, ShowsHere
<1>7. ShownTyped
  BY NowShown
<1>8. s = View(t.id)
  BY <1>t, <1>3 DEF Now, Core, Shown
<1>9. W.known /\ W.bare /\ ~ s.known
  <2>1. (W.known <=> t.id \in known') /\ (W.bare <=> t.id \in bare')
    BY <1>t, NextFields
  <2>2. s.known <=> t.id \in known
    BY <1>t, <1>8, ViewFields
  <2>3. t.id \in known' /\ t.id \in bare' /\ t.id \notin known
    BY <1>2
  <2> HIDE DEF W, s
  <2> QED
    BY <2>1, <2>2, <2>3
<1>10. W.pending = s.pending \cup {t}
  <2>1. Pending(t.id)' = Pending(t.id) \cup {t}
    BY <1>2 DEF Pending
  <2> QED
    BY <1>t, <1>8, <2>1, NextFields, ViewFields
<1>11. /\ (W.delivered <=> s.delivered) /\ (W.invalidated <=> s.invalidated)
       /\ W.received = s.received /\ W.seen = s.seen /\ W.lists = s.lists
       /\ W.tally = s.tally /\ W.flooded = s.flooded
  <2>1. \A b \in Ballot : List(b)' = List(b)
    BY <1>2 DEF List
  <2>2. Received(t.id)' = Received(t.id)
    BY <1>2 DEF Received
  <2> QED
    BY <1>t, <1>2, <1>8, <2>1, <2>2, FieldsKept DEF rest
<1> HIDE DEF W
<1>12. /\ ShownKnown' = [ShownKnown EXCEPT ![Here] = @ \cup {t.id}]
       /\ ShownBare' = [ShownBare EXCEPT ![Here] = @ \cup {t.id}]
       /\ ShownDelivered' = ShownDelivered /\ ShownInvalidated' = ShownInvalidated
       /\ ShownReceived' = ShownReceived /\ ShownSeen' = ShownSeen
       /\ ShownSignatures' = ShownSignatures /\ ShownTally' = ShownTally
       /\ AllFlooded' = AllFlooded
  BY <1>t, <1>5, <1>6, <1>7, <1>9, <1>11, ShowsKnown, ShowsSettled, ShowsReceived, ShowsSeen,
     ShowsLists, ShowsTally, ShowsFlooded
<1>13. ShownChallenges' = [ShownChallenges EXCEPT ![Here] = @ \cup {AsChallenge(t)}]
  <2>1. \A u : W.pending = s.pending \cup {u} =>
          ShownChallenges' = [ShownChallenges EXCEPT ![Here] = @ \cup {AsChallenge(u)}]
    BY <1>t, <1>5, <1>6, <1>7, ShowsPending
  <2> QED
    BY <1>10, <2>1
<1>14. t \in OwnChallenges => t \in AllFlooded
  BY <1>2, StartedShown
<1>15. ShownUnsent' = ShownUnsent /\ ShownTarget' = ShownTarget
  BY <1>1, <1>2, <1>4, ClientsKept
<1>16. ShownOutgoing' = ShownOutgoing
  BY <1>1, <1>2, ToldSame DEF Telling
<1>17. ShownLocked' = ShownLocked
  BY <1>1, <1>2, <1>4, LostKept, LockedKept DEF Away
<1>18. /\ AsChallenge(t) \in ShownInbox[Here]
       /\ Delivery!TakeChallenge(Here, AsChallenge(t))
       /\ AsChallenge(t).id = t.id
  BY <1>1, <1>2, <1>4, <1>12, <1>14, <1>15, <1>16, ChallengeTaken DEF Sought, Inside
<1>19. t.id \notin ShownKnown[Here]
  BY <1>t, <1>7, <1>9, ShownAt
<1>20. Delivery!ChallengeUnknownId(Here, AsChallenge(t))
  BY <1>4, <1>12, <1>13, <1>17, <1>18, <1>19, Constant, UpKept
     DEF Delivery!ChallengeUnknownId, Delivery!KeepChallenge
<1> QED
  BY <1>18, <1>20, ChallengeNext DEF Delivery!ChallengeVote

-----------------------------------------------------------------------------
(* A call that waits for ever.                                             *)

WaitShown(t) ==
  /\ OneMoves(t) /\ pc' = pc /\ pc[t] = "wait"
  /\ stuck = None /\ stuck' = t /\ up /\ up' = up /\ t.id \in EntryId
  /\ shown' = shown /\ ShownLocked' = ShownLocked /\ t.id \in ShownLocked[Here]
  /\ ShownUp' = ShownUp /\ ShownIdsHeld' = ShownIdsHeld \cup {Here}
  /\ ShownOutgoing' = ShownOutgoing

LEMMA StickShows ==
  ASSUME Now, NEW t \in Call, Step(t), Stick(t), pc[t] = "wait", Shows, Undisturbed'
  PROVE  /\ WaitShown(t)
         /\ Lost(t.id) /\ shown[t.id] = View(t.id)
<1>t. t.id \in EntryId /\ t # None
  BY CallsTyped
<1>1. OneMoves(t)
  BY StepAlone
<1>2. /\ pc' = pc /\ stuck = None /\ stuck' = t /\ Lost(t.id)
      /\ UNCHANGED <<locks, entries, tally, flooded>>
      /\ \A u \in Call \ {t} : pc[u] \notin Inside
  BY DEF Stick, Replays
<1>3. up /\ up' = up
  BY <1>2 DEF locks, Now, Undisturbed
<1>4. \A u \in Call : pc[u] \notin Inside /\ pc'[u] \notin Inside
  BY <1>2 DEF Inside
<1>5. ~ Occupied(t.id) /\ shown[t.id] = View(t.id)
  BY <1>t, <1>4 DEF Occupied, Now, Core, Shown
<1>6. shown' = shown
  <2>1. View(t.id)' = View(t.id)
    BY <1>2, ViewsKept
  <2> QED
    BY <1>1, <1>5, <2>1, NothingShown
<1>7. ShownLocked' = ShownLocked
  <2>1. \A i \in EntryId : Lost(i)' <=> Lost(i)
    BY <1>2 DEF Lost, locks
  <2>2. ~ Replays(stuck)'
    BY <1>2 DEF Replays
  <2>3. {i \in EntryId : Lost(i)' \/ (stuck' # None /\ stuck'.id = i /\ Replays(stuck)')}
        = {i \in EntryId : Lost(i) \/ (stuck # None /\ stuck.id = i /\ Replays(stuck))}
    BY <1>2, <2>1, <2>2
  <2> QED
    BY <2>3 DEF ShownLocked, ForHere
<1>8. t.id \in ShownLocked[Here]
  BY <1>t, <1>2, NoneLocked
<1>9. ShownUp' = ShownUp /\ ShownIdsHeld' = ShownIdsHeld \cup {Here}
  BY <1>t, <1>2, <1>3, UpKept, Sticks
<1>10. ShownOutgoing' = ShownOutgoing
  BY <1>1, <1>2, ToldSame
<1> QED
  BY <1>t, <1>1, <1>2, <1>3, <1>5, <1>6, <1>7, <1>8, <1>9, <1>10 DEF WaitShown

LEMMA PostWaitsMapped ==
  ASSUME Now, NEW t \in Call, t.kind = "post", WaitShown(t)
  PROVE  Delivery!Next
<1>1. /\ t.ballot \in Ballot /\ IdOf[t.ballot] = t.id
  BY CallsTyped, BallotIds
<1>2. Delivery!ClientStuck(t.ballot, Here)
  BY ClientStays DEF WaitShown, Active, Gone
<1>3. Delivery!MayPost(t.ballot, Here)
  <2>1. Here \in ShownUnsent[t.ballot] /\ ShownTarget[t.ballot] = None
    BY AtHand DEF WaitShown, Active, Gone
  <2> QED
    BY <2>1 DEF Delivery!MayPost
<1>4. Delivery!Serving(Here)
  BY ServingHere DEF WaitShown
<1>5. ShownInbox' = ShownInbox
  BY NowShown, InboxKept, EntriesShown DEF WaitShown
<1>6. Delivery!ClientShareBlocks(t.ballot, Here)
  BY <1>1, <1>2, <1>3, <1>4, <1>5, EntriesShown, Constant
     DEF WaitShown, Delivery!ClientShareBlocks, Delivery!entryVars, Delivery!netVars
<1> QED
  BY <1>1, <1>6, PostNext DEF Delivery!Post

LEMMA ShareWaitsMapped ==
  ASSUME Now, NEW t \in Call, t.kind = "share", WaitShown(t)
  PROVE  Delivery!Next
<1>1. /\ t.ballot \in Ballot /\ IdOf[t.ballot] = t.id
  BY CallsTyped, BallotIds
<1>2. AsMsg(t) \in AnyShareMsgs /\ AsMsg(t).ballot = t.ballot
  <2>1. t.from \in SUBSET Server
    BY ShareShape
  <2> QED
    BY <1>1, <2>1 DEF AsMsg, AnyShareMsgs
<1>3. Delivery!Serving(Here)
  BY ServingHere DEF WaitShown
<1>4. ShownUnsent' = ShownUnsent /\ ShownTarget' = ShownTarget
  BY OthersStick DEF WaitShown
<1>5. ShownInbox' = ShownInbox
  BY NowShown, InboxKept, EntriesShown DEF WaitShown
<1>6. Delivery!ServerShareBlocks(Here, AsMsg(t))
  BY <1>1, <1>2, <1>3, <1>4, <1>5, EntriesShown, Constant
     DEF WaitShown, Delivery!ServerShareBlocks, Delivery!entryVars, Delivery!netVars,
         Delivery!clientVars
<1> QED
  BY <1>2, <1>6, ShareNext DEF Delivery!ReceiveServerShare

LEMMA ChallengeWaitsMapped ==
  ASSUME Now, NEW t \in Call, t.kind = "challenge", WaitShown(t), Lost(t.id),
         shown[t.id] = View(t.id)
  PROVE  Delivery!Next
<1>1. ShownUnsent' = ShownUnsent /\ ShownTarget' = ShownTarget
  BY OthersStick DEF WaitShown
<1>2. t \in OwnChallenges => t \in AllFlooded
  BY DEF WaitShown, Now, Core, OwnCalls
<1>3. /\ AsChallenge(t) \in ShownInbox[Here]
      /\ Delivery!TakeChallenge(Here, AsChallenge(t))
      /\ AsChallenge(t).id = t.id
  BY <1>1, <1>2, EntriesShown, ChallengeTaken DEF WaitShown, Sought
<1>4. t.id \in ShownKnown[Here]
  <2>1. t.id \in known
    BY DEF WaitShown, Now, LockingInv, EntryFirst
  <2>2. shown[t.id].known
    BY <2>1, ViewFields DEF WaitShown
  <2> QED
    BY <2>2, NowShown, ShownAt DEF WaitShown
<1>5. t.id \notin ShownInvalidated[Here]
  <2>1. t.id \notin invalidated
    BY DEF WaitShown, Now, Core, Recorded
  <2>2. ~ shown[t.id].invalidated
    BY <2>1, ViewFields DEF WaitShown
  <2> QED
    BY <2>2, NowShown, InvalidatedHere DEF WaitShown
<1>6. Delivery!ChallengeBlocks(Here, AsChallenge(t))
  BY <1>3, <1>4, <1>5, EntriesShown, Constant
     DEF WaitShown, Delivery!ChallengeBlocks, Delivery!ChallengeRuns, Delivery!entryVars
<1> QED
  BY <1>3, <1>6, ChallengeNext DEF Delivery!ChallengeVote

LEMMA NeverReturnsMapped ==
  ASSUME Now, NEW t \in Call, NEW W, NEW told, TakenShown(t, W, told),
         Delivery!ReplayChallenge(Here, t.id) \/ Delivery!ChallengeOwnShare(Here, t.id),
         ShownOutgoing' = ShownOutgoing, ShownChallenges' = ShownChallenges,
         t.kind = "post" => Delivery!ClientStuck(t.ballot, Here),
         t.kind = "share" => ShownUnsent' = ShownUnsent /\ ShownTarget' = ShownTarget
  PROVE  Delivery!Next
<1>1. /\ t.kind \in {"post", "share"} /\ t.id = IdOf[t.ballot] /\ t.ballot \in Ballot
  BY TakenFacts
<1>2. /\ Delivery!CheckSignaturesNeverReturns(Here, t.id, TRUE)
      /\ Delivery!CheckSignaturesNeverReturns(Here, t.id, FALSE)
  BY DEF Delivery!CheckSignaturesNeverReturns
<1>3. CASE t.kind = "post"
  <2>1. /\ Delivery!ClientShareSigned(t.ballot, Here) /\ Delivery!Verifies(Here, t.ballot)
        /\ ShownBare' = ShownBare
        /\ ShownSeen' = [ShownSeen EXCEPT ![Here][IdOf[t.ballot]] = @ \cup {Here}]
    BY <1>3, ClientTakes
  <2>2. Delivery!ClientShareAccepted(t.ballot, Here)
    BY <1>1, <1>2, <1>3, <2>1, Constant DEF Delivery!ClientShareAccepted
  <2> QED
    BY <1>1, <2>2, PostNext DEF Delivery!Post
<1>4. CASE t.kind = "share"
  BY <1>2, <1>4, MergedMapped
<1> QED
  BY <1>1, <1>3, <1>4

(* A call that replays a challenge, with the lock of its entry.            *)
LEMMA ReplayMapped ==
  ASSUME Now, NEW t \in Call, Step(t), Stick(t), Replays(t), Shows, Undisturbed'
  PROVE  Delivery!Next
<1> DEFINE W == View(t.id)
<1>t. t.id \in EntryId /\ t # None
  BY CallsTyped
<1>1. OneMoves(t)
  BY StepAlone
<1>2. /\ pc' = pc /\ pc[t] = "replay" /\ stuck = None /\ stuck' = t
      /\ UNCHANGED <<locks, entries, tally, flooded>>
  BY DEF Stick, Replays
<1>3. up /\ up' = up
  BY <1>2 DEF locks, Now, Undisturbed
<1>4. /\ Taken(t, W, shown[t.id], t \in tells) /\ Decided(W, shown[t.id], FALSE, FALSE)
      /\ SameOthers(W, shown[t.id]) /\ shown[t.id].pending # {}
      /\ \E c \in ReadyIn(W) : Verifies(c)
  <2>1. Progress(t)
    BY <1>t, <1>2 DEF Now, Core, Sections, Inside
  <2> QED
    BY <1>2, <2>1 DEF Progress, Section
<1>5. W \in ViewType(t.id) /\ View(t.id)' = W
  <2>1. Structs /\ Recorded /\ Typed /\ flooded \subseteq OwnChallenges
    BY DEF Now, Core, OwnCalls, LockingInv
  <2> QED
    BY <1>t, <1>2, <2>1, ViewTyped, ViewsKept
<1>6. shown' = [shown EXCEPT ![t.id] = W] /\ shown'[t.id] = W /\ ShownTyped'
  BY <1>1, <1>2, <1>5, ShownAnew DEF Inside
<1>7. ShownTyped /\ OwnCalls
  BY NowShown
<1> HIDE DEF W
<1>8. /\ W.known /\ ~ W.bare /\ ~ W.delivered /\ ~ W.invalidated
      /\ W.pending = shown[t.id].pending /\ W.tally = shown[t.id].tally
      /\ W.flooded = shown[t.id].flooded
  BY <1>4 DEF Decided, SameOthers, Taken, Undecided
<1>9. TakenShown(t, W, t \in tells)
  BY <1>1, <1>2, <1>3, <1>4, <1>5, <1>6, <1>7, <1>8 DEF TakenShown, Inside
<1>10. /\ ~ shown[t.id].delivered /\ ~ shown[t.id].invalidated /\ t.id \in VoteId
       /\ t.kind \in {"post", "share"}
  BY <1>9, TakenFacts
<1>11. /\ ShownDelivered' = ShownDelivered /\ ShownInvalidated' = ShownInvalidated
       /\ ShownChallenges' = ShownChallenges /\ ShownTally' = ShownTally
       /\ AllFlooded' = AllFlooded
  BY <1>t, <1>5, <1>6, <1>7, <1>8, <1>10, ShowsSettled, ShowsPending, ShowsTally, ShowsFlooded
<1>12. ShownInbox' = ShownInbox
  BY <1>1, <1>2, <1>7, <1>10, <1>11, InboxKept
<1>13. ShownOutgoing' = ShownOutgoing
  BY <1>1, <1>2, ToldSame
<1>14. ShownUp' = ShownUp /\ ShownIdsHeld' = ShownIdsHeld \cup {Here}
  BY <1>t, <1>2, <1>3, UpKept, Sticks
<1>15. ShownLocked' = [ShownLocked EXCEPT ![Here] = @ \cup {t.id}]
  <2>1. \A j \in EntryId : Lost(j)' <=> Lost(j)
    BY <1>2 DEF Lost, locks
  <2>2. stuck' # None /\ stuck'.id = t.id /\ Replays(stuck)'
    BY <1>t, <1>2 DEF Replays
  <2> QED
    BY <1>t, <1>2, <2>1, <2>2, LockedMore
<1>16. Delivery!ReplayChallenge(Here, t.id)
  <2>1. Delivery!Ready(Here, t.id) = ReadyIn(W)
    BY <1>t, <1>6, ReadyHere
  <2>2. \E c \in ReadyIn(W) : Delivery!Verifies(Here, c)
    BY <1>4 DEF Verifies, Delivery!Verifies
  <2>3. Delivery!Pending(Here, t.id) # {}
    <3>1. {d \in ShownChallenges[Here] : d.id = t.id}
          = {AsChallenge(d) : d \in shown[t.id].pending}
      BY <1>t, <1>7, ShownPending
    <3> QED
      BY <1>4, <3>1 DEF Delivery!Pending
  <2> QED
    BY <1>11, <1>12, <1>14, <1>15, <2>1, <2>2, <2>3 DEF Delivery!ReplayChallenge
<1>17. t.kind = "post" => Delivery!ClientStuck(t.ballot, Here)
  BY <1>1, <1>2, ClientStays DEF Active, Gone, Inside
<1>18. t.kind = "share" => ShownUnsent' = ShownUnsent /\ ShownTarget' = ShownTarget
  BY <1>2, OthersStick
<1> QED
  BY <1>9, <1>11, <1>13, <1>16, <1>17, <1>18, NeverReturnsMapped

LEMMA StickMapped ==
  ASSUME Now, NEW t \in Call, Step(t), Stick(t), Shows, Undisturbed'
  PROVE  Delivery!Next
<1>1. CASE Replays(t)
  BY <1>1, ReplayMapped
<1>2. CASE ~ Replays(t)
  <2>1. pc[t] = "wait"
    BY <1>2 DEF Stick
  <2>2. WaitShown(t) /\ Lost(t.id) /\ shown[t.id] = View(t.id)
    BY <2>1, StickShows
  <2>3. t.kind \in {"post", "share", "challenge"}
    BY CallsTyped
  <2> QED
    BY <2>2, <2>3, PostWaitsMapped, ShareWaitsMapped, ChallengeWaitsMapped
<1> QED
  BY <1>1, <1>2

(* A lock that is released twice.                                          *)
LEMMA AgainMapped ==
  ASSUME Now, NEW t \in Call, Step(t), Unlock(t), Shows, ~ up'
  PROVE  Delivery!Next
<1> DEFINE W == View(t.id)
<1>t. t.id \in EntryId /\ t # None /\ Typed
  BY CallsTyped DEF Now, LockingInv
<1>1. /\ pc[t] = "again" /\ up
      /\ lock[t.id] = None /\ lock' = [lock EXCEPT ![t.id] = None]
      /\ Goes(t, "again", "ended")
      /\ UNCHANGED <<ids, entries, object, chosen, tells, flooded, sent, tally, stuck>>
  <2>1. PICK from \in {"unlock", "again"} :
          /\ lock[t.id] = None /\ Goes(t, from, "ended")
          /\ lock' = [lock EXCEPT ![t.id] = None]
          /\ UNCHANGED <<ids, entries, rest>>
    BY DEF Unlock, Release
  <2>2. pc[t] = from /\ up
    BY <2>1 DEF Goes
  <2>3. from # "unlock"
    BY <1>t, <2>1, <2>2 DEF Now, Core, Alone, Holds, Inside
  <2> QED
    BY <2>1, <2>2, <2>3 DEF rest
<1>2. OneMoves(t) /\ pc'[t] = "ended"
  BY <1>t, <1>1, GoesMovesOne DEF Points, Early, Inside
<1>3. stuck = None /\ stuck' = None
  BY <1>1, AtWork DEF Inside
<1>4. lock' = lock
  BY <1>t, <1>1 DEF Typed
<1>5. /\ Taken(t, W, shown[t.id], t \in tells) /\ Decided(W, shown[t.id], FALSE, TRUE)
      /\ \E c \in ReadyIn(W) :
           ~ Verifies(c) /\ Flooding(W, shown[t.id], ChallengeOf(NilId, c, Here))
  BY <1>1, OwnSection DEF Section, Inside
<1>6. W \in ViewType(t.id) /\ View(t.id)' = W
  <2>1. Structs /\ Recorded /\ flooded \subseteq OwnChallenges
    BY DEF Now, Core, OwnCalls
  <2> QED
    BY <1>t, <1>1, <2>1, ViewTyped, ViewsKept
<1>7. shown' = [shown EXCEPT ![t.id] = W] /\ shown'[t.id] = W /\ ShownTyped'
  BY <1>1, <1>2, <1>6, ShownAnew DEF Inside
<1>8. ShownTyped /\ OwnCalls
  BY NowShown
<1>9. PICK b \in ReadyIn(W) :
        ~ Verifies(b) /\ Flooding(W, shown[t.id], ChallengeOf(NilId, b, Here))
  BY <1>5
<1>10. b \in Ballot /\ IdOf[b] = t.id
  BY <1>6, <1>9 DEF ReadyIn, ViewType
<1>11. /\ W.known /\ ~ W.bare /\ ~ W.delivered /\ W.invalidated
       /\ ~ shown[t.id].delivered /\ ~ shown[t.id].invalidated
       /\ W.pending = shown[t.id].pending /\ W.tally = shown[t.id].tally
       /\ W.flooded = shown[t.id].flooded \cup {ChallengeOf(NilId, b, Here)}
       /\ t.kind \in {"post", "share"}
  BY <1>5, <1>9 DEF Decided, Flooding, Taken, Undecided
<1>12. Delivery!FloodChallenge([id |-> NilId, ballot |-> b, sender |-> Here], Server)
  BY <1>2, <1>3, <1>6, <1>7, <1>10, <1>11, ChallengeGoesOut
<1> HIDE DEF W
<1>13. TakenShown(t, W, t \in tells)
  BY <1>1, <1>2, <1>3, <1>5, <1>6, <1>7, <1>8, <1>11 DEF TakenShown, Inside
<1>14. t.id \in VoteId
  BY <1>13, TakenFacts
<1>15. /\ ShownDelivered' = ShownDelivered
       /\ ShownInvalidated' = [ShownInvalidated EXCEPT ![Here] = @ \cup {t.id}]
       /\ ShownChallenges' = ShownChallenges /\ ShownTally' = ShownTally
  BY <1>t, <1>6, <1>7, <1>8, <1>11, <1>14, ShowsSettled, ShowsPending, ShowsTally
<1>16. ShownOutgoing' = ShownOutgoing
  BY <1>1, <1>2, ToldSame DEF Telling
<1>17. ShownUp' = ShownUp \ {Here} /\ ShownIdsHeld' = ShownIdsHeld
  BY <1>1, Ends, UpKept
<1>18. ShownLocked' = ShownLocked
  <2>1. Stays(t)
    BY <1>1, <1>2, <1>4 DEF Stays, Holds, Inside
  <2>2. \A i \in EntryId : Lost(i)' <=> Lost(i)
    BY <1>1, <1>2, <2>1, LostKept DEF Away
  <2> QED
    BY <1>3, <2>2, LockedKept
<1>19. Delivery!ChallengeOwnShare(Here, t.id)
  <2>1. Delivery!Ready(Here, t.id) = ReadyIn(W)
    BY <1>t, <1>7, ReadyHere
  <2>2. ~ Delivery!Verifies(Here, b)
    BY <1>9 DEF Verifies, Delivery!Verifies
  <2> QED
    BY <1>9, <1>12, <1>15, <1>17, <1>18, <2>1, <2>2, DialsHere DEF Delivery!ChallengeOwnShare
<1>20. t.kind = "post" => Delivery!ClientStuck(t.ballot, Here)
  BY <1>1, <1>2, <1>3, ClientStays DEF Active, Gone, Inside
<1>21. t.kind = "share" => ShownUnsent' = ShownUnsent /\ ShownTarget' = ShownTarget
  BY <1>2, <1>3, ClientsKept
<1> QED
  BY <1>13, <1>15, <1>16, <1>19, <1>20, <1>21, NeverReturnsMapped

(* Maps that are nil.                                                      *)
LEMMA BareShows ==
  ASSUME Now, NEW t \in Call, Step(t), OnBareEntry(t), Shows
  PROVE  /\ OneMoves(t) /\ Stays(t) /\ shown' = shown
         /\ pc[t] = "check" /\ pc'[t] = IF t.kind = "post" THEN "panicked" ELSE "ended"
         /\ t.kind \in {"post", "share"} /\ t.id \in VoteId /\ t.id \in EntryId
         /\ IdOf[t.ballot] = t.id /\ t.ballot \in Ballot
         /\ stuck = None /\ stuck' = None /\ up /\ up' = (t.kind = "post")
         /\ t.id \in ShownBare[Here] /\ ~ Delivery!Settled(Here, t.id)
<1> DEFINE W == View(t.id)
           s == shown[t.id]
<1>t. t.id \in EntryId /\ t # None /\ Typed /\ t.ballot \in Ballot
      /\ t.kind \in {"post", "share", "challenge"}
  BY CallsTyped DEF Now, LockingInv
<1>1. /\ pc[t] = "check" /\ t.id \in bare /\ t.id \notin delivered \cup invalidated
      /\ Goes(t, "check", IF t.kind = "post" THEN "panicked" ELSE "ended")
      /\ up /\ up' = (t.kind = "post")
      /\ UNCHANGED <<entries, tally, flooded, stuck>>
  BY DEF OnBareEntry, Goes, Settled, rest
<1>2. OneMoves(t) /\ pc'[t] = IF t.kind = "post" THEN "panicked" ELSE "ended"
  <2> DEFINE to == IF t.kind = "post" THEN "panicked" ELSE "ended"
  <2>1. to \in Points \ {"absent", "start"} /\ to \notin Early
    BY DEF Points, Early
  <2>2. Goes(t, "check", to)
    BY <1>1
  <2> HIDE DEF to
  <2>3. OneMoves(t) /\ pc'[t] = to
    BY <1>t, <2>1, <2>2, GoesMovesOne
  <2> QED
    BY <2>3 DEF to
<1>3. stuck = None /\ stuck' = None
  BY <1>1, AtWork DEF Inside
<1>4. Stays(t)
  BY WaitingStays DEF Waiting
<1>5. /\ t.kind # "challenge" /\ ((s.bare \/ s.delivered \/ s.invalidated) => s.known)
      /\ Decided(W, s, s.delivered, s.invalidated) /\ SameLists(W, s) /\ SameOthers(W, s)
  <2>1. Section(t, "check", W, s, t \in tells, sigs[t], chosen[t])
    BY <1>1, OwnSection DEF Inside
  <2> QED
    BY <2>1 DEF Section
<1>6. IdOf[t.ballot] = t.id /\ t.id \in VoteId
  BY <1>5, BallotIds
<1>7. W.bare /\ ~ W.delivered /\ ~ W.invalidated
  <2>1. /\ W.bare <=> t.id \in bare
        /\ W.delivered <=> t.id \in delivered
        /\ W.invalidated <=> t.id \in invalidated
    BY <1>t, ViewFields
  <2> HIDE DEF W
  <2> QED
    BY <1>1, <2>1
<1>8. W \in ViewType(t.id) /\ View(t.id)' = W
  <2>1. Structs /\ Recorded /\ flooded \subseteq OwnChallenges
    BY DEF Now, Core, OwnCalls
  <2> QED
    BY <1>t, <1>1, <2>1, ViewTyped, ViewsKept
<1>9. shown' = [shown EXCEPT ![t.id] = W]
  BY <1>1, <1>2, <1>8, ShownAnew DEF Inside
<1>10. ShownTyped
  BY NowShown
<1> HIDE DEF W, s
<1>11. s.bare /\ ~ s.delivered /\ ~ s.invalidated /\ s.known /\ W.known
       /\ (W.bare <=> s.bare) /\ (W.delivered <=> s.delivered)
       /\ (W.invalidated <=> s.invalidated)
  BY <1>5, <1>7 DEF Decided
<1>12. shown' = shown
  BY <1>t, <1>5, <1>8, <1>9, <1>10, <1>11, NothingNew DEF s
<1>13. t.id \in ShownBare[Here]
  BY <1>t, <1>10, <1>11, ShownAt DEF s
<1>14. ~ Delivery!Settled(Here, t.id)
  BY <1>t, <1>6, <1>10, <1>11, ShownAt DEF s, Delivery!Settled
<1> QED
  BY <1>t, <1>1, <1>2, <1>3, <1>4, <1>5, <1>6, <1>12, <1>13, <1>14

LEMMA BarePostMapped ==
  ASSUME Now, NEW t \in Call, Step(t), OnBareEntry(t), Shows, t.kind = "post"
  PROVE  Delivery!Next
<1>1. /\ OneMoves(t) /\ Stays(t) /\ shown' = shown
      /\ pc[t] = "check" /\ pc'[t] = "panicked"
      /\ t.id \in VoteId /\ t.id \in EntryId
      /\ IdOf[t.ballot] = t.id /\ t.ballot \in Ballot
      /\ stuck = None /\ stuck' = None /\ up /\ up' = up
      /\ t.id \in ShownBare[Here]
  <2>1. up' = TRUE /\ up = TRUE
    BY BareShows DEF Now, LockingInv, Undisturbed
  <2> QED
    BY <2>1, BareShows
<1>2. Delivery!ClientShareRuns(t.ballot, Here)
  BY <1>1, ClientRuns DEF Inside
<1>3. Delivery!ClientStuck(t.ballot, Here)
  BY <1>1, ClientStays DEF Active, Gone, Inside
<1>4. ShownLocked' = [ShownLocked EXCEPT ![Here] = @ \cup {t.id}]
  <2>1. /\ \A j \in EntryId \ {t.id} : Lost(j)' <=> Lost(j)
        /\ Lost(t.id)'
    BY <1>1, LostByMe DEF Away, Holds, Inside
  <2> QED
    BY <1>1, <2>1, LockedMore
<1>5. ShownOutgoing' = ShownOutgoing
  BY <1>1, ToldSame DEF Telling
<1>6. ShownInbox' = ShownInbox
  BY <1>1, NowShown, InboxKept, EntriesShown
<1>7. Delivery!ClientShareOnBareEntry(t.ballot, Here)
  BY <1>1, <1>2, <1>3, <1>4, <1>5, <1>6, EntriesShown, Constant, UpKept
     DEF Delivery!ClientShareOnBareEntry, Delivery!serverVars, Delivery!netVars
<1> QED
  BY <1>1, <1>7, PostNext DEF Delivery!Post

LEMMA BareShareMapped ==
  ASSUME Now, NEW t \in Call, Step(t), OnBareEntry(t), Shows, t.kind = "share"
  PROVE  Delivery!Next
<1>1. /\ OneMoves(t) /\ Stays(t) /\ shown' = shown
      /\ pc[t] = "check" /\ pc'[t] = "ended"
      /\ t.id \in VoteId /\ t.id \in EntryId
      /\ IdOf[t.ballot] = t.id /\ t.ballot \in Ballot
      /\ stuck = None /\ stuck' = None /\ up /\ ~ up'
      /\ t.id \in ShownBare[Here] /\ ~ Delivery!Settled(Here, t.id)
  BY BareShows
<1>2. AsMsg(t) \in AnyShareMsgs /\ AsMsg(t).ballot = t.ballot
  <2>1. t.from \in SUBSET Server
    BY ShareShape
  <2> QED
    BY <1>1, <2>1 DEF AsMsg, AnyShareMsgs
<1>3. ShownUp' = ShownUp \ {Here} /\ ShownIdsHeld' = ShownIdsHeld
  BY <1>1, Ends, UpKept
<1>4. ShownLocked' = ShownLocked /\ t.id \notin ShownLocked[Here]
  <2>1. \A i \in EntryId : Lost(i)' <=> Lost(i)
    BY <1>1, LostKept DEF Away
  <2>2. ~ Lost(t.id)
    BY <1>1, NotLost DEF Inside
  <2> QED
    BY <1>1, <2>1, <2>2, LockedKept, NoneLocked
<1>5. ShownOutgoing' = ShownOutgoing
  BY <1>1, ToldSame DEF Telling
<1>6. ShownInbox' = ShownInbox
  BY <1>1, NowShown, InboxKept, EntriesShown
<1>7. ShownUnsent' = ShownUnsent /\ ShownTarget' = ShownTarget
  BY <1>1, ClientsKept
<1>8. Delivery!ServerShareRuns(Here, AsMsg(t))
  <2>1. Delivery!Serving(Here)
    BY <1>1, ServingHere
  <2> QED
    BY <1>1, <1>2, <1>4, <2>1 DEF Delivery!ServerShareRuns
<1>9. Delivery!ServerShareOnBareEntry(Here, AsMsg(t))
  BY <1>1, <1>2, <1>3, <1>4, <1>5, <1>6, <1>7, <1>8, EntriesShown, Constant
     DEF Delivery!ServerShareOnBareEntry, Delivery!clientVars, Delivery!entryVars,
         Delivery!netVars
<1> QED
  BY <1>2, <1>9, ShareNext DEF Delivery!ReceiveServerShare

LEMMA BareMapped ==
  ASSUME Now, NEW t \in Call, Step(t), OnBareEntry(t), Shows
  PROVE  Delivery!Next
BY BareShows, BarePostMapped, BareShareMapped

(* ChallengeVote leaves with the lock of the entry.                        *)
LEMMA LeakMapped ==
  ASSUME Now, NEW t \in Call, Step(t), ChallengeLeaksLock(t), Shows, Undisturbed', LockingInv'
  PROVE  Delivery!Next
<1> DEFINE V == View(t.id)
           W == View(t.id)'
           s == shown[t.id]
<1>t. t.id \in EntryId /\ t # None /\ Typed /\ t.ballot \in Ballot
  BY CallsTyped DEF Now, LockingInv
<1>1. /\ pc[t] = "find" /\ t.ballot \in Received(t.id) /\ Goes(t, "find", "leaked")
      /\ t.ballot \in Ready(t.id) => challenges' = challenges
      /\ t.ballot \notin Ready(t.id) => challenges' = challenges \cup {t}
      /\ UNCHANGED <<locks, known, bare, delivered, invalidated, seen, stored, sigs,
                     tally, flooded, stuck>>
  BY DEF ChallengeLeaksLock, Goes, rest
<1>2. OneMoves(t) /\ Stays(t) /\ pc'[t] = "leaked"
  BY <1>t, <1>1, GoesMovesOne, WaitingStays DEF Waiting, Points, Early
<1>3. stuck = None /\ stuck' = None /\ up /\ up' = up
  BY <1>1, AtWork DEF Inside, locks, Now, Undisturbed
<1>4. /\ t.kind = "challenge" /\ s.known /\ ~ s.invalidated
      /\ Decided(V, s, s.delivered, s.invalidated) /\ SameLists(V, s) /\ SameOthers(V, s)
  <2>1. Section(t, "find", V, s, t \in tells, sigs[t], chosen[t])
    BY <1>1, OwnSection DEF Inside
  <2> QED
    BY <2>1 DEF Section
<1>5. W \in ViewType(t.id)
  <2>1. Core'
    BY CoreStep
  <2>2. Structs' /\ Recorded' /\ Typed' /\ flooded' \subseteq OwnChallenges
    BY <2>1 DEF Core, OwnCalls, LockingInv
  <2> QED
    BY <1>t, <2>2, NextViewTyped
<1>6. shown' = [shown EXCEPT ![t.id] = W]
  BY <1>1, <1>2, <1>5, ShownAnew DEF Inside
<1>7. ShownTyped
  BY NowShown
<1>8. /\ (W.known <=> V.known) /\ (W.bare <=> V.bare)
      /\ (W.delivered <=> V.delivered) /\ (W.invalidated <=> V.invalidated)
      /\ W.received = V.received /\ W.seen = V.seen /\ W.lists = V.lists
      /\ W.tally = V.tally /\ W.flooded = V.flooded
  <2>1. \A b \in Ballot : List(b)' = List(b)
    BY <1>1 DEF List
  <2>2. Received(t.id)' = Received(t.id)
    BY <1>1 DEF Received
  <2> QED
    BY <1>t, <1>1, <2>1, <2>2, FieldsKept
<1>9. W.pending = V.pending \cup (IF t.ballot \in Ready(t.id) THEN {} ELSE {t})
  <2>1. Pending(t.id)' = Pending(t.id) \cup (IF t.ballot \in Ready(t.id) THEN {} ELSE {t})
    BY <1>1 DEF Pending
  <2>2. W.pending = Pending(t.id)' /\ V.pending = Pending(t.id)
    BY <1>t, NextFields, ViewFields
  <2> QED
    BY <2>1, <2>2
<1>10. V.received = Received(t.id) /\ ReadyIn(V) = Ready(t.id)
  BY <1>t, ViewFields, ReadyView
<1> HIDE DEF V, W, s
<1>11. ReadyIn(s) = Ready(t.id) /\ t.ballot \in s.received
  BY <1>1, <1>4, <1>10 DEF SameLists, ReadyIn
<1>12. /\ (W.known <=> s.known) /\ (W.bare <=> s.bare)
       /\ (W.delivered <=> s.delivered) /\ (W.invalidated <=> s.invalidated)
       /\ W.received = s.received /\ W.seen = s.seen /\ W.lists = s.lists
       /\ W.tally = s.tally /\ W.flooded = s.flooded
       /\ V.pending = s.pending
  BY <1>4, <1>8 DEF SameLists, SameOthers, Decided
<1>13. /\ ShownKnown' = ShownKnown /\ ShownBare' = ShownBare
       /\ ShownDelivered' = ShownDelivered /\ ShownInvalidated' = ShownInvalidated
       /\ ShownReceived' = ShownReceived /\ ShownSeen' = ShownSeen
       /\ ShownSignatures' = ShownSignatures /\ ShownTally' = ShownTally
       /\ AllFlooded' = AllFlooded
  BY <1>t, <1>5, <1>6, <1>7, <1>12, ShowsKnown, ShowsSettled, ShowsReceived, ShowsSeen,
     ShowsLists, ShowsTally, ShowsFlooded DEF s
<1>14. t \in OwnChallenges => t \in AllFlooded
  BY <1>1 DEF Now, Core, OwnCalls
<1>15. ShownUnsent' = ShownUnsent /\ ShownTarget' = ShownTarget
  BY <1>2, <1>3, <1>4, ClientsKept
<1>16. ShownOutgoing' = ShownOutgoing
  BY <1>1, <1>2, ToldSame DEF Telling
<1>17. /\ AsChallenge(t) \in ShownInbox[Here]
       /\ Delivery!TakeChallenge(Here, AsChallenge(t))
       /\ AsChallenge(t).id = t.id /\ AsChallenge(t).ballot = t.ballot
  BY <1>1, <1>2, <1>3, <1>4, <1>13, <1>14, <1>15, <1>16, ChallengeTaken DEF Sought, Inside
<1>18. ShownLocked' = [ShownLocked EXCEPT ![Here] = @ \cup {t.id}]
       /\ t.id \notin ShownLocked[Here]
  <2>1. /\ \A j \in EntryId \ {t.id} : Lost(j)' <=> Lost(j)
        /\ Lost(t.id)'
    BY <1>1, <1>2, LostByMe DEF Away, Holds, Inside
  <2>2. ~ Lost(t.id)
    BY <1>1, NotLost DEF Inside
  <2> QED
    BY <1>t, <1>3, <2>1, <2>2, LockedMore, NoneLocked
<1>19. t.id \in ShownKnown[Here] /\ t.id \notin ShownInvalidated[Here]
       /\ t.ballot \in Delivery!ReceivedUnder(Here, t.id)
  BY <1>t, <1>4, <1>7, <1>11, ShownAt, InvalidatedHere, FoundThere DEF s
<1>20. IF t.ballot \in Delivery!Quorate(t.id, ShownReceived[Here], ShownSignatures[Here],
                                        ShownOwnCopies[Here])
       THEN ShownChallenges' = ShownChallenges
       ELSE Delivery!KeepChallenge(Here, AsChallenge(t))
  <2>1. Delivery!Quorate(t.id, ShownReceived[Here], ShownSignatures[Here], ShownOwnCopies[Here])
          = Ready(t.id)
    BY <1>t, <1>7, <1>11, QuorateHere DEF s
  <2>2. CASE t.ballot \in Ready(t.id)
    <3>1. W.pending = s.pending
      BY <1>9, <1>12, <2>2
    <3> QED
      BY <1>t, <1>5, <1>6, <1>7, <2>1, <2>2, <3>1, ShowsPending DEF s
  <2>3. CASE t.ballot \notin Ready(t.id)
    <3>1. W.pending = s.pending \cup {t}
      BY <1>9, <1>12, <2>3
    <3>2. \A u : W.pending = shown[t.id].pending \cup {u} =>
            ShownChallenges' = [ShownChallenges EXCEPT ![Here] = @ \cup {AsChallenge(u)}]
      BY <1>t, <1>5, <1>6, <1>7, ShowsPending
    <3> QED
      BY <2>1, <2>3, <3>1, <3>2 DEF s, Delivery!KeepChallenge
  <2> QED
    BY <2>2, <2>3
<1>21. ShownIdsHeld' = ShownIdsHeld
  BY <1>3, UpKept
<1>22. Delivery!ChallengeLeaksLock(Here, AsChallenge(t))
  BY <1>13, <1>17, <1>18, <1>19, <1>20, <1>21, Constant
     DEF Delivery!ChallengeLeaksLock, Delivery!ChallengeRuns
<1> QED
  BY <1>17, <1>22, ChallengeNext DEF Delivery!ChallengeVote

(* A ballot goes out with the signatures it has by then.                   *)
LEMMA FloodMapped ==
  ASSUME Now, NEW t \in Call, Step(t), Flood(t), Shows, Undisturbed'
  PROVE  Delivery!Next \/ UNCHANGED Delivery!vars
<1>t. t.id \in EntryId /\ t # None /\ Typed /\ t.ballot \in Ballot
  BY CallsTyped DEF Now, LockingInv
<1>1. /\ pc[t] = "flood" /\ Goes(t, "flood", "done") /\ up
      /\ UNCHANGED <<locks, entries, tally, flooded, stuck>>
  BY DEF Flood, Goes
<1>2. OneMoves(t) /\ Stays(t) /\ pc'[t] = "done"
  BY <1>t, <1>1, GoesMovesOne, WaitingStays DEF Waiting, Points, Early
<1>3. up' = up
  BY <1>1 DEF locks
<1>4. shown' = shown
  <2>1. View(t.id)' = View(t.id)
    BY <1>1, ViewsKept
  <2>2. Occupied(t.id)' <=> Occupied(t.id)
    BY <1>1, <1>2, OutsideStays DEF Inside
  <2> QED
    BY <1>2, <2>1, <2>2, NothingShown
<1>5. ShownUnsent' = ShownUnsent /\ ShownTarget' = ShownTarget
  BY <1>1, <1>2, ClientsKept DEF Active, Gone, Inside
<1>6. ShownLocked' = ShownLocked
  <2>1. \A i \in EntryId : Lost(i)' <=> Lost(i)
    BY <1>1, <1>2, LostKept DEF Away
  <2>2. stuck # None => pc'[stuck] = pc[stuck]
    BY <1>1, <1>2 DEF OneMoves, Now, Core, NobodyReturns
  <2> QED
    BY <1>1, <2>1, <2>2, LockedKept
<1>7. ShownInbox' = ShownInbox
  BY <1>1, <1>2, <1>4, NowShown, InboxKept, EntriesShown DEF Sought, Inside
<1>8. ShownUp' = ShownUp /\ ShownIdsHeld' = ShownIdsHeld
  BY <1>1, <1>3, UpKept
<1>9. CASE ShownOutgoing' = ShownOutgoing
  BY <1>4, <1>5, <1>6, <1>7, <1>8, <1>9, EntriesShown, Constant, UnseenStutters DEF Unseen
<1>10. CASE ShownOutgoing' # ShownOutgoing
  <2>1. /\ t.ballot \in ShownOutgoing[Here]
        /\ ShownOutgoing' = [ShownOutgoing EXCEPT ![Here] = @ \ {t.ballot}]
    BY <1>1, <1>2, <1>10, ToldLess DEF Telling
  <2>2. Delivery!CurrentMsg(Here, t.ballot) \in AnyShareMsgs
    <3>1. ShownSignatures[Here][t.ballot] = shown[IdOf[t.ballot]].lists[t.ballot]
      BY <1>t, NowShown, ShownAtBallot
    <3>2. IdOf[t.ballot] \in EntryId
      BY <1>t, HandlerLockingAssumption DEF EntryId
    <3>3. shown[IdOf[t.ballot]] \in ViewType(IdOf[t.ballot])
      BY <3>2, NowShown DEF ShownTyped
    <3>4. shown[IdOf[t.ballot]].lists[t.ballot] \in SUBSET Server
      BY <1>t, <3>3 DEF ViewType
    <3> QED
      BY <1>t, <3>1, <3>4 DEF Delivery!CurrentMsg, AnyShareMsgs
  <2>3. Here \in ShownUp
    BY <1>1, HandlerLockingAssumption DEF ShownUp
  <2>4. AnyShareMsgs' = AnyShareMsgs \cup {Delivery!CurrentMsg(Here, t.ballot)}
    BY <2>2, Constant
  <2>5. Delivery!Send(Here, t.ballot)
    BY <1>4, <1>5, <1>6, <1>7, <1>8, <2>1, <2>3, <2>4, EntriesShown, Constant, DialsHere
       DEF Delivery!Send, Delivery!Floods, Delivery!clientVars, Delivery!entryVars
  <2> QED
    BY <1>t, <2>5, FloodNext DEF Delivery!Flood
<1> QED
  BY <1>9, <1>10

-----------------------------------------------------------------------------
(* Every step.                                                             *)

LEMMA StepBefore ==
  ASSUME NEW t \in Call, Step(t)
  PROVE  up /\ (~ overtaken' => ~ overtaken)
<1>1. up
  BY DEF Step, Found, LookUp, ChallengeIgnored, ChallengeUnknownId, Create, TakeLock, Goes,
     Return, OnBareEntry, Sign, Accept, Reject, ChallengeBallot, FloodChallenge, Invalidate,
     Merge, NothingReady, Deliver, TakeShareLock, SendShare, Replay, ReplayTakesIds,
     ChallengeOwnShare, FirstRelease, Unlock, Release, Delayed, Resume, Flood,
     ChallengeKept, ChallengeLeaksLock, Stick
<1>2. CASE \/ Found(t) \/ ChallengeIgnored(t) \/ ChallengeUnknownId(t) \/ Create(t)
           \/ TakeLock(t) \/ Delayed(t)
  <2>1. (overtaken' = (overtaken \/ LooksEarly(t))) \/ (overtaken' = (overtaken \/ Overtakes(t)))
    BY <1>2 DEF Found, LookUp, ChallengeIgnored, ChallengeUnknownId, Create, TakeLock, Delayed
  <2> QED
    BY <1>1, <2>1
<1>3. CASE ~ (\/ Found(t) \/ ChallengeIgnored(t) \/ ChallengeUnknownId(t) \/ Create(t)
              \/ TakeLock(t) \/ Delayed(t))
  <2>1. overtaken' = overtaken
    BY <1>3 DEF Step, Return, OnBareEntry, Sign, Accept, Reject, ChallengeBallot,
       FloodChallenge, Invalidate, Merge, NothingReady, Deliver, TakeShareLock, SendShare,
       Replay, ReplayTakesIds, ChallengeOwnShare, FirstRelease, Unlock, Release, Resume,
       Flood, ChallengeKept, ChallengeLeaksLock, Stick
  <2> QED
    BY <1>1, <2>1
<1> QED
  BY <1>2, <1>3

LEMMA StepEnds ==
  ASSUME Now, NEW t \in Call, Step(t), ~ up'
  PROVE  Unlock(t) \/ OnBareEntry(t)
<1>1. CASE Resume(t)
  <2>1. pc[t] = "resume" /\ up' = (lock[t.id] # None)
    BY <1>1 DEF Resume, Release, Goes
  <2>2. lock[t.id] = t /\ t # None
    BY <2>1, CallsTyped DEF Now, Core, Alone, Holds
  <2> QED
    BY <2>1, <2>2
<1>2. CASE ~ (Unlock(t) \/ OnBareEntry(t) \/ Resume(t))
  <2>1. up' = up
    BY <1>2 DEF Step, Found, ChallengeIgnored, ChallengeUnknownId, Create, TakeLock,
     Return, Sign, Accept, Reject, ChallengeBallot, FloodChallenge, Invalidate,
     Merge, NothingReady, Deliver, TakeShareLock, SendShare, Replay, ReplayTakesIds,
     ChallengeOwnShare, FirstRelease, Delayed, Flood,
     ChallengeKept, ChallengeLeaksLock, Stick, locks
  <2> QED
    BY <2>1 DEF Now, Undisturbed
<1> QED
  BY <1>1, <1>2

LEMMA StepMapped ==
  ASSUME Now, NEW t \in Call, Step(t), Shows, LockingInv', ~ overtaken'
  PROVE  Delivery!Next \/ UNCHANGED Delivery!vars
<1>1. CASE ~ up'
  BY <1>1, StepEnds, AgainMapped, BareMapped
<1>2. CASE up'
  <2>1. Undisturbed'
    BY <1>2 DEF Undisturbed
  <2>2. CASE Working(t) \/ FirstRelease(t) \/ Create(t) \/ TakeLock(t) \/ Found(t)
             \/ Delayed(t) \/ Resume(t)
    BY <2>1, <2>2, WorkingQuiet, ArrivingQuiet, OutsideQuiet
  <2>3. CASE Unlock(t)
    BY <2>1, <2>3, UnlockMapped
  <2>4. CASE ChallengeIgnored(t) \/ ChallengeUnknownId(t) \/ ChallengeLeaksLock(t)
    BY <2>1, <2>4, ChallengeIgnoredMapped, ChallengeUnknownIdMapped, LeakMapped
  <2>5. CASE OnBareEntry(t) \/ Flood(t) \/ Stick(t)
    BY <2>1, <2>5, BareMapped, FloodMapped, StickMapped
  <2> QED
    BY <2>2, <2>3, <2>4, <2>5, StepOf DEF Waiting
<1> QED
  BY <1>1, <1>2

LEMMA SectionStep ==
  SectionInv /\ [Next]_vars => [overtaken' \/ Delivery!Next]_(Delivery!vars)
<1> SUFFICES ASSUME SectionInv, [Next]_vars, ~ overtaken'
             PROVE  Delivery!Next \/ UNCHANGED Delivery!vars
  OBVIOUS
<1>1. LockingInv'
  BY LockingInvNext DEF SectionInv
<1>2. CASE UNCHANGED vars
  BY <1>2, AddShareQuiet DEF vars, locks, rest
<1>3. CASE AddShare /\ Shows
  <2>1. Core
    <3>1. up /\ ~ overtaken
      BY <1>3 DEF AddShare
    <3> QED
      BY <3>1 DEF SectionInv, Undisturbed
  <2>2. UNCHANGED <<pc, ids, lock, up, overtaken, entries, rest, shown>>
    BY <1>3, <2>1, AddShareSame
  <2> QED
    BY <2>2, AddShareQuiet DEF rest
<1>4. ASSUME NEW t \in Call, Step(t), Shows
      PROVE  Delivery!Next \/ UNCHANGED Delivery!vars
  <2>1. up /\ ~ overtaken
    BY <1>4, StepBefore
  <2>2. Now
    BY <2>1 DEF SectionInv, Undisturbed, Now
  <2> QED
    BY <1>1, <1>4, <2>2, StepMapped
<1> QED
  BY <1>2, <1>3, <1>4 DEF Next

(* The handlers, lock by lock, do what VoteDelivery says they do in one    *)
(* step: as long as no call overtakes another, for any number of servers,  *)
(* ballots and calls, a step of the server is a step of VoteDelivery or    *)
(* changes nothing VoteDelivery speaks of.                                 *)
THEOREM Atomic == Spec => SectionsAtomic
<1>1. SectionInv /\ [Next]_vars => [overtaken' \/ Delivery!Next]_(Delivery!vars)
  BY SectionStep
<1>2. Spec => [][Next]_vars
  BY PTL DEF Spec
<1> QED
  BY <1>1, <1>2, SectionsHold, PTL DEF SectionsAtomic

-----------------------------------------------------------------------------
(* Entries that are invalidated, also in the schedules that overtake.      *)

(* A stored struct is one of that ballot, and only a POST verifies.        *)
Stores ==
  /\ stored \in [Ballot -> Call \cup {None}]
  /\ sigs \in [Call -> SUBSET Server]
  /\ seen \in [VoteId -> SUBSET Server]
  /\ \A b \in Ballot : stored[b] # None => stored[b].ballot = b
  /\ invalidated \subseteq known
  /\ \A t \in Call : pc[t] = "verify" => t.kind = "post"

KeptInv == LockingInv /\ Stores

LEMMA StoresInit == Init => Stores
<1> SUFFICES ASSUME Init PROVE Stores
  OBVIOUS
<1>1. \A t \in Call : pc[t] # "verify"
  BY DEF Init
<1> QED
  BY <1>1 DEF Init, Stores

(* Only Sign goes on to verify a share. *)
LEMMA VerifyingPosts ==
  ASSUME KeptInv, NEW t \in Call, Step(t), NEW u \in Call, pc'[u] = "verify"
  PROVE  u.kind = "post"
<1>t. pc \in [Call -> Points] /\ \A w \in Call : pc[w] = "verify" => w.kind = "post"
  BY DEF KeptInv, LockingInv, Typed, Stores
<1>1. CASE pc[u] = "verify"
  BY <1>t, <1>1
<1>2. ASSUME pc[u] # "verify", NEW from, NEW to, to # "verify", Goes(t, from, to)
      PROVE  FALSE
  BY <1>t, <1>2 DEF Goes
<1>3. ASSUME pc[u] # "verify", NEW from, NEW to, to # "verify", NEW c,
             FloodChallenge(t, from, to, c)
      PROVE  FALSE
  BY <1>t, <1>3 DEF FloodChallenge
<1>4. CASE Sign(t)
  <2>1. t.kind = "post"
    BY <1>4 DEF Sign
  <2>2. pc' = [pc EXCEPT ![t] = "verify"]
    BY <1>4 DEF Sign, Goes
  <2> QED
    BY <1>t, <2>1, <2>2
<1>5. CASE ChallengeBallot(t) \/ ChallengeOwnShare(t)
  BY <1>1, <1>3, <1>5 DEF ChallengeBallot, ChallengeOwnShare
<1>6. CASE Unlock(t) \/ Resume(t)
  BY <1>1, <1>2, <1>6 DEF Unlock, Resume, Release
<1>7. CASE \/ Found(t) \/ ChallengeIgnored(t) \/ ChallengeUnknownId(t) \/ Create(t)
           \/ TakeLock(t) \/ Return(t) \/ OnBareEntry(t)
  BY <1>1, <1>2, <1>7 DEF Found, ChallengeIgnored, ChallengeUnknownId, Create, LookUp,
     TakeLock, Return, OnBareEntry
<1>8. CASE \/ Accept(t) \/ Reject(t) \/ Invalidate(t) \/ Merge(t) \/ NothingReady(t)
           \/ Deliver(t) \/ TakeShareLock(t) \/ SendShare(t)
  BY <1>1, <1>2, <1>8 DEF Accept, Reject, Invalidate, Merge, NothingReady, Deliver,
     TakeShareLock, SendShare
<1>9. CASE \/ Replay(t) \/ ReplayTakesIds(t) \/ FirstRelease(t) \/ Delayed(t) \/ Flood(t)
           \/ ChallengeKept(t) \/ ChallengeLeaksLock(t)
  BY <1>1, <1>2, <1>9 DEF Replay, ReplayTakesIds, FirstRelease, Delayed, Flood,
     ChallengeKept, ChallengeLeaksLock
<1>10. CASE Stick(t)
  BY <1>t, <1>10 DEF Stick
<1> QED
  BY <1>4, <1>5, <1>6, <1>7, <1>8, <1>9, <1>10 DEF Step

(* Sign, Accept and Merge write into structs of their own ballot. *)
LEMMA OwnStructs ==
  ASSUME KeptInv, NEW t \in Call, Sign(t) \/ Accept(t) \/ Merge(t)
  PROVE  /\ t.id = IdOf[t.ballot] /\ t.id \notin delivered \cup invalidated
         /\ stored' \in [Ballot -> Call \cup {None}]
         /\ sigs' \in [Call -> SUBSET Server]
         /\ seen' \in [VoteId -> SUBSET Server]
         /\ \A j \in VoteId \ {t.id} : seen'[j] = seen[j]
         /\ \A b \in Ballot : stored'[b] # None => stored'[b].ballot = b
         /\ \A b \in Ballot \ {t.ballot} : List(b)' = List(b) /\ stored'[b] = stored[b]
<1> DEFINE b == t.ballot
<1>t. /\ stored \in [Ballot -> Call \cup {None}] /\ sigs \in [Call -> SUBSET Server]
      /\ seen \in [VoteId -> SUBSET Server]
      /\ \A c \in Ballot : stored[c] # None => stored[c].ballot = c
      /\ b \in Ballot /\ \A u \in Call : u # None
      /\ Here \in Server /\ List(b) \in SUBSET Server
  BY CallsTyped, HandlerLockingAssumption DEF KeptInv, Stores, List
<1>k. t.kind \in {"post", "share"}
  BY <1>t DEF KeptInv, Stores, Sign, Accept, Merge, Goes
<1>1. t.id = IdOf[b] /\ t.id \in VoteId
  BY <1>k, BallotIds
<1>2. t.id \notin delivered \cup invalidated
  <2>1. CASE Sign(t) \/ Merge(t)
    BY <2>1 DEF Sign, Merge, Settled
  <2>2. CASE Accept(t)
    BY <2>2 DEF Accept, Goes, KeptInv, LockingInv, Excluded, Deciding
  <2> QED
    BY <2>1, <2>2
<1>3. ASSUME NEW s \in Call, s.ballot = b, stored' = [stored EXCEPT ![b] = s],
             sigs' \in [Call -> SUBSET Server],
             \A u \in Call : u.ballot # b => sigs'[u] = sigs[u]
      PROVE  /\ stored' \in [Ballot -> Call \cup {None}]
             /\ \A c \in Ballot : stored'[c] # None => stored'[c].ballot = c
             /\ \A c \in Ballot \ {b} : List(c)' = List(c) /\ stored'[c] = stored[c]
  <2>1. /\ stored' \in [Ballot -> Call \cup {None}]
        /\ stored'[b] = s /\ \A c \in Ballot \ {b} : stored'[c] = stored[c]
    BY <1>t, <1>3
  <2>2. ASSUME NEW c \in Ballot \ {b} PROVE List(c)' = List(c)
    <3>1. CASE stored[c] = None
      BY <2>1, <3>1 DEF List
    <3>2. CASE stored[c] # None
      <4>1. stored[c] \in Call /\ stored[c].ballot # b
        BY <1>t, <2>2, <3>2
      <4> QED
        BY <1>3, <2>1, <3>2, <4>1 DEF List
    <3> QED
      BY <3>1, <3>2
  <2> QED
    BY <1>t, <1>3, <2>1, <2>2
<1>4. CASE Sign(t)
  <2> DEFINE s == IF stored[b] = None THEN t ELSE stored[b]
             S == List(b) \cup {Here}
  <2>1. s \in Call /\ s.ballot = b /\ S \in SUBSET Server
    BY <1>t
  <2>2. stored' = [stored EXCEPT ![b] = s] /\ sigs' = [sigs EXCEPT ![t] = S, ![s] = S]
    BY <1>4, <1>t DEF Sign
  <2>3. /\ sigs' \in [Call -> SUBSET Server]
        /\ \A u \in Call : u.ballot # b => sigs'[u] = sigs[u]
    <3> HIDE DEF s, S
    <3> QED
      BY <1>t, <2>1, <2>2
  <2>4. seen' = seen
    BY <1>4 DEF Sign
  <2> HIDE DEF s, S
  <2> QED
    BY <1>t, <1>1, <1>2, <1>3, <2>1, <2>2, <2>3, <2>4
<1>5. CASE Accept(t)
  <2>1. /\ stored' = [stored EXCEPT ![b] = t] /\ sigs' = sigs
        /\ seen' = [seen EXCEPT ![t.id] = @ \cup {Here}]
    BY <1>5 DEF Accept
  <2>2. /\ seen' \in [VoteId -> SUBSET Server]
        /\ \A j \in VoteId \ {t.id} : seen'[j] = seen[j]
    BY <1>t, <1>1, <2>1
  <2> QED
    BY <1>t, <1>1, <1>2, <1>3, <2>1, <2>2
<1>6. CASE Merge(t)
  <2> DEFINE s == IF stored[b] = None THEN t ELSE stored[b]
             new == t.from \ (seen[t.id] \cup List(b))
  <2>1. s \in Call /\ s.ballot = b
    BY <1>t
  <2>2. new \in SUBSET Server
    BY <1>6, ShareShape DEF Merge
  <2>3. /\ stored' = [stored EXCEPT ![b] = s] /\ sigs' = [sigs EXCEPT ![s] = @ \cup new]
        /\ seen' = [seen EXCEPT ![t.id] = @ \cup new]
    BY <1>6 DEF Merge
  <2> HIDE DEF s, new
  <2>4. /\ sigs' \in [Call -> SUBSET Server]
        /\ \A u \in Call : u.ballot # b => sigs'[u] = sigs[u]
    BY <1>t, <2>1, <2>2, <2>3
  <2>5. /\ seen' \in [VoteId -> SUBSET Server]
        /\ \A j \in VoteId \ {t.id} : seen'[j] = seen[j]
    BY <1>t, <1>1, <2>2, <2>3
  <2> QED
    BY <1>t, <1>1, <1>2, <1>3, <2>1, <2>3, <2>4, <2>5
<1> QED
  BY <1>4, <1>5, <1>6

LEMMA StoresNext == KeptInv /\ [Next]_vars => Stores'
<1> SUFFICES ASSUME KeptInv, [Next]_vars PROVE Stores'
  OBVIOUS
<1>1. ASSUME UNCHANGED <<pc, known, invalidated, seen, stored, sigs>> PROVE Stores'
  BY <1>1 DEF KeptInv, Stores
<1>2. CASE AddShare
  BY <1>1, <1>2 DEF AddShare, entries
<1>3. ASSUME NEW t \in Call, Step(t) PROVE Stores'
  <2>1. \A u \in Call : pc'[u] = "verify" => u.kind = "post"
    BY <1>3, VerifyingPosts
  <2>2. CASE Sign(t) \/ Accept(t) \/ Merge(t)
    <3>1. known' = known /\ invalidated' = invalidated
      BY <2>2 DEF Sign, Accept, Merge
    <3> QED
      BY <2>1, <2>2, <3>1, OwnStructs DEF KeptInv, Stores
  <2>3. CASE Invalidate(t) \/ FirstRelease(t)
    <3>1. t.id \in known
      BY <2>3 DEF Invalidate, FirstRelease, Goes, KeptInv, LockingInv, EntryFirst
    <3>2. /\ UNCHANGED <<known, seen, stored, sigs>>
          /\ invalidated' = invalidated \cup {t.id}
      BY <2>3 DEF Invalidate, FirstRelease
    <3> QED
      BY <2>1, <3>1, <3>2 DEF KeptInv, Stores
  <2>4. CASE ~ (Sign(t) \/ Accept(t) \/ Merge(t) \/ Invalidate(t) \/ FirstRelease(t))
    <3>1. UNCHANGED <<invalidated, seen, stored, sigs>> /\ known \subseteq known'
      BY <1>3, <2>4 DEF Step, entries, Found, ChallengeIgnored, ChallengeUnknownId,
         Create, TakeLock, Return, OnBareEntry, Reject, ChallengeBallot, FloodChallenge,
         NothingReady, Deliver, TakeShareLock, SendShare, Replay, ReplayTakesIds,
         ChallengeOwnShare, Unlock, Release, Delayed, Resume, Flood, ChallengeKept,
         ChallengeLeaksLock, Stick
    <3> QED
      BY <2>1, <3>1 DEF KeptInv, Stores
  <2> QED
    BY <2>2, <2>3, <2>4
<1>4. CASE UNCHANGED vars
  BY <1>1, <1>4 DEF vars, entries
<1> QED
  BY <1>2, <1>3, <1>4 DEF Next

(* A view, field by field. *)
Entry(k, b, d, v, r, s, p, l, y, f) ==
  [known |-> k, bare |-> b, delivered |-> d, invalidated |-> v, received |-> r,
   seen |-> s, pending |-> p, lists |-> l, tally |-> y, flooded |-> f]

LEMMA OtherPending ==
  ASSUME NEW k, NEW b, NEW d, NEW v, NEW r, NEW s, NEW p, NEW l, NEW y, NEW f, NEW q
  PROVE  [Entry(k, b, d, v, r, s, p, l, y, f) EXCEPT !.pending = q]
           = Entry(k, b, d, v, r, s, q, l, y, f)
BY DEF Entry

(* What is left of an entry when its challenges are left out. *)
LEMMA KeptBut ==
  ASSUME NEW i,
         i \in known <=> i \in known', i \in bare <=> i \in bare',
         i \in delivered <=> i \in delivered', i \in invalidated <=> i \in invalidated',
         seen'[i] = seen[i],
         \A b \in Ballot : IdOf[b] = i =>
           /\ stored'[b] = stored[b]
           /\ List(b)' = List(b)
           /\ tally'[b] = tally[b],
         \A c : IdOf[c.ballot] = i => (c \in flooded' <=> c \in flooded)
  PROVE  View(i)' = [View(i) EXCEPT !.pending = Pending(i)']
<1>1. Received(i)' = Received(i)
  BY DEF Received
<1>2. [b \in Ballot |-> IF IdOf[b] = i THEN List(b) ELSE {}]'
        = [b \in Ballot |-> IF IdOf[b] = i THEN List(b) ELSE {}]
  OBVIOUS
<1>3. [b \in Ballot |-> IF IdOf[b] = i THEN tally[b] ELSE 0]'
        = [b \in Ballot |-> IF IdOf[b] = i THEN tally[b] ELSE 0]
  OBVIOUS
<1>4. {c \in flooded : IdOf[c.ballot] = i}' = {c \in flooded : IdOf[c.ballot] = i}
  OBVIOUS
<1>5. /\ (i \in known) = (i \in known') /\ (i \in bare) = (i \in bare')
      /\ (i \in delivered) = (i \in delivered')
      /\ (i \in invalidated) = (i \in invalidated')
  OBVIOUS
<1> DEFINE Old(p) ==
             Entry(i \in known, i \in bare, i \in delivered, i \in invalidated,
                   Received(i), IF i = NilId THEN {} ELSE seen[i], p,
                   [b \in Ballot |-> IF IdOf[b] = i THEN List(b) ELSE {}],
                   [b \in Ballot |-> IF IdOf[b] = i THEN tally[b] ELSE 0],
                   {c \in flooded : IdOf[c.ballot] = i})
<1>6. View(i)' = Old(Pending(i)')
  BY <1>1, <1>2, <1>3, <1>4, <1>5 DEF View, Entry
<1>7. View(i) = Old(Pending(i))
  BY DEF View, Entry
<1>8. [Old(Pending(i)) EXCEPT !.pending = Pending(i)'] = Old(Pending(i)')
  BY OtherPending
<1> HIDE DEF Old
<1> QED
  BY <1>6, <1>7, <1>8, Zenon

LEMMA CondemnedStep ==
  ASSUME KeptInv, NEW t \in Call, Step(t), NEW i \in VoteId, Condemned(i)
  PROVE  View(i)' = [View(i) EXCEPT !.pending = Pending(i)']
<1>t. /\ t.id \in EntryId /\ t.ballot \in Ballot
      /\ seen \in [VoteId -> SUBSET Server] /\ tally \in [Ballot -> Nat]
      /\ chosen \in [Call -> Ballot]
      /\ invalidated \subseteq known /\ delivered \cap invalidated = {}
      /\ \A u \in Call : Excluded(u)
  BY CallsTyped DEF KeptInv, LockingInv, Typed, Stores
<1>i. i \in invalidated /\ i \in known /\ i \notin delivered
  BY <1>t DEF Condemned, Excluded
<1>1. ASSUME UNCHANGED <<stored, sigs>> PROVE \A b \in Ballot : List(b)' = List(b)
  BY <1>1 DEF List
<1>2. CASE Sign(t) \/ Accept(t) \/ Merge(t)
  <2>1. UNCHANGED <<known, bare, delivered, invalidated, tally, flooded>>
    BY <1>2 DEF Sign, Accept, Merge, rest
  <2>2. t.id # i /\ IdOf[t.ballot] # i
    BY <1>2, <1>i, OwnStructs
  <2>3. /\ seen'[i] = seen[i]
        /\ \A b \in Ballot : IdOf[b] = i => List(b)' = List(b) /\ stored'[b] = stored[b]
    BY <1>2, <2>2, OwnStructs
  <2> QED
    BY <2>1, <2>3, KeptBut
<1>3. CASE ChallengeBallot(t) \/ ChallengeOwnShare(t)
  <2>1. PICK c : IdOf[c.ballot] # i /\ flooded' = flooded \cup {c} /\ UNCHANGED <<entries, tally>>
    <3>1. CASE ChallengeBallot(t)
      <4>1. t.id \notin invalidated /\ t.kind = "post"
        BY <3>1, <1>t DEF ChallengeBallot, FloodChallenge, Excluded, Deciding, KeptInv, Stores
      <4>2. IdOf[ChallengeOf(t.id, t.ballot, Here).ballot] = t.id
        BY <4>1, PostShape DEF ChallengeOf
      <4> QED
        BY <1>i, <3>1, <4>1, <4>2 DEF ChallengeBallot, FloodChallenge
    <3>2. CASE ChallengeOwnShare(t)
      <4>1. PICK b \in Ready(t.id) :
              FloodChallenge(t, "signatures", "doubt", ChallengeOf(NilId, b, Here))
        BY <3>2 DEF ChallengeOwnShare
      <4>2. IdOf[ChallengeOf(NilId, b, Here).ballot] = t.id
        BY DEF ChallengeOf, Ready, Received
      <4>3. t.id \notin invalidated
        BY <4>1, <1>t DEF FloodChallenge, Excluded, Deciding
      <4> QED
        BY <1>i, <4>1, <4>2, <4>3 DEF FloodChallenge
    <3> QED
      BY <1>3, <3>1, <3>2
  <2> QED
    BY <1>1, <2>1, KeptBut DEF entries
<1>4. CASE SendShare(t)
  <2>1. /\ UNCHANGED <<entries, flooded>>
        /\ tally' = [tally EXCEPT ![chosen[t]] = @ + 1]
    BY <1>4 DEF SendShare
  <2>2. IdOf[chosen[t]] # i
    BY <1>4, <1>t, <1>i DEF SendShare, Goes, Excluded, HandingOver
  <2>3. \A b \in Ballot : IdOf[b] = i => tally'[b] = tally[b]
    BY <1>t, <2>1, <2>2
  <2> QED
    BY <1>1, <2>1, <2>3, KeptBut DEF entries
<1>5. CASE Deliver(t)
  <2>1. t.id # i
    BY <1>5, <1>t, <1>i DEF Deliver, Goes, Excluded, Deciding
  <2>2. /\ UNCHANGED <<known, bare, invalidated, seen, stored, sigs, tally, flooded>>
        /\ delivered' = delivered \cup {t.id}
    BY <1>5 DEF Deliver
  <2> QED
    BY <1>1, <2>1, <2>2, KeptBut
<1>6. CASE ChallengeUnknownId(t) \/ Create(t)
  <2>1. t.id # i
    BY <1>6, <1>i DEF ChallengeUnknownId, Create
  <2>2. /\ known' = known \cup {t.id} /\ bare' \in {bare, bare \cup {t.id}}
        /\ UNCHANGED <<delivered, invalidated, seen, stored, sigs, tally, flooded>>
    BY <1>6 DEF ChallengeUnknownId, Create, rest
  <2> QED
    BY <1>1, <2>1, <2>2, KeptBut
<1>7. CASE Invalidate(t) \/ FirstRelease(t) \/ ChallengeKept(t) \/ ChallengeLeaksLock(t)
  <2>1. /\ UNCHANGED <<known, bare, delivered, seen, stored, sigs, tally, flooded>>
        /\ invalidated' \in {invalidated, invalidated \cup {t.id}}
    BY <1>7 DEF Invalidate, FirstRelease, ChallengeKept, ChallengeLeaksLock, rest
  <2> QED
    BY <1>1, <1>i, <2>1, KeptBut
<1>8. CASE ~ (\/ Sign(t) \/ Accept(t) \/ Merge(t) \/ ChallengeBallot(t)
              \/ ChallengeOwnShare(t) \/ SendShare(t) \/ ChallengeUnknownId(t)
              \/ Create(t) \/ Invalidate(t) \/ Deliver(t) \/ FirstRelease(t)
              \/ ChallengeKept(t) \/ ChallengeLeaksLock(t))
  <2>1. UNCHANGED <<entries, tally, flooded>>
    BY <1>8 DEF Step, rest, Found, ChallengeIgnored, TakeLock, Return, OnBareEntry, Reject,
       NothingReady, TakeShareLock, Replay, ReplayTakesIds, Unlock, Release, Delayed,
       Resume, Flood, Stick
  <2> QED
    BY <1>1, <2>1, KeptBut DEF entries
<1> QED
  BY <1>2, <1>3, <1>4, <1>5, <1>6, <1>7, <1>8

(* From the first release of an entry's lock in _CheckSignatures on, and   *)
(* in every entry that is invalidated, no call changes anything but the    *)
(* challenges it keeps: for any number of calls, also of those that get    *)
(* in between the two releases, whoever's lock the second one takes.       *)
THEOREM CondemnedStay == Spec => CondemnedKept
<1>1. Init => KeptInv
  BY LockingInvInit, StoresInit DEF KeptInv
<1>2. KeptInv /\ [Next]_vars => KeptInv'
  BY LockingInvNext, StoresNext DEF KeptInv
<1>3. KeptInv /\ [Next]_vars
        => [\A i \in VoteId : Condemned(i) =>
              View(i)' = [View(i) EXCEPT !.pending = Pending(i)']]_vars
  <2> SUFFICES ASSUME KeptInv, [Next]_vars, vars' # vars,
                      NEW i \in VoteId, Condemned(i)
               PROVE  View(i)' = [View(i) EXCEPT !.pending = Pending(i)']
    OBVIOUS
  <2>1. CASE AddShare
    <3>1. UNCHANGED <<entries, tally, flooded>>
      BY <2>1 DEF AddShare, rest
    <3>2. \A b \in Ballot : List(b)' = List(b)
      BY <3>1 DEF List, entries
    <3> QED
      BY <3>1, <3>2, KeptBut DEF entries
  <2>2. ASSUME NEW t \in Call, Step(t)
        PROVE  View(i)' = [View(i) EXCEPT !.pending = Pending(i)']
    BY <2>2, CondemnedStep
  <2> QED
    BY <2>1, <2>2 DEF Next
<1> QED
  BY <1>1, <1>2, <1>3, PTL DEF Spec, CondemnedKept
=============================================================================
