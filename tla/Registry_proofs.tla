--------------------------- MODULE Registry_proofs ---------------------------
(***************************************************************************)
(* What holds of the registry service for every set of keys, peers and     *)
(* tasks.  IndInv is the inductive strengthening: it says what a task      *)
(* knows about shared state at each point of its call.                     *)
(***************************************************************************)
EXTENDS Registry, TLAPS

SetPCs == {"setRead", "setEmit", "setPut", "setBroadcast"}

\* At every point of a call its arguments are those it was given, and the
\* comparison of revisions made by a Set is still good until someone races.
ArgsInv ==
    \A t \in Task :
        /\ pc[t] # "idle" => key[t] \in PK
        /\ pc[t] \in SetPCs =>
             /\ ent[t] \in Entry
             /\ key[t] = ent[t].pk
             /\ from[t] \in Peer
        /\ pc[t] \in {"listenAsk", "listenOn"} => streams[key[t]] \in Task

GetPCs == {"getSubs", "getCachedRead", "getCachedAsk", "getLastRead",
           "getAsk", "getSubscribe", "getCheck", "getStream", "getRead", "getPoll"}

ListenPCs == {"listenCheck", "listenStream", "listenAsk", "listenOn"}

\* A task is where its call can be.
OpInv ==
    \A t \in Task :
        /\ pc[t] \in SetPCs => op[t] = "set"
        /\ pc[t] \in GetPCs => op[t] = "get"
        /\ pc[t] \in ListenPCs => op[t] = "listen"
        /\ op[t] # "none" => key[t] \in PK
        /\ op[t] = "set" /\ status[t] = "ok" => ent[t] \in Entry

\* What a Set concluded from its read holds until someone races, and what it
\* put is kept until someone lowers the key.
NewerInv ==
    \A t \in Task :
        pc[t] \in {"setEmit", "setPut"} /\ ~ raced[t] => Newer(ent[t], store[key[t]])

AtLeast(k, e) == store[k] # NoEntry /\ store[k].rev >= e.rev

KeptInv ==
    \A t \in Task :
        /\ pc[t] = "setBroadcast" /\ key[t] \notin lowered => AtLeast(key[t], ent[t])
        /\ op[t] = "set" /\ pc[t] = "idle" /\ status[t] = "ok" /\ key[t] \notin lowered
             => AtLeast(key[t], ent[t])

\* Entries on their way into the bucket are as good as those in it.
GoodInv ==
    /\ Vouched
    /\ \A t \in Task : pc[t] \in SetPCs => Good(ent[t])

\* The bucket forgets no key.
HadInv ==
    /\ GetFindsStored
    /\ \A t \in Task : op[t] = "get" /\ had[t] => store[key[t]] # NoEntry

\* A task about to create an emitter finds none, unless creations overlap.
ReachInv ==
    /\ ListenersReachable
    /\ \A t \in Task : pc[t] \in {"getStream", "listenStream"} /\ key[t] \notin overlapped
                         => streams[key[t]] = NoTask

\* The new service (NewRegistry, Init) is well typed, and no call is under way.
LEMMA TypeInit == Init => TypeOK /\ ArgsInv
BY RegistryAssumption DEF Init, TypeOK, ArgsInv, PCs, SetPCs

\* Every step of Set, Get, Listen and their callers keeps the types and the
\* arguments of the calls under way; the other lemmas rest on this one.
LEMMA TypeStep == TypeOK /\ ArgsInv /\ [Next]_vars => TypeOK' /\ ArgsInv'
<1> SUFFICES ASSUME TypeOK, ArgsInv, [Next]_vars
             PROVE  TypeOK' /\ ArgsInv'
  OBVIOUS
<1> USE RegistryAssumption DEF TypeOK, ArgsInv, PCs, SetPCs
<1>1. ASSUME NEW t \in Task, NEW e \in Entry, NEW p \in Peer, SetRejected(t, e, p)
      PROVE  TypeOK' /\ ArgsInv'
  <2>1. PICK k \in PK : k = e.pk
    BY DEF Entry
  <2>2. Begin(t, "set", NoEntry, k, p) /\ status' = [status EXCEPT ![t] = "error"] /\ pc' = pc
    BY <1>1, <2>1 DEF SetRejected
  <2> QED
    BY <2>2 DEF Begin, shared
<1>2. ASSUME NEW t \in Task, NEW e \in Entry, NEW p \in Peer, NEW trusted \in BOOLEAN,
             SetAdmitted(t, e, trusted, p)
      PROVE  TypeOK' /\ ArgsInv'
  <2>1. PICK k \in PK : k = e.pk
    BY DEF Entry
  <2>2. Begin(t, "set", e, k, p) /\ status' = [status EXCEPT ![t] = "none"] /\ Goto(t, "setRead")
    BY <1>2, <2>1 DEF SetAdmitted
  <2> QED
    BY <2>1, <2>2 DEF Begin, Goto, shared
<1>3. ASSUME NEW t \in Task, SetRead(t)
      PROVE  TypeOK' /\ ArgsInv'
  <2> DEFINE existing == store[key[t]]
  <2>1. /\ ent[t] \in Entry /\ from[t] \in Peer /\ key[t] \in PK
        /\ UNCHANGED <<store, streams, subs, listeners, peers, op, ent, key, from, found, emitting,
                       had, raced, lowered, overlapped>>
    BY <1>3 DEF SetRead, shared, history
  <2>2. \/ Return(t, "error") /\ sent' = sent
        \/ Goto(t, "setEmit") /\ UNCHANGED <<status, sent, polls, asked>>
        \/ Return(t, "ok") /\ sent' = sent
        \/ /\ existing \in Entry
           /\ sent' = [sent EXCEPT ![t] = @ \cup {<<from[t], existing>>}]
           /\ Return(t, "ok")
    BY <1>3 DEF SetRead, Newer
  <2> QED
    BY <1>3, <2>1, <2>2 DEF SetRead, Return, Goto
<1>4. ASSUME NEW t \in Task, SetEmit(t)
      PROVE  TypeOK' /\ ArgsInv'
  BY <1>4 DEF SetEmit, Goto, shared, history
<1>5. ASSUME NEW t \in Task, SetPut(t)
      PROVE  TypeOK' /\ ArgsInv'
  <2>1. /\ ent[t] \in Entry /\ key[t] \in PK /\ key[t] = ent[t].pk
        /\ UNCHANGED <<streams, subs, listeners, peers, op, ent, key, from, found, sent, emitting,
                       had, overlapped>>
    BY <1>5 DEF SetPut
  <2>2. raced' \in [Task -> BOOLEAN]
    <3> HIDE DEF ArgsInv
    <3> QED
      BY <1>5, Zenon DEF SetPut
  <2>3. /\ store' = [store EXCEPT ![key[t]] = ent[t]] \/ store' = store
        /\ lowered' = lowered \/ lowered' = lowered \cup {key[t]}
        /\ \/ Goto(t, "setBroadcast") /\ UNCHANGED <<status, polls, asked>>
           \/ Return(t, "error")
    BY <1>5, <2>1 DEF SetPut
  <2> QED
    BY <1>5, <2>1, <2>2, <2>3 DEF SetPut, Return, Goto
<1>6. ASSUME NEW t \in Task, BroadcastEntry(t)
      PROVE  TypeOK' /\ ArgsInv'
  BY <1>6 DEF BroadcastEntry, Return, shared, history
<1>7. ASSUME NEW t \in Task, Emit(t)
      PROVE  TypeOK' /\ ArgsInv'
  BY <1>7 DEF Emit, shared, history
<1>8. ASSUME NEW t \in Task, NEW k \in PK, NEW p \in Peer \cup {NoPeer}, GetBegin(t, k, p)
      PROVE  TypeOK' /\ ArgsInv'
  BY <1>8 DEF GetBegin, Begin, Goto, shared
<1>9. ASSUME NEW t \in Task, GetSubs(t)
      PROVE  TypeOK' /\ ArgsInv'
  BY <1>9 DEF GetSubs, Goto, shared, history
<1>a. ASSUME NEW t \in Task, DBFailed(t), UNCHANGED <<shared, op, ent, key, from, emitting, history>>
      PROVE  TypeOK' /\ ArgsInv'
  BY <1>a DEF DBFailed, Return, shared, history
<1>b. ASSUME NEW t \in Task, NEW e \in Entry \cup {NoEntry}, GetReturn(t, e), UNCHANGED <<shared, op, ent, key, from, emitting, history>>
      PROVE  TypeOK' /\ ArgsInv'
  <2>1. /\ found' = [found EXCEPT ![t] = e]
        /\ Return(t, "ok") \/ Return(t, "error")
    BY <1>b DEF GetReturn
  <2>2. sent' \in [Task -> SUBSET (Peer \X Entry)]
    <3>1. CASE e # NoEntry /\ from[t] # NoPeer
      <4>1. e \in Entry /\ from[t] \in Peer
        BY <3>1
      <4> QED
        BY <1>b, <3>1, <4>1 DEF GetReturn
    <3>2. CASE ~ (e # NoEntry /\ from[t] # NoPeer)
      BY <1>b, <3>2 DEF GetReturn
    <3> QED
      BY <3>1, <3>2
  <2>3. UNCHANGED <<shared, op, ent, key, from, emitting, history>>
    BY <1>b
  <2>4. found' \in [Task -> Entry \cup {NoEntry}]
    BY <2>1
  <2>5. /\ status' \in [Task -> {"none", "ok", "error"}]
        /\ polls' \in [Task -> 0 .. (PollLimit - 1)]
        /\ asked' \in [Task -> SUBSET Peer]
        /\ pc' = [pc EXCEPT ![t] = "idle"]
    BY <2>1 DEF Return
  <2>6. TypeOK'
    BY <2>2, <2>3, <2>4, <2>5 DEF shared, history
  <2>7. ArgsInv'
    BY <2>3, <2>5 DEF shared
  <2> QED
    BY <2>6, <2>7
<1>10. ASSUME NEW t \in Task, GetCachedRead(t) \/ GetLastRead(t) \/ GetRead(t)
       PROVE  TypeOK' /\ ArgsInv'
  <2>1. store[key[t]] \in Entry \cup {NoEntry}
    BY <1>10 DEF GetCachedRead, GetLastRead, GetRead
  <2>2. UNCHANGED <<shared, op, ent, key, from, emitting, history>>
    BY <1>10 DEF GetCachedRead, GetLastRead, GetRead
  <2>3. \/ DBFailed(t)
        \/ GetReturn(t, store[key[t]])
        \/ /\ Goto(t, "getCachedAsk") \/ Goto(t, "getPoll")
           /\ UNCHANGED <<status, found, sent, polls, asked>>
    BY <1>10 DEF GetCachedRead, GetLastRead, GetRead
  <2>4. CASE /\ Goto(t, "getCachedAsk") \/ Goto(t, "getPoll")
             /\ UNCHANGED <<status, found, sent, polls, asked>>
    <3>1. key[t] \in PK
      BY <1>10 DEF GetCachedRead, GetLastRead, GetRead
    <3> QED
      BY <2>2, <2>4, <3>1 DEF Goto, shared, history
  <2> QED
    BY <1>a, <1>b, <2>1, <2>2, <2>3, <2>4
<1>11. ASSUME NEW t \in Task, GetPoll(t)
       PROVE  TypeOK' /\ ArgsInv'
  <2>1. store[key[t]] \in Entry \cup {NoEntry}
    BY <1>11 DEF GetPoll
  <2>2. UNCHANGED <<shared, op, ent, key, from, emitting, history>>
    BY <1>11 DEF GetPoll
  <2>3. \/ DBFailed(t)
        \/ GetReturn(t, store[key[t]])
        \/ /\ polls[t] + 1 < PollLimit
           /\ polls' = [polls EXCEPT ![t] = @ + 1]
           /\ UNCHANGED <<pc, status, found, sent, asked>>
    BY <1>11 DEF GetPoll
  <2>4. CASE /\ polls[t] + 1 < PollLimit
             /\ polls' = [polls EXCEPT ![t] = @ + 1]
             /\ UNCHANGED <<pc, status, found, sent, asked>>
    <3>1. polls' \in [Task -> 0 .. (PollLimit - 1)]
      BY <2>4
    <3> QED
      BY <2>2, <2>4, <3>1 DEF shared, history
  <2> QED
    BY <1>a, <1>b, <2>1, <2>2, <2>3, <2>4
<1>12. ASSUME NEW t \in Task, GetCachedAsk(t) \/ GetAsk(t) \/ ListenAsk(t)
       PROVE  TypeOK' /\ ArgsInv'
  <2>1. asked' \in [Task -> SUBSET Peer]
    BY <1>12 DEF GetCachedAsk, GetAsk, ListenAsk, SendRegistryRequest
  <2>2. UNCHANGED <<shared, op, ent, key, from, polls, found, status, sent, emitting, history>>
    BY <1>12 DEF GetCachedAsk, GetAsk, ListenAsk
  <2>3. CASE GetCachedAsk(t) \/ GetAsk(t)
    BY <2>1, <2>2, <2>3 DEF GetCachedAsk, GetAsk, Goto, shared, history
  <2>4. CASE ListenAsk(t)
    BY <2>1, <2>2, <2>4 DEF ListenAsk, Goto, shared, history
  <2> QED
    BY <1>12, <2>3, <2>4
<1>13. ASSUME NEW t \in Task, GetSubscribe(t)
       PROVE  TypeOK' /\ ArgsInv'
  BY <1>13 DEF GetSubscribe, Goto, history
<1>14. ASSUME NEW t \in Task, GetCheck(t) \/ ListenCheck(t)
       PROVE  TypeOK' /\ ArgsInv'
  BY <1>14 DEF GetCheck, ListenCheck, StreamCheck, Goto, shared, history
<1>15. ASSUME NEW t \in Task, GetStream(t) \/ ListenStream(t)
       PROVE  TypeOK' /\ ArgsInv'
  BY <1>15 DEF GetStream, ListenStream, StreamPut, Goto
<1>16. ASSUME NEW t \in Task, NEW k \in PK, ListenBegin(t, k)
       PROVE  TypeOK' /\ ArgsInv'
  BY <1>16 DEF ListenBegin, Begin, Goto, shared
<1>17. ASSUME NEW t \in Task, ListenOn(t)
       PROVE  TypeOK' /\ ArgsInv'
  BY <1>17 DEF ListenOn, Return, history
<1>18. ASSUME NEW l \in listeners, Off(l)
       PROVE  TypeOK' /\ ArgsInv'
  BY <1>18 DEF Off, local, history
<1>19. CASE PeersChange
  BY <1>19 DEF PeersChange, local, history
<1>20. CASE UNCHANGED vars
  BY <1>20 DEF vars, shared, local, history
<1> QED
  BY <1>1, <1>2, <1>3, <1>4, <1>5, <1>6, <1>7, <1>8, <1>9, <1>10, <1>11, <1>12, <1>13,
     <1>14, <1>15, <1>16, <1>17, <1>18, <1>19, <1>20
     DEF Next, Call, SetStep, GetStep, ListenStep

\* Every step keeps a task at a point that belongs to its call.
LEMMA OpStep ==
    TypeOK /\ ArgsInv /\ OpInv /\ [Next]_vars => OpInv'
<1> SUFFICES ASSUME TypeOK, ArgsInv, OpInv, [Next]_vars
             PROVE  OpInv'
  OBVIOUS
<1> USE RegistryAssumption DEF TypeOK, ArgsInv, OpInv, PCs, SetPCs, GetPCs, ListenPCs
<1>1. ASSUME NEW t \in Task, NEW e \in Entry, NEW p \in Peer, SetRejected(t, e, p)
      PROVE  OpInv'
  <2>1. PICK k \in PK : k = e.pk
    BY DEF Entry
  <2>2. Begin(t, "set", NoEntry, k, p) /\ status' = [status EXCEPT ![t] = "error"] /\ pc' = pc
    BY <1>1, <2>1 DEF SetRejected
  <2> QED
    BY <2>2 DEF Begin, shared
<1>2. ASSUME NEW t \in Task, NEW e \in Entry, NEW p \in Peer, NEW trusted \in BOOLEAN,
             SetAdmitted(t, e, trusted, p)
      PROVE  OpInv'
  <2>1. PICK k \in PK : k = e.pk
    BY DEF Entry
  <2>2. Begin(t, "set", e, k, p) /\ status' = [status EXCEPT ![t] = "none"] /\ Goto(t, "setRead")
    BY <1>2, <2>1 DEF SetAdmitted
  <2> QED
    BY <2>2 DEF Begin, Goto
<1>3. ASSUME NEW t \in Task, SetRead(t)
      PROVE  OpInv'
  BY <1>3 DEF SetRead, Return, Goto, shared, history
<1>4. ASSUME NEW t \in Task, SetEmit(t)
      PROVE  OpInv'
  BY <1>4 DEF SetEmit, Goto, shared, history
<1>5. ASSUME NEW t \in Task, SetPut(t)
      PROVE  OpInv'
  BY <1>5 DEF SetPut, Return, Goto
<1>6. ASSUME NEW t \in Task, BroadcastEntry(t)
      PROVE  OpInv'
  BY <1>6 DEF BroadcastEntry, Return, shared, history
<1>7. ASSUME NEW t \in Task, Emit(t)
      PROVE  OpInv'
  BY <1>7 DEF Emit, shared, history
<1>8. ASSUME NEW t \in Task, NEW k \in PK, NEW p \in Peer \cup {NoPeer}, GetBegin(t, k, p)
      PROVE  OpInv'
  BY <1>8 DEF GetBegin, Begin, Goto, shared
<1>9. ASSUME NEW t \in Task, GetSubs(t)
      PROVE  OpInv'
  BY <1>9 DEF GetSubs, Goto, shared, history
<1>10. ASSUME NEW t \in Task, GetCachedRead(t) \/ GetLastRead(t) \/ GetRead(t)
       PROVE  OpInv'
  BY <1>10 DEF GetCachedRead, GetLastRead, GetRead, GetReturn, DBFailed, Return, Goto, shared, history
<1>11. ASSUME NEW t \in Task, GetPoll(t)
       PROVE  OpInv'
  BY <1>11 DEF GetPoll, GetReturn, DBFailed, Return, shared, history
<1>12. ASSUME NEW t \in Task, GetCachedAsk(t) \/ GetAsk(t) \/ ListenAsk(t)
       PROVE  OpInv'
  BY <1>12 DEF GetCachedAsk, GetAsk, ListenAsk, Goto, shared, history
<1>13. ASSUME NEW t \in Task, GetSubscribe(t)
       PROVE  OpInv'
  BY <1>13 DEF GetSubscribe, Goto, history
<1>14. ASSUME NEW t \in Task, GetCheck(t) \/ ListenCheck(t)
       PROVE  OpInv'
  BY <1>14 DEF GetCheck, ListenCheck, StreamCheck, Goto, shared, history
<1>15. ASSUME NEW t \in Task, GetStream(t) \/ ListenStream(t)
       PROVE  OpInv'
  BY <1>15 DEF GetStream, ListenStream, StreamPut, Goto
<1>16. ASSUME NEW t \in Task, NEW k \in PK, ListenBegin(t, k)
       PROVE  OpInv'
  BY <1>16 DEF ListenBegin, Begin, Goto, shared
<1>17. ASSUME NEW t \in Task, ListenOn(t)
       PROVE  OpInv'
  BY <1>17 DEF ListenOn, Return, history
<1>18. ASSUME NEW l \in listeners, Off(l)
       PROVE  OpInv'
  BY <1>18 DEF Off, local, history
<1>19. CASE PeersChange
  BY <1>19 DEF PeersChange, local, history
<1>20. CASE UNCHANGED vars
  BY <1>20 DEF vars, shared, local, history
<1> QED
  BY <1>1, <1>2, <1>3, <1>4, <1>5, <1>6, <1>7, <1>8, <1>9, <1>10, <1>11, <1>12, <1>13,
     <1>14, <1>15, <1>16, <1>17, <1>18, <1>19, <1>20
     DEF Next, Call, SetStep, GetStep, ListenStep

\* What Set concluded from its read (lines 95 to 117 of registry.go) stays true
\* until a Put of another Set marks it as raced.
LEMMA NewerStep ==
    TypeOK /\ ArgsInv /\ NewerInv /\ [Next]_vars => NewerInv'
<1> SUFFICES ASSUME TypeOK, ArgsInv, NewerInv, [Next]_vars
             PROVE  NewerInv'
  OBVIOUS
<1> USE RegistryAssumption DEF TypeOK, ArgsInv, NewerInv, SetPCs, Newer
<1>1. ASSUME NEW t \in Task, NEW e \in Entry, NEW p \in Peer, SetRejected(t, e, p)
      PROVE  NewerInv'
  BY <1>1 DEF SetRejected, Begin, shared
<1>2. ASSUME NEW t \in Task, NEW e \in Entry, NEW p \in Peer, NEW trusted \in BOOLEAN,
             SetAdmitted(t, e, trusted, p)
      PROVE  NewerInv'
  BY <1>2 DEF SetAdmitted, Begin, Goto, shared
<1>3. ASSUME NEW t \in Task, SetRead(t)
      PROVE  NewerInv'
  BY <1>3 DEF SetRead, Return, Goto, shared, history
<1>4. ASSUME NEW t \in Task, SetEmit(t)
      PROVE  NewerInv'
  BY <1>4 DEF SetEmit, Goto, shared, history
<1>5. ASSUME NEW t \in Task, SetPut(t)
      PROVE  NewerInv'
  <2> SUFFICES ASSUME NEW u \in Task, pc'[u] \in {"setEmit", "setPut"}, ~ raced'[u]
               PROVE  Newer(ent[u], store'[key[u]])
    BY <1>5 DEF SetPut
  <2>1. u # t /\ pc[u] = pc'[u]
    BY <1>5 DEF SetPut, Goto, Return
  <2>2. ~ raced[u] /\ (store' = store \/ key[u] # ent[t].pk)
    <3> HIDE DEF ArgsInv, NewerInv, Newer
    <3> QED
      BY <1>5, <2>1, Zenon DEF SetPut
  <2>3. store'[key[u]] = store[key[u]]
    BY <1>5, <2>1, <2>2 DEF SetPut
  <2> QED
    BY <2>1, <2>2, <2>3
<1>6. ASSUME NEW t \in Task, BroadcastEntry(t)
      PROVE  NewerInv'
  BY <1>6 DEF BroadcastEntry, Return, shared, history
<1>7. ASSUME NEW t \in Task, Emit(t)
      PROVE  NewerInv'
  BY <1>7 DEF Emit, shared, history
<1>8. ASSUME NEW t \in Task, NEW k \in PK, NEW p \in Peer \cup {NoPeer}, GetBegin(t, k, p)
      PROVE  NewerInv'
  BY <1>8 DEF GetBegin, Begin, Goto, shared
<1>9. ASSUME NEW t \in Task, GetSubs(t)
      PROVE  NewerInv'
  BY <1>9 DEF GetSubs, Goto, shared, history
<1>10. ASSUME NEW t \in Task, GetCachedRead(t) \/ GetLastRead(t) \/ GetRead(t)
       PROVE  NewerInv'
  BY <1>10 DEF GetCachedRead, GetLastRead, GetRead, GetReturn, DBFailed, Return, Goto, shared, history
<1>11. ASSUME NEW t \in Task, GetPoll(t)
       PROVE  NewerInv'
  BY <1>11 DEF GetPoll, GetReturn, DBFailed, Return, shared, history
<1>12. ASSUME NEW t \in Task, GetCachedAsk(t) \/ GetAsk(t) \/ ListenAsk(t)
       PROVE  NewerInv'
  BY <1>12 DEF GetCachedAsk, GetAsk, ListenAsk, Goto, shared, history
<1>13. ASSUME NEW t \in Task, GetSubscribe(t)
       PROVE  NewerInv'
  BY <1>13 DEF GetSubscribe, Goto, history
<1>14. ASSUME NEW t \in Task, GetCheck(t) \/ ListenCheck(t)
       PROVE  NewerInv'
  BY <1>14 DEF GetCheck, ListenCheck, StreamCheck, Goto, shared, history
<1>15. ASSUME NEW t \in Task, GetStream(t) \/ ListenStream(t)
       PROVE  NewerInv'
  BY <1>15 DEF GetStream, ListenStream, StreamPut, Goto
<1>16. ASSUME NEW t \in Task, NEW k \in PK, ListenBegin(t, k)
       PROVE  NewerInv'
  BY <1>16 DEF ListenBegin, Begin, Goto, shared
<1>17. ASSUME NEW t \in Task, ListenOn(t)
       PROVE  NewerInv'
  BY <1>17 DEF ListenOn, Return, history
<1>18. ASSUME NEW l \in listeners, Off(l)
       PROVE  NewerInv'
  BY <1>18 DEF Off, local, history
<1>19. CASE PeersChange
  BY <1>19 DEF PeersChange, local, history
<1>20. CASE UNCHANGED vars
  BY <1>20 DEF vars, shared, local, history
<1> QED
  BY <1>1, <1>2, <1>3, <1>4, <1>5, <1>6, <1>7, <1>8, <1>9, <1>10, <1>11, <1>12, <1>13,
     <1>14, <1>15, <1>16, <1>17, <1>18, <1>19, <1>20
     DEF Next, Call, SetStep, GetStep, ListenStep

\* What a Set has put stays, or is replaced by a later revision, until a race
\* lowers the key.
LEMMA KeptStep ==
    TypeOK /\ ArgsInv /\ OpInv /\ KeptInv /\ [Next]_vars => KeptInv'
<1> SUFFICES ASSUME TypeOK, ArgsInv, OpInv, KeptInv, [Next]_vars
             PROVE  KeptInv'
  OBVIOUS
<1> USE RegistryAssumption DEF TypeOK, ArgsInv, OpInv, KeptInv, AtLeast, PCs, SetPCs, GetPCs, ListenPCs
<1>1. ASSUME NEW t \in Task, NEW e \in Entry, NEW p \in Peer, SetRejected(t, e, p)
      PROVE  KeptInv'
  BY <1>1 DEF SetRejected, Begin, shared
<1>2. ASSUME NEW t \in Task, NEW e \in Entry, NEW p \in Peer, NEW trusted \in BOOLEAN,
             SetAdmitted(t, e, trusted, p)
      PROVE  KeptInv'
  BY <1>2 DEF SetAdmitted, Begin, Goto, shared
<1>3. ASSUME NEW t \in Task, SetRead(t)
      PROVE  KeptInv'
  <2>1. \A u \in Task \ {t} : pc'[u] = pc[u] /\ status'[u] = status[u]
    BY <1>3 DEF SetRead, Return, Goto
  <2>2. pc'[t] = "idle" /\ status'[t] = "ok" => AtLeast(key[t], ent[t])
    <3>1. ent[t] \in Entry /\ (store[key[t]] # NoEntry => store[key[t]] \in Entry)
      BY <1>3 DEF SetRead
    <3> QED
      BY <1>3, <3>1 DEF SetRead, Return, Goto, Newer, Entry, Revision
  <2>3. pc'[t] # "setBroadcast"
    BY <1>3 DEF SetRead, Return, Goto
  <2> QED
    BY <1>3, <2>1, <2>2, <2>3 DEF SetRead, shared, history
<1>4. ASSUME NEW t \in Task, SetEmit(t)
      PROVE  KeptInv'
  BY <1>4 DEF SetEmit, Goto, shared, history
<1>5. ASSUME NEW t \in Task, SetPut(t)
      PROVE  KeptInv'
  <2>1. /\ UNCHANGED <<op, ent, key>>
        /\ \A u \in Task \ {t} : pc'[u] = pc[u] /\ status'[u] = status[u]
        /\ pc'[t] # "setBroadcast" => pc'[t] = "idle" /\ status'[t] = "error"
    BY <1>5 DEF SetPut, Return, Goto
  <2>2. \/ store' = store /\ lowered' = lowered /\ pc'[t] = "idle"
        \/ /\ store' = [store EXCEPT ![key[t]] = ent[t]]
           /\ lowered' = lowered
           /\ Newer(ent[t], store[key[t]])
        \/ lowered' = lowered \cup {key[t]} /\ store' = [store EXCEPT ![key[t]] = ent[t]]
    BY <1>5 DEF SetPut, Return
  <2>3. ent[t] \in Entry /\ key[t] \in PK /\ ent[t].rev \in Nat /\ ent[t] # NoEntry
    BY <1>5 DEF SetPut, Entry, Revision
  <2>4. \A k \in PK : store[k] # NoEntry => store[k].rev \in Nat
    BY DEF Entry, Revision
  <2>5. ASSUME NEW k \in PK \ lowered', NEW e \in Entry, AtLeast(k, e)
        PROVE  AtLeast(k, e)'
    <3>1. e.rev \in Nat
      BY DEF Entry, Revision
    <3> QED
      BY <2>2, <2>3, <2>4, <2>5, <3>1 DEF Newer
  <2>6. pc'[t] = "setBroadcast" => AtLeast(key[t], ent[t])'
    BY <2>1, <2>2, <2>3
  <2>7. lowered \subseteq lowered'
    BY <2>2
  <2> QED
    BY <2>1, <2>3, <2>5, <2>6, <2>7
<1>6. ASSUME NEW t \in Task, BroadcastEntry(t)
      PROVE  KeptInv'
  BY <1>6 DEF BroadcastEntry, Return, shared, history
<1>7. ASSUME NEW t \in Task, Emit(t)
      PROVE  KeptInv'
  BY <1>7 DEF Emit, shared, history
<1>8. ASSUME NEW t \in Task, NEW k \in PK, NEW p \in Peer \cup {NoPeer}, GetBegin(t, k, p)
      PROVE  KeptInv'
  BY <1>8 DEF GetBegin, Begin, Goto, shared
<1>9. ASSUME NEW t \in Task, GetSubs(t)
      PROVE  KeptInv'
  BY <1>9 DEF GetSubs, Goto, shared, history
<1>10. ASSUME NEW t \in Task, GetCachedRead(t) \/ GetLastRead(t) \/ GetRead(t)
       PROVE  KeptInv'
  BY <1>10 DEF GetCachedRead, GetLastRead, GetRead, GetReturn, DBFailed, Return, Goto, shared, history
<1>11. ASSUME NEW t \in Task, GetPoll(t)
       PROVE  KeptInv'
  BY <1>11 DEF GetPoll, GetReturn, DBFailed, Return, shared, history
<1>12. ASSUME NEW t \in Task, GetCachedAsk(t) \/ GetAsk(t) \/ ListenAsk(t)
       PROVE  KeptInv'
  BY <1>12 DEF GetCachedAsk, GetAsk, ListenAsk, Goto, shared, history
<1>13. ASSUME NEW t \in Task, GetSubscribe(t)
       PROVE  KeptInv'
  BY <1>13 DEF GetSubscribe, Goto, history
<1>14. ASSUME NEW t \in Task, GetCheck(t) \/ ListenCheck(t)
       PROVE  KeptInv'
  BY <1>14 DEF GetCheck, ListenCheck, StreamCheck, Goto, shared, history
<1>15. ASSUME NEW t \in Task, GetStream(t) \/ ListenStream(t)
       PROVE  KeptInv'
  BY <1>15 DEF GetStream, ListenStream, StreamPut, Goto
<1>16. ASSUME NEW t \in Task, NEW k \in PK, ListenBegin(t, k)
       PROVE  KeptInv'
  BY <1>16 DEF ListenBegin, Begin, Goto, shared
<1>17. ASSUME NEW t \in Task, ListenOn(t)
       PROVE  KeptInv'
  BY <1>17 DEF ListenOn, Return, history
<1>18. ASSUME NEW l \in listeners, Off(l)
       PROVE  KeptInv'
  BY <1>18 DEF Off, local, history
<1>19. CASE PeersChange
  BY <1>19 DEF PeersChange, local, history
<1>20. CASE UNCHANGED vars
  BY <1>20 DEF vars, shared, local, history
<1> QED
  BY <1>1, <1>2, <1>3, <1>4, <1>5, <1>6, <1>7, <1>8, <1>9, <1>10, <1>11, <1>12, <1>13,
     <1>14, <1>15, <1>16, <1>17, <1>18, <1>19, <1>20
     DEF Next, Call, SetStep, GetStep, ListenStep

\* Entries in the bucket, in messages and in results stay as good as the checks
\* of Set made them.
LEMMA GoodStep ==
    TypeOK /\ ArgsInv /\ OpInv /\ GoodInv /\ [Next]_vars => GoodInv'
<1> SUFFICES ASSUME TypeOK, ArgsInv, OpInv, GoodInv, [Next]_vars
             PROVE  GoodInv'
  OBVIOUS
<1> USE RegistryAssumption DEF TypeOK, ArgsInv, OpInv, GoodInv, Vouched, SetPCs, GetPCs, ListenPCs
<1>1. ASSUME NEW t \in Task, NEW e \in Entry, NEW p \in Peer, SetRejected(t, e, p)
      PROVE  GoodInv'
  BY <1>1 DEF SetRejected, Begin, shared
<1>2. ASSUME NEW t \in Task, NEW e \in Entry, NEW p \in Peer, NEW trusted \in BOOLEAN,
             trusted => e \in TrustedEntry, SetAdmitted(t, e, trusted, p)
      PROVE  GoodInv'
  BY <1>2 DEF SetAdmitted, Begin, Goto, Good, shared
<1>3. ASSUME NEW t \in Task, SetRead(t)
      PROVE  GoodInv'
  BY <1>3 DEF SetRead, Return, Goto, Newer, shared, history
<1>4. ASSUME NEW t \in Task, SetEmit(t)
      PROVE  GoodInv'
  BY <1>4 DEF SetEmit, Goto, shared, history
<1>5. ASSUME NEW t \in Task, SetPut(t)
      PROVE  GoodInv'
  BY <1>5 DEF SetPut, Return, Goto
<1>6. ASSUME NEW t \in Task, BroadcastEntry(t)
      PROVE  GoodInv'
  BY <1>6 DEF BroadcastEntry, Return, shared, history
<1>7. ASSUME NEW t \in Task, Emit(t)
      PROVE  GoodInv'
  BY <1>7 DEF Emit, shared, history
<1>8. ASSUME NEW t \in Task, NEW k \in PK, NEW p \in Peer \cup {NoPeer}, GetBegin(t, k, p)
      PROVE  GoodInv'
  BY <1>8 DEF GetBegin, Begin, Goto, shared
<1>9. ASSUME NEW t \in Task, GetSubs(t)
      PROVE  GoodInv'
  BY <1>9 DEF GetSubs, Goto, shared, history
<1>10. ASSUME NEW t \in Task, GetCachedRead(t) \/ GetLastRead(t) \/ GetRead(t)
       PROVE  GoodInv'
  BY <1>10 DEF GetCachedRead, GetLastRead, GetRead, GetReturn, DBFailed, Return, Goto, shared, history
<1>11. ASSUME NEW t \in Task, GetPoll(t)
       PROVE  GoodInv'
  BY <1>11 DEF GetPoll, GetReturn, DBFailed, Return, shared, history
<1>12. ASSUME NEW t \in Task, GetCachedAsk(t) \/ GetAsk(t) \/ ListenAsk(t)
       PROVE  GoodInv'
  BY <1>12 DEF GetCachedAsk, GetAsk, ListenAsk, Goto, shared, history
<1>13. ASSUME NEW t \in Task, GetSubscribe(t)
       PROVE  GoodInv'
  BY <1>13 DEF GetSubscribe, Goto, history
<1>14. ASSUME NEW t \in Task, GetCheck(t) \/ ListenCheck(t)
       PROVE  GoodInv'
  BY <1>14 DEF GetCheck, ListenCheck, StreamCheck, Goto, shared, history
<1>15. ASSUME NEW t \in Task, GetStream(t) \/ ListenStream(t)
       PROVE  GoodInv'
  BY <1>15 DEF GetStream, ListenStream, StreamPut, Goto
<1>16. ASSUME NEW t \in Task, NEW k \in PK, ListenBegin(t, k)
       PROVE  GoodInv'
  BY <1>16 DEF ListenBegin, Begin, Goto, shared
<1>17. ASSUME NEW t \in Task, ListenOn(t)
       PROVE  GoodInv'
  BY <1>17 DEF ListenOn, Return, history
<1>18. ASSUME NEW l \in listeners, Off(l)
       PROVE  GoodInv'
  BY <1>18 DEF Off, local, history
<1>19. CASE PeersChange
  BY <1>19 DEF PeersChange, local, history
<1>20. CASE UNCHANGED vars
  BY <1>20 DEF vars, shared, local, history
<1> QED
  BY <1>1, <1>2, <1>3, <1>4, <1>5, <1>6, <1>7, <1>8, <1>9, <1>10, <1>11, <1>12, <1>13,
     <1>14, <1>15, <1>16, <1>17, <1>18, <1>19, <1>20
     DEF Next, Call, SetStep, GetStep, ListenStep

\* No step makes the bucket forget a key, so a Get that began with an entry
\* ends with one.
LEMMA HadStep ==
    TypeOK /\ ArgsInv /\ OpInv /\ HadInv /\ [Next]_vars => HadInv'
<1> SUFFICES ASSUME TypeOK, ArgsInv, OpInv, HadInv, [Next]_vars
             PROVE  HadInv'
  OBVIOUS
<1> USE RegistryAssumption DEF TypeOK, ArgsInv, OpInv, HadInv, GetFindsStored, SetPCs, GetPCs, ListenPCs
<1>1. ASSUME NEW t \in Task, NEW e \in Entry, NEW p \in Peer, SetRejected(t, e, p)
      PROVE  HadInv'
  BY <1>1 DEF SetRejected, Begin, shared
<1>2. ASSUME NEW t \in Task, NEW e \in Entry, NEW p \in Peer, NEW trusted \in BOOLEAN,
             SetAdmitted(t, e, trusted, p)
      PROVE  HadInv'
  BY <1>2 DEF SetAdmitted, Begin, Goto, shared
<1>3. ASSUME NEW t \in Task, SetRead(t)
      PROVE  HadInv'
  BY <1>3 DEF SetRead, Return, Goto, shared, history
<1>4. ASSUME NEW t \in Task, SetEmit(t)
      PROVE  HadInv'
  BY <1>4 DEF SetEmit, Goto, shared, history
<1>5. ASSUME NEW t \in Task, SetPut(t)
      PROVE  HadInv'
  BY <1>5 DEF SetPut, Return, Goto
<1>6. ASSUME NEW t \in Task, BroadcastEntry(t)
      PROVE  HadInv'
  BY <1>6 DEF BroadcastEntry, Return, shared, history
<1>7. ASSUME NEW t \in Task, Emit(t)
      PROVE  HadInv'
  BY <1>7 DEF Emit, shared, history
<1>8. ASSUME NEW t \in Task, NEW k \in PK, NEW p \in Peer \cup {NoPeer}, GetBegin(t, k, p)
      PROVE  HadInv'
  BY <1>8 DEF GetBegin, Begin, Goto, shared
<1>9. ASSUME NEW t \in Task, GetSubs(t)
      PROVE  HadInv'
  BY <1>9 DEF GetSubs, Goto, shared, history
<1>10. ASSUME NEW t \in Task, GetCachedRead(t) \/ GetLastRead(t) \/ GetRead(t)
       PROVE  HadInv'
  BY <1>10 DEF GetCachedRead, GetLastRead, GetRead, GetReturn, DBFailed, Return, Goto, shared, history
<1>11. ASSUME NEW t \in Task, GetPoll(t)
       PROVE  HadInv'
  BY <1>11 DEF GetPoll, GetReturn, DBFailed, Return, shared, history
<1>12. ASSUME NEW t \in Task, GetCachedAsk(t) \/ GetAsk(t) \/ ListenAsk(t)
       PROVE  HadInv'
  BY <1>12 DEF GetCachedAsk, GetAsk, ListenAsk, Goto, shared, history
<1>13. ASSUME NEW t \in Task, GetSubscribe(t)
       PROVE  HadInv'
  BY <1>13 DEF GetSubscribe, Goto, history
<1>14. ASSUME NEW t \in Task, GetCheck(t) \/ ListenCheck(t)
       PROVE  HadInv'
  BY <1>14 DEF GetCheck, ListenCheck, StreamCheck, Goto, shared, history
<1>15. ASSUME NEW t \in Task, GetStream(t) \/ ListenStream(t)
       PROVE  HadInv'
  BY <1>15 DEF GetStream, ListenStream, StreamPut, Goto
<1>16. ASSUME NEW t \in Task, NEW k \in PK, ListenBegin(t, k)
       PROVE  HadInv'
  BY <1>16 DEF ListenBegin, Begin, Goto, shared
<1>17. ASSUME NEW t \in Task, ListenOn(t)
       PROVE  HadInv'
  BY <1>17 DEF ListenOn, Return, history
<1>18. ASSUME NEW l \in listeners, Off(l)
       PROVE  HadInv'
  BY <1>18 DEF Off, local, history
<1>19. CASE PeersChange
  BY <1>19 DEF PeersChange, local, history
<1>20. CASE UNCHANGED vars
  BY <1>20 DEF vars, shared, local, history
<1> QED
  BY <1>1, <1>2, <1>3, <1>4, <1>5, <1>6, <1>7, <1>8, <1>9, <1>10, <1>11, <1>12, <1>13,
     <1>14, <1>15, <1>16, <1>17, <1>18, <1>19, <1>20
     DEF Next, Call, SetStep, GetStep, ListenStep

\* Without overlapping creations a task about to put an emitter finds none, so
\* no callback is left on an emitter that has been replaced.
LEMMA ReachStep ==
    TypeOK /\ ArgsInv /\ ReachInv /\ [Next]_vars => ReachInv'
<1> SUFFICES ASSUME TypeOK, ArgsInv, ReachInv, [Next]_vars
             PROVE  ReachInv'
  OBVIOUS
<1> USE RegistryAssumption DEF TypeOK, ArgsInv, ReachInv, ListenersReachable
<1>1. ASSUME NEW t \in Task, NEW e \in Entry, NEW p \in Peer, SetRejected(t, e, p)
      PROVE  ReachInv'
  BY <1>1 DEF SetRejected, Begin, shared
<1>2. ASSUME NEW t \in Task, NEW e \in Entry, NEW p \in Peer, NEW trusted \in BOOLEAN,
             SetAdmitted(t, e, trusted, p)
      PROVE  ReachInv'
  BY <1>2 DEF SetAdmitted, Begin, Goto, shared
<1>3. ASSUME NEW t \in Task, SetRead(t)
      PROVE  ReachInv'
  BY <1>3 DEF SetRead, Return, Goto, shared, history
<1>4. ASSUME NEW t \in Task, SetEmit(t)
      PROVE  ReachInv'
  BY <1>4 DEF SetEmit, Goto, shared, history
<1>5. ASSUME NEW t \in Task, SetPut(t)
      PROVE  ReachInv'
  BY <1>5 DEF SetPut, Return, Goto
<1>6. ASSUME NEW t \in Task, BroadcastEntry(t)
      PROVE  ReachInv'
  BY <1>6 DEF BroadcastEntry, Return, shared, history
<1>7. ASSUME NEW t \in Task, Emit(t)
      PROVE  ReachInv'
  BY <1>7 DEF Emit, shared, history
<1>8. ASSUME NEW t \in Task, NEW k \in PK, NEW p \in Peer \cup {NoPeer}, GetBegin(t, k, p)
      PROVE  ReachInv'
  BY <1>8 DEF GetBegin, Begin, Goto, shared
<1>9. ASSUME NEW t \in Task, GetSubs(t)
      PROVE  ReachInv'
  BY <1>9 DEF GetSubs, Goto, shared, history
<1>10. ASSUME NEW t \in Task, GetCachedRead(t) \/ GetLastRead(t) \/ GetRead(t)
       PROVE  ReachInv'
  BY <1>10 DEF GetCachedRead, GetLastRead, GetRead, GetReturn, DBFailed, Return, Goto, shared, history
<1>11. ASSUME NEW t \in Task, GetPoll(t)
       PROVE  ReachInv'
  BY <1>11 DEF GetPoll, GetReturn, DBFailed, Return, shared, history
<1>12. ASSUME NEW t \in Task, GetCachedAsk(t) \/ GetAsk(t) \/ ListenAsk(t)
       PROVE  ReachInv'
  BY <1>12 DEF GetCachedAsk, GetAsk, ListenAsk, Goto, shared, history
<1>13. ASSUME NEW t \in Task, GetSubscribe(t)
       PROVE  ReachInv'
  BY <1>13 DEF GetSubscribe, Goto, history
<1>14. ASSUME NEW t \in Task, GetCheck(t) \/ ListenCheck(t)
       PROVE  ReachInv'
  BY <1>14 DEF GetCheck, ListenCheck, StreamCheck, Goto, shared, history
<1>15. ASSUME NEW t \in Task, GetStream(t) \/ ListenStream(t)
       PROVE  ReachInv'
  BY <1>15 DEF GetStream, ListenStream, StreamPut, Goto
<1>16. ASSUME NEW t \in Task, NEW k \in PK, ListenBegin(t, k)
       PROVE  ReachInv'
  BY <1>16 DEF ListenBegin, Begin, Goto, shared
<1>17. ASSUME NEW t \in Task, ListenOn(t)
       PROVE  ReachInv'
  BY <1>17 DEF ListenOn, Return, history
<1>18. ASSUME NEW l \in listeners, Off(l)
       PROVE  ReachInv'
  BY <1>18 DEF Off, local, history
<1>19. CASE PeersChange
  BY <1>19 DEF PeersChange, local, history
<1>20. CASE UNCHANGED vars
  BY <1>20 DEF vars, shared, local, history
<1> QED
  BY <1>1, <1>2, <1>3, <1>4, <1>5, <1>6, <1>7, <1>8, <1>9, <1>10, <1>11, <1>12, <1>13,
     <1>14, <1>15, <1>16, <1>17, <1>18, <1>19, <1>20
     DEF Next, Call, SetStep, GetStep, ListenStep

-----------------------------------------------------------------------------

IndInv == TypeOK /\ ArgsInv /\ OpInv /\ NewerInv /\ KeptInv /\ GoodInv /\ HadInv /\ ReachInv

\* The new service satisfies the inductive invariant.
LEMMA IndInit == Init => IndInv
<1> SUFFICES ASSUME Init PROVE IndInv
  OBVIOUS
<1>1. TypeOK /\ ArgsInv
  BY TypeInit
<1>2. OpInv /\ NewerInv /\ KeptInv /\ GoodInv
  BY DEF Init, OpInv, NewerInv, KeptInv, GoodInv, Vouched, SetPCs, GetPCs, ListenPCs
<1>3. HadInv /\ ReachInv
  BY DEF Init, HadInv, ReachInv, GetFindsStored, ListenersReachable
<1> QED
  BY <1>1, <1>2, <1>3 DEF IndInv

\* IndInv holds in every state of every instance of the service.
THEOREM Invariance == Spec => []IndInv
<1>1. IndInv /\ [Next]_vars => IndInv'
  BY TypeStep, OpStep, NewerStep, KeptStep, GoodStep, HadStep, ReachStep DEF IndInv
<1> QED
  BY IndInit, <1>1, PTL DEF Spec

\* Every variable keeps its type.
THEOREM TypeCorrect == Spec => []TypeOK
<1>1. IndInv => TypeOK
  BY DEF IndInv
<1> QED
  BY <1>1, Invariance, PTL

\* Only entries that passed the checks of Set, or that a local caller vouched
\* for, are kept, sent or returned, whatever the peers send and however the
\* calls interleave.
THEOREM OnlyVouched == Spec => []Vouched
<1>1. IndInv => Vouched
  BY DEF IndInv, GoodInv
<1> QED
  BY <1>1, Invariance, PTL

\* A Set that returned nil left its revision or a later one in the bucket,
\* as long as no race lowered the key.
THEOREM KeepsAccepted == Spec => []AcceptedIsKept
<1>1. IndInv => AcceptedIsKept
  BY DEF IndInv, KeptInv, AcceptedIsKept, AtLeast
<1> QED
  BY <1>1, Invariance, PTL

\* A Get never comes back empty for a key the bucket held when it began.
THEOREM FindsStored == Spec => []GetFindsStored
<1>1. IndInv => GetFindsStored
  BY DEF IndInv, HadInv
<1> QED
  BY <1>1, Invariance, PTL

\* A callback sits on the emitter Set fires unless creations overlapped.
THEOREM ReachesListeners == Spec => []ListenersReachable
<1>1. IndInv => ListenersReachable
  BY DEF IndInv, ReachInv
<1> QED
  BY <1>1, Invariance, PTL

\* No step replaces an entry by one that is not newer, except the Put of a Set
\* that another Put overtook after its read.
THEOREM DropsOnlyInRace == Spec => RevisionDropsOnlyInRace
<1> DEFINE Drop(k) == store[k] # NoEntry /\ store'[k] # store[k] /\ ~ Newer(store'[k], store[k])
           Overtaken(k) == \E t \in Task : pc[t] = "setPut" /\ key[t] = k /\ raced[t]
<1>1. IndInv /\ [Next]_vars => [\A k \in PK : Drop(k) => Overtaken(k)]_vars
  <2> SUFFICES ASSUME IndInv, Next, NEW k \in PK, Drop(k)
               PROVE  Overtaken(k)
    OBVIOUS
  <2> USE DEF IndInv, TypeOK, ArgsInv, NewerInv, SetPCs
  <2>1. PICK t \in Task : SetPut(t)
    <3>1. store' # store
      OBVIOUS
    <3> QED
      BY <3>1 DEF Next, Call, SetStep, GetStep, ListenStep, SetRejected, SetAdmitted, Begin,
                  SetRead, SetEmit, BroadcastEntry, Emit, GetBegin, GetSubs, GetCachedRead,
                  GetCachedAsk, GetLastRead, GetAsk, GetSubscribe, GetCheck, StreamCheck,
                  GetStream, StreamPut, GetRead, GetPoll, ListenBegin, ListenCheck,
                  ListenStream, ListenAsk, ListenOn, Off, PeersChange, shared
  <2>2. key[t] = k /\ store'[k] = ent[t] /\ pc[t] = "setPut"
    BY <2>1 DEF SetPut
  <2>3. raced[t]
    BY <2>2
  <2> QED
    BY <2>2, <2>3
<1> QED
  BY <1>1, Invariance, PTL DEF Spec, RevisionDropsOnlyInRace

-----------------------------------------------------------------------------
(* One caller at a time *)

OneCaller == \A t, u \in Task : t = u

NoRace == \A t \in Task : ~ raced[t]

\* Without a second caller no Put comes between a Set's read and its Put.
LEMMA NoRaceStep ==
    ASSUME OneCaller, TypeOK, NoRace, [Next]_vars
    PROVE  NoRace'
<1> USE DEF TypeOK, NoRace
<1>1. CASE UNCHANGED raced
  BY <1>1
<1>2. ASSUME NEW t \in Task, raced' = [raced EXCEPT ![t] = FALSE] PROVE NoRace'
  BY <1>2
<1>3. ASSUME NEW t \in Task, SetPut(t) PROVE NoRace'
  <2>1. \/ raced' = [u \in Task |-> raced[u] \/ (u # t /\ pc[u] \in {"setEmit", "setPut"}
                                                       /\ key[u] = ent[t].pk)]
        \/ UNCHANGED raced
    BY <1>3 DEF SetPut
  <2> QED
    BY <2>1 DEF OneCaller
<1> QED
  BY <1>1, <1>2, <1>3
  DEF Next, Call, SetStep, GetStep, ListenStep, SetRejected, SetAdmitted, Begin,
      SetRead, SetEmit, BroadcastEntry, Emit, GetBegin, GetSubs, GetCachedRead,
      GetCachedAsk, GetLastRead, GetAsk, GetSubscribe, GetCheck, StreamCheck,
      GetStream, StreamPut, GetRead, GetPoll, ListenBegin, ListenCheck, ListenStream,
      ListenAsk, ListenOn, Off, PeersChange, GetReturn, DBFailed, Return, history, vars

\* With one caller, whatever the peers answer and whatever fails, no entry is
\* lost and no stored revision goes down.
THEOREM OneCallerKeepsRevisions == ASSUME OneCaller PROVE Spec => RevisionNeverLowered
<1> DEFINE Lower(k) == store[k] # NoEntry => store'[k] # NoEntry /\ store'[k].rev >= store[k].rev
<1>1. Init => NoRace
  BY DEF Init, NoRace
<1>2. IndInv /\ NoRace /\ [Next]_vars => NoRace'
  BY NoRaceStep DEF IndInv
<1>3. IndInv /\ NoRace /\ [Next]_vars => [\A k \in PK : Lower(k)]_vars
  <2> SUFFICES ASSUME IndInv, NoRace, Next, NEW k \in PK PROVE Lower(k)
    OBVIOUS
  <2>1. CASE store' = store
    <3>1. store[k] # NoEntry => store[k].rev \in Nat
      BY RegistryAssumption DEF IndInv, TypeOK, Entry, Revision
    <3> QED
      BY <2>1, <3>1
  <2>2. CASE store' # store
    <3> USE DEF IndInv, TypeOK, ArgsInv, NewerInv, SetPCs
    <3>1. PICK t \in Task : SetPut(t)
      BY <2>2 DEF Next, Call, SetStep, GetStep, ListenStep, SetRejected, SetAdmitted, Begin,
                  SetRead, SetEmit, BroadcastEntry, Emit, GetBegin, GetSubs, GetCachedRead,
                  GetCachedAsk, GetLastRead, GetAsk, GetSubscribe, GetCheck, StreamCheck,
                  GetStream, StreamPut, GetRead, GetPoll, ListenBegin, ListenCheck,
                  ListenStream, ListenAsk, ListenOn, Off, PeersChange, shared
    <3>2. pc[t] = "setPut" /\ store' = [store EXCEPT ![key[t]] = ent[t]]
      BY <2>2, <3>1 DEF SetPut
    <3>3. ~ raced[t]
      BY DEF NoRace
    <3>4. Newer(ent[t], store[key[t]]) /\ ent[t] \in Entry /\ ent[t] # NoEntry
      BY <3>2, <3>3, RegistryAssumption
    <3>5. ent[t].rev \in Nat /\ (store[k] # NoEntry => store[k].rev \in Nat)
      BY <3>4, RegistryAssumption DEF Entry, Revision
    <3> QED
      BY <3>2, <3>4, <3>5 DEF Newer
  <2> QED
    BY <2>1, <2>2
<1> QED
  BY <1>1, <1>2, <1>3, Invariance, PTL DEF Spec, RevisionNeverLowered
=============================================================================
