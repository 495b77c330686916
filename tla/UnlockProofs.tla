----------------------------- MODULE UnlockProofs -----------------------------
(* Theorems about the administrator's credentials and the keyring, for every *)
(* number of requests and all bounds.                                        *)
EXTENDS Unlock, FiniteSetTheorems, TLAPS

\* While the server is down it knows nothing; a key in memory is the row's.
MemoryOK ==
  /\ ~up => keyring = 0 /\ \A r \in Requests : phase[r] = "idle"
  /\ KeyringFitsRow

\* Between the read and the transaction.
Underway == {"sealing", "minting", "committing"}

\* A login knows the data key of the row, and so does whoever has committed; a
\* set-up has some key; what is about to be committed is sealed with the file.
RequestOK(r) ==
  /\ phase[r] = "unlocking" => Initialized /\ request[r].key = admin.key
  /\ phase[r] = "checking" => ~request[r].setup
  /\ phase[r] \in Underway \cup {"checking"} /\ ~request[r].setup =>
       Initialized /\ request[r].key = admin.key
  /\ phase[r] \in Underway /\ request[r].setup => request[r].key # 0
  /\ phase[r] = "committing" /\ ~collided =>
       keyFile # 0 /\ request[r].seal = keyFile

\* The codes used since the last restore are those up to the row's last step.
UsedOK ==
  /\ IsFiniteSet(used) /\ OneSessionPerCode
  /\ \A u \in used : u[1] <= restores
  /\ \A u \in used : u[1] = restores => Initialized /\ u[3] <= admin.step

UnlockIInv ==
  /\ UnlockTypeOK /\ MemoryOK
  /\ \A r \in Requests : RequestOK(r)
  /\ UsedOK /\ RestartUnlocks
-----------------------------------------------------------------------------
(* Types.                                                                    *)

\* Types, split into those of the requests and those of everything else.
Asked == [setup : BOOLEAN, key : DataKeys, step : Steps, seal : NodeKeys]

CallTypes ==
  /\ phase \in [Requests -> Phases]
  /\ request \in [Requests -> Asked]

ServerTypes ==
  /\ admin \in Rows /\ sessions \subseteq 1..opened
  /\ copy.admin \in Rows /\ copy.sessions \subseteq 1..opened
  /\ keyFile \in NodeKeys /\ up \in BOOLEAN /\ keyring \in DataKeys /\ challenge \in DataKeys
  /\ clock \in 1..MaxClock /\ dataKeys \in DataKeys /\ nodeKeys \in NodeKeys
  /\ opened \in Nat
  /\ used \subseteq (0..MaxRestores) \X DataKeys \X Steps
  /\ restores \in 0..MaxRestores /\ lost \in BOOLEAN /\ collided \in BOOLEAN

LEMMA UnlockTyping == UnlockTypeOK <=> CallTypes /\ ServerTypes
BY DEF UnlockTypeOK, CallTypes, ServerTypes, Asked

\* What a request holds at rest has the type of a request.
LEMMA NoRequestType == NoRequest \in Asked
BY UnlockConstants DEF NoRequest, Asked, DataKeys, NodeKeys, Steps

\* A request that goes to a phase with something to remember keeps its types.
LEMMA Answering ==
  ASSUME CallTypes, NEW r \in Requests
  PROVE  /\ \A p \in Phases, q \in Asked :
               Turn(r, p) /\ request' = [request EXCEPT ![r] = q] => CallTypes'
         /\ \A p \in Phases : Turn(r, p) /\ UNCHANGED request => CallTypes'
         /\ Reject(r) => CallTypes'
<1>1. ASSUME NEW p \in Phases, NEW q \in Asked,
             Turn(r, p), request' = [request EXCEPT ![r] = q]
      PROVE  CallTypes'
  BY <1>1 DEF CallTypes, Turn
<1>2. ASSUME NEW p \in Phases, Turn(r, p), UNCHANGED request
      PROVE  CallTypes'
  BY <1>2 DEF CallTypes, Turn
<1>3. Reject(r) => CallTypes'
  BY NoRequestType DEF CallTypes, Reject, Turn, Phases
<1> QED BY <1>1, <1>2, <1>3

\* No action of a request leaves the types of the requests.
LEMMA RequestKeepsCalls ==
  ASSUME CallTypes, ServerTypes, NEW r \in Requests, HandleRequest(r)
  PROVE  CallTypes'
<1>1. CASE BeginSetup(r)
  BY <1>1, Answering DEF BeginSetup, Phases
<1>2. CASE StartSetup(r) \/ UnlockKeyring(r)
  BY <1>2, Answering DEF StartSetup, UnlockKeyring
<1>3. CASE TakeChallenge(r)
  <2>1. PICK s \in 1..MaxClock + 1 :
          request' = [request EXCEPT ![r] = [setup |-> TRUE, key |-> challenge,
                                             step |-> s, seal |-> 0]]
    BY <1>3 DEF TakeChallenge
  <2>2. [setup |-> TRUE, key |-> challenge, step |-> s, seal |-> 0] \in Asked
    <3>1. challenge \in DataKeys /\ s \in Steps /\ 0 \in NodeKeys
      BY <2>1, UnlockConstants DEF ServerTypes, NodeKeys, Steps
    <3> QED BY <3>1 DEF Asked
  <2> QED BY <1>3, <2>1, <2>2, Answering DEF TakeChallenge, Phases
<1>4. CASE ReadAdmin(r)
  <2> DEFINE read == [NoRequest EXCEPT !.key = admin.key]
             q == [read EXCEPT !.step = admin.step]
  <2>1. admin.key \in DataKeys /\ admin.step \in Steps
    BY DEF ServerTypes, Rows
  <2>2. read \in Asked
    BY <2>1, NoRequestType DEF Asked
  <2>3. request' = [request EXCEPT ![r] = q] /\ Turn(r, "checking")
    BY <1>4 DEF ReadAdmin
  <2> HIDE DEF read
  <2>4. q \in Asked
    BY <2>1, <2>2 DEF Asked
  <2> HIDE DEF q
  <2> QED BY <2>3, <2>4, Answering DEF Phases
<1>5. CASE VerifyLogin(r)
  <2>1. ASSUME NEW s \in 1..MaxClock + 1, request' = [request EXCEPT ![r].step = s],
               Turn(r, "sealing")
        PROVE  CallTypes'
    <3>1. s \in Steps
      BY UnlockConstants DEF Steps
    <3>2. [request[r] EXCEPT !.step = s] \in Asked
      BY <3>1 DEF CallTypes, Asked
    <3> QED BY <2>1, <3>2, Answering DEF Phases
  <2> QED BY <1>5, <2>1, Answering DEF VerifyLogin
<1>6. CASE ReadNodeKey(r)
  <2>1. [request[r] EXCEPT !.seal = keyFile] \in Asked
    BY DEF CallTypes, ServerTypes, Asked
  <2> QED BY <1>6, <2>1, Answering DEF ReadNodeKey, Phases
<1>7. CASE WriteNodeKey(r)
  <2>1. ASSUME nodeKeys < MaxNodeKeys
        PROVE  [request[r] EXCEPT !.seal = nodeKeys + 1] \in Asked
    <3>1. nodeKeys + 1 \in NodeKeys
      BY <2>1, UnlockConstants DEF ServerTypes, NodeKeys
    <3> QED BY <3>1 DEF CallTypes, Asked
  <2>2. nodeKeys < MaxNodeKeys /\ Turn(r, "committing")
        /\ request' = [request EXCEPT ![r].seal = nodeKeys + 1] => CallTypes'
    BY <2>1, Answering DEF Phases
  <2> QED BY <1>7, <2>2, Answering DEF WriteNodeKey
<1>8. CASE Commit(r)
  BY <1>8, Answering DEF Commit, Phases
<1> QED BY <1>1, <1>2, <1>3, <1>4, <1>5, <1>6, <1>7, <1>8 DEF HandleRequest

\* Nor those of the server.
LEMMA RequestKeepsServer ==
  ASSUME CallTypes, ServerTypes, NEW r \in Requests, HandleRequest(r)
  PROVE  ServerTypes'
<1>1. CASE BeginSetup(r) \/ ReadAdmin(r) \/ VerifyLogin(r) \/ ReadNodeKey(r)
  BY <1>1 DEF BeginSetup, ReadAdmin, VerifyLogin, ReadNodeKey, ServerTypes, store,
              memory, world, history
<1>2. CASE StartSetup(r)
  BY <1>2, UnlockConstants DEF StartSetup, ServerTypes, DataKeys, store, history
<1>3. CASE TakeChallenge(r)
  BY <1>3, UnlockConstants
  DEF TakeChallenge, ServerTypes, DataKeys, store, world, history
<1>4. CASE WriteNodeKey(r)
  <2>1. keyFile' \in NodeKeys /\ nodeKeys' \in NodeKeys
    BY <1>4, UnlockConstants DEF WriteNodeKey, ServerTypes, NodeKeys
  <2>2. collided' \in BOOLEAN
    BY <1>4 DEF WriteNodeKey, ServerTypes
  <2> QED BY <1>4, <2>1, <2>2 DEF WriteNodeKey, ServerTypes, memory
<1>5. CASE Commit(r)
  <2>1. CASE UNCHANGED <<admin, sessions, opened, used, lost>>
    BY <1>5, <2>1 DEF Commit, ServerTypes, memory, world
  <2>2. CASE ~UNCHANGED <<admin, sessions, opened, used, lost>>
    <3>1. /\ admin' = [key    |-> IF request[r].setup THEN request[r].key ELSE admin.key,
                       cipher |-> request[r].seal, step |-> request[r].step]
          /\ opened' = opened + 1 /\ sessions' = sessions \cup {opened + 1}
          /\ used' = used \cup {<<restores, admin'.key, request[r].step>>}
          /\ lost' = FALSE
          /\ UNCHANGED <<keyFile, up, keyring, challenge, copy, clock, dataKeys,
                         nodeKeys, restores, collided>>
      BY <1>5, <2>2 DEF Commit, memory, world
    <3>2. request[r] \in Asked
      BY DEF CallTypes
    <3>3. admin' \in Rows
      BY <3>1, <3>2 DEF ServerTypes, Rows, Asked
    <3>4. opened' \in Nat /\ sessions' \subseteq 1..opened' /\ copy.sessions \subseteq 1..opened'
      <4>1. /\ opened \in Nat /\ sessions \subseteq 1..opened
            /\ copy.sessions \subseteq 1..opened
        BY DEF ServerTypes
      <4>2. opened + 1 \in Nat /\ opened + 1 \in 1..(opened + 1)
        BY <4>1
      <4>3. \A n \in 1..opened : n \in 1..(opened + 1)
        BY <4>1
      <4>4. opened' = opened + 1 /\ sessions' = sessions \cup {opened + 1} /\ copy' = copy
        BY <3>1
      <4>5. opened + 1 \in Nat /\ sessions \cup {opened + 1} \subseteq 1..(opened + 1)
        BY <4>1, <4>2, <4>3, Zenon
      <4>6. copy.sessions \subseteq 1..(opened + 1)
        BY <4>1, <4>3, Zenon
      <4> QED BY <4>4, <4>5, <4>6, Zenon
    <3>5. used' \subseteq (0..MaxRestores) \X DataKeys \X Steps
      BY <3>1, <3>2, <3>3 DEF ServerTypes, Rows, Asked
    <3> QED BY <3>1, <3>3, <3>4, <3>5 DEF ServerTypes
  <2> QED BY <2>1, <2>2
<1>6. CASE UnlockKeyring(r)
  <2>1. request[r].key \in DataKeys
    BY DEF CallTypes, Asked
  <2> QED BY <1>6, <2>1 DEF UnlockKeyring, ServerTypes, store, world, history
<1> QED BY <1>1, <1>2, <1>3, <1>4, <1>5, <1>6 DEF HandleRequest

\* What happens to the server and to its volume, requests apart.
Outside ==
  \/ \E n \in sessions : Logout(n)
  \/ ChallengeExpires \/ Boot \/ ServerStops \/ NodeKeyLost \/ BackUp \/ RestoreCopy \/ Tick

\* Nothing else leaves the types either.
LEMMA OutsideKeepsTypes ==
  ASSUME CallTypes, ServerTypes, Outside
  PROVE  CallTypes' /\ ServerTypes'
<1>1. CASE \E n \in sessions : Logout(n)
  BY <1>1 DEF Logout, CallTypes, ServerTypes, memory, calls, world, history
<1>2. CASE ChallengeExpires
  BY <1>2, UnlockConstants
  DEF ChallengeExpires, CallTypes, ServerTypes, DataKeys, store, calls, world, history
<1>3. CASE Boot
  <2>1. keyring' \in DataKeys
    BY <1>3, UnlockConstants DEF Boot, AutoUnlock, ServerTypes, Rows, DataKeys
  <2>2. sessions' \subseteq 1..opened
    BY <1>3 DEF Boot, ValidateStartup, ServerTypes
  <2> QED BY <1>3, <2>1, <2>2 DEF Boot, CallTypes, ServerTypes, calls, world, history
<1>4. CASE ServerStops
  <2>1. CallTypes'
    <3>1. phase' \in [Requests -> Phases]
      BY <1>4 DEF ServerStops, Phases
    <3>2. request' \in [Requests -> Asked]
      BY <1>4, NoRequestType DEF ServerStops
    <3> QED BY <3>1, <3>2 DEF CallTypes
  <2>2. keyring' \in DataKeys /\ challenge' \in DataKeys
    BY <1>4, UnlockConstants DEF ServerStops, DataKeys
  <2>3. up' \in BOOLEAN
    BY <1>4 DEF ServerStops
  <2> QED BY <1>4, <2>1, <2>2, <2>3 DEF ServerStops, ServerTypes, store, world, history
<1>5. CASE NodeKeyLost
  BY <1>5, UnlockConstants
  DEF NodeKeyLost, CallTypes, ServerTypes, NodeKeys, memory, calls, world
<1>6. CASE BackUp
  BY <1>6 DEF BackUp, CallTypes, ServerTypes, store, memory, calls, history
<1>7. CASE RestoreCopy
  BY <1>7, UnlockConstants DEF RestoreCopy, CallTypes, ServerTypes, memory, calls
<1>8. CASE Tick
  BY <1>8, UnlockConstants DEF Tick, CallTypes, ServerTypes, store, memory, calls, history
<1> QED BY <1>1, <1>2, <1>3, <1>4, <1>5, <1>6, <1>7, <1>8 DEF Outside

\* Types hold in every behaviour (needed by everything below).
LEMMA UnlockTypesStep ==
  ASSUME UnlockTypeOK, [UnlockNext]_unlockVars
  PROVE  UnlockTypeOK'
<1>1. CallTypes /\ ServerTypes
  BY UnlockTyping
<1>2. CallTypes' /\ ServerTypes'
  <2>1. ASSUME NEW r \in Requests, HandleRequest(r) PROVE CallTypes' /\ ServerTypes'
    BY <1>1, <2>1, RequestKeepsCalls, RequestKeepsServer
  <2>2. CASE Outside
    BY <1>1, <2>2, OutsideKeepsTypes
  <2>3. CASE UNCHANGED unlockVars
    BY <1>1, <2>3
    DEF CallTypes, ServerTypes, unlockVars, store, memory, calls, world, history
  <2> QED BY <2>1, <2>2, <2>3 DEF UnlockNext, Outside
<1> QED BY <1>2 DEF UnlockTypeOK, CallTypes, ServerTypes, Asked
-----------------------------------------------------------------------------
(* The inductive step, one lemma per conjunct.                               *)

\* The server forgets everything when it stops; a key in memory stays the row's.
LEMMA MemoryStep ==
  ASSUME UnlockIInv, [UnlockNext]_unlockVars
  PROVE  MemoryOK'
<1> USE DEF MemoryOK, KeyringFitsRow, Initialized
<1>1. /\ ~up => keyring = 0 /\ \A r \in Requests : phase[r] = "idle"
      /\ keyring # 0 => admin.key # 0 /\ keyring = admin.key
      /\ phase \in [Requests -> Phases]
  BY DEF UnlockIInv, UnlockTypeOK
<1>2. ASSUME NEW r \in Requests,
             BeginSetup(r) \/ StartSetup(r) \/ TakeChallenge(r) \/ ReadAdmin(r)
             \/ VerifyLogin(r) \/ ReadNodeKey(r) \/ WriteNodeKey(r)
      PROVE  MemoryOK'
  <2>1. UNCHANGED <<up, keyring, admin>> /\ up
    BY <1>1, <1>2 DEF BeginSetup, StartSetup, TakeChallenge, ReadAdmin, VerifyLogin,
       ReadNodeKey, WriteNodeKey, store, memory
  <2> QED BY <1>1, <2>1
<1>3. ASSUME NEW r \in Requests, Commit(r) PROVE MemoryOK'
  <2>1. UNCHANGED <<up, keyring>> /\ up
    BY <1>1, <1>3 DEF Commit, memory
  <2>2. keyring # 0 => admin'.key = admin.key
    BY <1>1, <1>3 DEF Commit, FactorIsNew
  <2> QED BY <1>1, <2>1, <2>2
<1>4. ASSUME NEW r \in Requests, UnlockKeyring(r) PROVE MemoryOK'
  <2>1. admin.key # 0 /\ request[r].key = admin.key /\ up
    BY <1>1, <1>4 DEF UnlockKeyring, UnlockIInv, RequestOK
  <2> QED BY <1>1, <1>4, <2>1 DEF UnlockKeyring, store
<1>5. CASE Outside
  <2>1. CASE Boot
    BY <2>1 DEF Boot, AutoUnlock, ValidateStartup
  <2>2. CASE ServerStops
    BY <2>2 DEF ServerStops
  <2>3. CASE RestoreCopy
    BY <1>1, <2>3 DEF RestoreCopy, memory, calls
  <2>4. CASE (\E n \in sessions : Logout(n)) \/ ChallengeExpires \/ NodeKeyLost
             \/ BackUp \/ Tick
    BY <1>1, <2>4
    DEF Logout, ChallengeExpires, NodeKeyLost, BackUp, Tick, store, memory, calls
  <2> QED BY <1>5, <2>1, <2>2, <2>3, <2>4 DEF Outside
<1>6. CASE UNCHANGED unlockVars
  BY <1>1, <1>6 DEF unlockVars, store, memory, calls
<1> QED BY <1>2, <1>3, <1>4, <1>5, <1>6 DEF UnlockNext, HandleRequest, Outside

\* What another request does leaves a request as good as it was.
LEMMA OthersRequests ==
  ASSUME UnlockIInv, NEW r \in Requests, HandleRequest(r), NEW q \in Requests \ {r}
  PROVE  RequestOK(q)'
<1>1. phase'[q] = phase[q] /\ request'[q] = request[q]
  BY DEF UnlockIInv, UnlockTypeOK, HandleRequest, BeginSetup, StartSetup, TakeChallenge,
     ReadAdmin, VerifyLogin, ReadNodeKey, WriteNodeKey, Commit, UnlockKeyring, Turn, Reject
<1>2. RequestOK(q)
  BY DEF UnlockIInv
<1>3. CASE UNCHANGED <<admin, keyFile, collided>>
  BY <1>1, <1>2, <1>3 DEF RequestOK, Initialized, Underway
<1>4. CASE WriteNodeKey(r)
  BY <1>1, <1>2, <1>4 DEF WriteNodeKey, RequestOK, Initialized, Underway
<1>5. CASE Commit(r)
  <2>1. UNCHANGED <<keyFile, collided>>
    BY <1>5 DEF Commit
  <2>2. Initialized => Initialized' /\ admin'.key = admin.key
    BY <1>5 DEF Commit, FactorIsNew, Initialized
  <2> QED BY <1>1, <1>2, <2>1, <2>2 DEF RequestOK, Underway
<1> QED
  BY <1>3, <1>4, <1>5 DEF HandleRequest, BeginSetup, StartSetup, TakeChallenge,
     ReadAdmin, VerifyLogin, ReadNodeKey, UnlockKeyring, store, world, history

\* What a request does keeps it right.
LEMMA OwnRequest ==
  ASSUME UnlockIInv, NEW r \in Requests, HandleRequest(r)
  PROVE  RequestOK(r)'
<1> USE DEF RequestOK, Underway, Initialized, Turn
<1>1. phase \in [Requests -> Phases] /\ request \in [Requests -> Asked] /\ nodeKeys \in Nat
  BY DEF UnlockIInv, UnlockTypeOK, Asked, NodeKeys
<1>2. RequestOK(r)
  BY DEF UnlockIInv
<1>3. ASSUME Reject(r) PROVE RequestOK(r)'
  BY <1>1, <1>3 DEF Reject
<1>4. CASE BeginSetup(r)
  BY <1>1, <1>4 DEF BeginSetup
<1>5. CASE StartSetup(r) \/ UnlockKeyring(r)
  BY <1>3, <1>5 DEF StartSetup, UnlockKeyring
<1>6. CASE TakeChallenge(r)
  BY <1>1, <1>6 DEF TakeChallenge
<1>7. CASE ReadAdmin(r)
  <2>1. request'[r].setup = FALSE /\ request'[r].key = admin.key
    BY <1>1, <1>7 DEF ReadAdmin, NoRequest
  <2>2. phase'[r] = "checking" /\ admin' = admin /\ admin.key # 0
    BY <1>1, <1>7 DEF ReadAdmin, store
  <2> QED BY <2>1, <2>2
<1>8. CASE VerifyLogin(r)
  <2>1. ASSUME NEW s \in 1..MaxClock + 1, request' = [request EXCEPT ![r].step = s],
               Turn(r, "sealing")
        PROVE  RequestOK(r)'
    <3>1. request'[r].setup = request[r].setup /\ request'[r].key = request[r].key
      BY <1>1, <2>1 DEF Asked
    <3>2. phase'[r] = "sealing" /\ admin' = admin /\ phase[r] = "checking"
      BY <1>1, <1>8, <2>1 DEF VerifyLogin, store
    <3> QED BY <1>2, <3>1, <3>2
  <2> QED BY <1>3, <1>8, <2>1 DEF VerifyLogin
<1>9. CASE ReadNodeKey(r)
  <2>1. UNCHANGED <<admin, keyFile>> /\ phase[r] = "sealing"
    BY <1>9 DEF ReadNodeKey, store
  <2>2. ASSUME keyFile # 0, Turn(r, "committing"),
               request' = [request EXCEPT ![r].seal = keyFile]
        PROVE  RequestOK(r)'
    <3>1. /\ request'[r].setup = request[r].setup /\ request'[r].key = request[r].key
          /\ request'[r].seal = keyFile /\ phase'[r] = "committing"
      BY <1>1, <2>2 DEF Asked
    <3> QED BY <1>2, <2>1, <2>2, <3>1
  <2>3. ASSUME Turn(r, "minting"), UNCHANGED request
        PROVE  RequestOK(r)'
    <3>1. phase'[r] = "minting" /\ request'[r] = request[r]
      BY <1>1, <2>3
    <3> QED BY <1>2, <2>1, <3>1
  <2> QED BY <1>3, <1>9, <2>2, <2>3 DEF ReadNodeKey
<1>10. CASE WriteNodeKey(r)
  <2>1. ASSUME Turn(r, "committing"), keyFile' = nodeKeys + 1,
               request' = [request EXCEPT ![r].seal = nodeKeys + 1]
        PROVE  RequestOK(r)'
    <3>1. /\ request'[r].setup = request[r].setup /\ request'[r].key = request[r].key
          /\ request'[r].seal = nodeKeys + 1 /\ phase'[r] = "committing"
      BY <1>1, <2>1 DEF Asked
    <3>2. nodeKeys + 1 # 0
      BY <1>1
    <3>3. admin' = admin /\ phase[r] = "minting"
      BY <1>10 DEF WriteNodeKey
    <3> QED BY <1>2, <2>1, <3>1, <3>2, <3>3
  <2> QED BY <1>3, <1>10, <2>1 DEF WriteNodeKey
<1>11. CASE Commit(r)
  <2>1. ASSUME FactorIsNew(r), Turn(r, "unlocking"), UNCHANGED request,
               admin' = [key    |-> IF request[r].setup THEN request[r].key ELSE admin.key,
                         cipher |-> request[r].seal, step |-> request[r].step]
        PROVE  RequestOK(r)'
    <3>1. phase'[r] = "unlocking" /\ request'[r] = request[r]
      BY <1>1, <2>1
    <3>2. request[r].key # 0 /\ admin'.key = request[r].key
      BY <1>2, <1>11, <2>1 DEF Commit, FactorIsNew
    <3> QED BY <3>1, <3>2
  <2> QED BY <1>3, <1>11, <2>1 DEF Commit
<1> QED
  BY <1>4, <1>5, <1>6, <1>7, <1>8, <1>9, <1>10, <1>11 DEF HandleRequest

\* Nor does anything outside disturb a request.
LEMMA RequestsStep ==
  ASSUME UnlockIInv, [UnlockNext]_unlockVars, NEW q \in Requests
  PROVE  RequestOK(q)'
<1>1. ASSUME NEW r \in Requests, HandleRequest(r) PROVE RequestOK(q)'
  BY <1>1, OthersRequests, OwnRequest
<1>2. CASE Outside
  <2> USE DEF RequestOK, Underway, Initialized
  <2>1. CASE ServerStops
    BY <2>1 DEF ServerStops
  <2>2. CASE NodeKeyLost \/ RestoreCopy
    <3>1. phase'[q] = "idle"
      BY <2>2 DEF NodeKeyLost, RestoreCopy, UnlockIInv, MemoryOK, calls
    <3> QED BY <3>1
  <2>3. CASE (\E n \in sessions : Logout(n)) \/ ChallengeExpires \/ Boot \/ BackUp \/ Tick
    <3>1. UNCHANGED <<admin, keyFile, collided, phase, request>>
      BY <2>3 DEF Logout, ChallengeExpires, Boot, BackUp, Tick, store, calls, history
    <3> QED BY <3>1 DEF UnlockIInv
  <2> QED BY <1>2, <2>1, <2>2, <2>3 DEF Outside
<1>3. CASE UNCHANGED unlockVars
  BY <1>3 DEF UnlockIInv, RequestOK, Underway, Initialized, unlockVars, store, calls, history
<1> QED BY <1>1, <1>2, <1>3 DEF UnlockNext, Outside

\* The transaction takes only a code later than all those it has taken.
LEMMA UsedStep ==
  ASSUME UnlockIInv, [UnlockNext]_unlockVars
  PROVE  UsedOK'
<1> USE DEF UsedOK, OneSessionPerCode, Initialized
<1>1. UsedOK /\ opened \in Nat /\ restores \in Nat
  BY UnlockConstants DEF UnlockIInv, UnlockTypeOK
<1>2. ASSUME NEW r \in Requests, Commit(r) PROVE UsedOK'
  <2>1. CASE UNCHANGED <<admin, sessions, opened, used, lost>>
    BY <1>1, <1>2, <2>1 DEF Commit, world
  <2>2. CASE ~UNCHANGED <<admin, sessions, opened, used, lost>>
    <3> DEFINE u == <<restores, admin'.key, request[r].step>>
    <3>1. /\ FactorIsNew(r) /\ opened' = opened + 1 /\ restores' = restores
          /\ used' = used \cup {u} /\ admin'.step = request[r].step
          /\ admin'.key = IF request[r].setup THEN request[r].key ELSE admin.key
      BY <1>2, <2>2 DEF Commit, world
    <3>2. request[r].step \in Nat /\ admin.step \in Nat
          /\ \A v \in used : v[3] \in Nat
      BY DEF UnlockIInv, UnlockTypeOK, Rows, Steps
    <3>3. admin'.key # 0
      BY <1>2, <3>1 DEF UnlockIInv, RequestOK, Underway, Commit, FactorIsNew
    <3>4. \A v \in used : v[1] = restores => v[3] < request[r].step
      BY <1>1, <3>1, <3>2 DEF FactorIsNew, UnlockIInv, RequestOK, Underway
    <3>5. u \notin used
      BY <3>2, <3>4
    <3>6. IsFiniteSet(used') /\ Cardinality(used') = Cardinality(used) + 1
      BY <1>1, <3>1, <3>5, FS_AddElement
    <3>7. \A v \in used' : v[1] <= restores /\ (v[1] = restores => v[3] <= admin'.step)
      BY <1>1, <3>1, <3>2, <3>4
    <3> QED BY <1>1, <3>1, <3>3, <3>6, <3>7
  <2> QED BY <2>1, <2>2
<1>3. CASE RestoreCopy
  <2>1. restores' = restores + 1 /\ UNCHANGED <<used, opened>>
    BY <1>3 DEF RestoreCopy
  <2>2. \A v \in used : v[1] \in Nat /\ v[1] < restores'
    BY <1>1, <2>1, UnlockConstants DEF UnlockIInv, UnlockTypeOK
  <2> QED BY <1>1, <2>1, <2>2
<1>4. CASE UNCHANGED <<used, opened, restores, admin>>
  BY <1>1, <1>4
<1> QED
  <2>1. CASE Outside
    BY <2>1, <1>3, <1>4 DEF Outside, Logout, ChallengeExpires, Boot, ServerStops,
       NodeKeyLost, BackUp, Tick, store, world, history
  <2>2. ASSUME NEW r \in Requests, HandleRequest(r) PROVE UsedOK'
    BY <2>2, <1>2, <1>4 DEF HandleRequest, BeginSetup, StartSetup, TakeChallenge,
       ReadAdmin, VerifyLogin, ReadNodeKey, WriteNodeKey, UnlockKeyring, store, world, history
  <2>3. CASE UNCHANGED unlockVars
    BY <2>3, <1>4 DEF unlockVars, store, world, history
  <2> QED BY <2>1, <2>2, <2>3 DEF UnlockNext, Outside

\* Who commits has sealed with the file, unless the file changed under it.
LEMMA RestartStep ==
  ASSUME UnlockIInv, [UnlockNext]_unlockVars
  PROVE  RestartUnlocks'
<1> USE DEF RestartUnlocks
<1>1. RestartUnlocks
  BY DEF UnlockIInv
<1>2. ASSUME NEW r \in Requests, Commit(r) PROVE RestartUnlocks'
  <2>1. ~collided => keyFile # 0 /\ request[r].seal = keyFile
    BY <1>2 DEF UnlockIInv, RequestOK, Commit
  <2> QED BY <1>1, <1>2, <2>1 DEF Commit
<1>3. ASSUME NEW r \in Requests, WriteNodeKey(r) PROVE RestartUnlocks'
  BY <1>1, <1>3 DEF WriteNodeKey
<1>4. CASE NodeKeyLost \/ RestoreCopy
  BY <1>4 DEF NodeKeyLost, RestoreCopy
<1>5. CASE UNCHANGED <<admin, keyFile, lost, collided>>
  BY <1>1, <1>5
<1> QED
  <2>1. CASE Outside
    BY <2>1, <1>4, <1>5 DEF Outside, Logout, ChallengeExpires, Boot, ServerStops,
       BackUp, Tick, store, history
  <2>2. ASSUME NEW r \in Requests, HandleRequest(r) PROVE RestartUnlocks'
    BY <2>2, <1>2, <1>3, <1>5 DEF HandleRequest, BeginSetup, StartSetup, TakeChallenge,
       ReadAdmin, VerifyLogin, ReadNodeKey, UnlockKeyring, store, history
  <2>3. CASE UNCHANGED unlockVars
    BY <2>3, <1>5 DEF unlockVars, store, history
  <2> QED BY <2>1, <2>2, <2>3 DEF UnlockNext, Outside
-----------------------------------------------------------------------------
(* Theorems.                                                                 *)

\* The invariant holds at the start.
LEMMA UnlockInitIInv == UnlockInit => UnlockIInv
<1> SUFFICES ASSUME UnlockInit PROVE UnlockIInv
  OBVIOUS
<1>1. admin \in Rows /\ admin.key \in DataKeys
  BY UnlockConstants DEF UnlockInit, NoRow, Rows, DataKeys, NodeKeys, Steps
<1>2. copy.admin = admin /\ copy.sessions = {}
  BY DEF UnlockInit
<1>3. CallTypes
  <2>1. phase \in [Requests -> Phases]
    BY DEF UnlockInit, Phases
  <2>2. request \in [Requests -> Asked]
    BY NoRequestType DEF UnlockInit
  <2> QED BY <2>1, <2>2 DEF CallTypes
<1>4. ServerTypes
  <2>1. 0 \in DataKeys /\ 0 \in NodeKeys /\ 1 \in 1..MaxClock /\ 0 \in 0..MaxRestores
    BY UnlockConstants DEF DataKeys, NodeKeys
  <2> QED BY <1>1, <1>2, <2>1 DEF UnlockInit, ServerTypes
<1>5. MemoryOK /\ RestartUnlocks
  BY DEF UnlockInit, MemoryOK, KeyringFitsRow, RestartUnlocks
<1>6. \A r \in Requests : RequestOK(r)
  BY DEF UnlockInit, RequestOK, Underway
<1>7. UsedOK
  BY FS_EmptySet DEF UnlockInit, UsedOK, OneSessionPerCode
<1> QED BY <1>3, <1>4, <1>5, <1>6, <1>7, UnlockTyping DEF UnlockIInv

\* Every step, and every stutter, keeps it.
LEMMA UnlockStep ==
  UnlockIInv /\ [UnlockNext]_unlockVars => UnlockIInv'
<1> SUFFICES ASSUME UnlockIInv, [UnlockNext]_unlockVars PROVE UnlockIInv'
  OBVIOUS
<1>1. UnlockTypeOK'
  BY UnlockTypesStep DEF UnlockIInv
<1>2. MemoryOK' /\ UsedOK' /\ RestartUnlocks'
  BY MemoryStep, UsedStep, RestartStep
<1>3. \A q \in Requests : RequestOK(q)'
  BY RequestsStep
<1> QED BY <1>1, <1>2, <1>3 DEF UnlockIInv

\* The strengthened invariant holds in every behaviour.
THEOREM UnlockInvariance == UnlockSpec => []UnlockIInv
<1> QED BY UnlockInitIInv, UnlockStep, PTL DEF UnlockSpec

\* Types: rows, requests and histories stay what they are declared to be.
THEOREM UnlockTypes == UnlockSpec => []UnlockTypeOK
<1>1. UnlockIInv => UnlockTypeOK
  BY DEF UnlockIInv
<1> QED BY UnlockInvariance, <1>1, PTL

\* A one-time code opens one session, whatever requests bring it together.
THEOREM CodesOpenOneSession == UnlockSpec => []OneSessionPerCode
<1>1. UnlockIInv => OneSessionPerCode
  BY DEF UnlockIInv, UsedOK
<1> QED BY UnlockInvariance, <1>1, PTL

\* The data key in memory is the one of the stored row.
THEOREM KeyringIsTheRows == UnlockSpec => []KeyringFitsRow
<1>1. UnlockIInv => KeyringFitsRow
  BY DEF UnlockIInv, MemoryOK
<1> QED BY UnlockInvariance, <1>1, PTL

\* After a committed set-up or login the stored ciphertext fits the key file.
THEOREM RestartsUnlock == UnlockSpec => []RestartUnlocks
<1>1. UnlockIInv => RestartUnlocks
  BY DEF UnlockIInv
<1> QED BY UnlockInvariance, <1>1, PTL
===============================================================================
