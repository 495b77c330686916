-------------------------------- MODULE Unlock --------------------------------
(* The administrator's credentials and the data key: set-up, logins with a   *)
(* password and a one-time code, sessions, the keyring in memory, and the    *)
(* node key file that unlocks it again after a restart. Requests interleave; *)
(* the server may stop at any step; while it is down its volume may lose the *)
(* node key, or an older copy of the database may be restored.               *)
EXTENDS Naturals, FiniteSets

CONSTANTS
  Requests,     \* set-up and login requests in progress
  MaxDataKeys,  \* bound: set-ups begun
  MaxNodeKeys,  \* bound: node keys made
  MaxClock,     \* bound: time, in TOTP steps
  MaxRestores   \* bound: restores of the copy

ASSUME UnlockConstants ==
  /\ MaxDataKeys \in Nat \ {0} /\ MaxNodeKeys \in Nat
  /\ MaxClock \in Nat \ {0} /\ MaxRestores \in Nat

VARIABLES
  admin,      \* the row: data key (0: no row), node key of the ciphertext, last TOTP step
  sessions,   \* numbers of the sessions stored and not revoked
  copy,       \* a backup of row and sessions
  keyFile,    \* the node key file; 0 when there is none
  up,         \* the server listens
  keyring,    \* the data key in memory; 0 while locked
  challenge,  \* data key of the set-up that waits for its code, or 0
  phase,      \* where a request is
  request,    \* what it read, checked and sealed
  clock,      \* now, in TOTP steps
  dataKeys,   \* data keys made
  nodeKeys,   \* node keys made
  opened,     \* history: sessions opened
  used,       \* history: the codes that opened them
  restores,   \* history: restores so far
  lost,       \* history: key file lost or copy restored since the last commit
  collided    \* history: a node key was written over another

store   == <<admin, sessions, keyFile>>
memory  == <<up, keyring, challenge>>
calls   == <<phase, request>>
world   == <<copy, clock, dataKeys, nodeKeys, restores>>
history == <<opened, used, lost, collided>>
unlockVars == <<store, memory, calls, world, history>>

NoRow     == [key |-> 0, cipher |-> 0, step |-> 0]
NoRequest == [setup |-> FALSE, key |-> 0, step |-> 0, seal |-> 0]
Phases    == {"idle", "preparing", "checking", "sealing", "minting", "committing", "unlocking"}
Initialized == admin.key # 0

\* A fresh installation, or one from before automatic unlocking existed.
UnlockInit ==
  /\ admin \in {NoRow, [NoRow EXCEPT !.key = 1]}
  /\ sessions = {} /\ copy = [admin |-> admin, sessions |-> {}]
  /\ keyFile = 0 /\ up = FALSE /\ keyring = 0 /\ challenge = 0
  /\ phase = [r \in Requests |-> "idle"]
  /\ request = [r \in Requests |-> NoRequest]
  /\ clock = 1 /\ dataKeys = admin.key /\ nodeKeys = 0
  /\ opened = 0 /\ used = {} /\ restores = 0
  /\ lost = TRUE /\ collided = FALSE
-----------------------------------------------------------------------------
(* A request, from the first read to the unlocked keyring.                   *)

Turn(r, p) == phase' = [phase EXCEPT ![r] = p]

\* The request is answered with an error.
Reject(r) ==
  /\ Turn(r, "idle")
  /\ request' = [request EXCEPT ![r] = NoRequest]

BeginSetup(r) ==
  /\ up /\ phase[r] = "idle" /\ ~Initialized
  /\ Turn(r, "preparing")
  /\ UNCHANGED <<store, memory, request, world, history>>

\* StartSetup: after the hashing nobody asks again whether there is a row.
StartSetup(r) ==
  /\ phase[r] = "preparing" /\ dataKeys < MaxDataKeys
  /\ dataKeys' = dataKeys + 1
  /\ challenge' = dataKeys'
  /\ Reject(r)
  /\ UNCHANGED <<store, up, keyring, copy, clock, nodeKeys, restores, history>>

ChallengeExpires ==
  /\ challenge # 0 /\ challenge' = 0
  /\ UNCHANGED <<store, up, keyring, calls, world, history>>

\* Login reads the row.
ReadAdmin(r) ==
  /\ up /\ phase[r] = "idle" /\ Initialized
  /\ Turn(r, "checking")
  /\ request' = [request EXCEPT ![r] = [NoRequest EXCEPT !.key = admin.key,
                                                         !.step = admin.step]]
  /\ UNCHANGED <<store, memory, world, history>>

\* verifyTOTP: a code of this step or a neighbour, later than the last one.
VerifyTOTP(s, last) == s \in {clock - 1, clock, clock + 1} /\ s > last

\* CompleteSetup takes the challenge, so that it is answered once.
TakeChallenge(r) ==
  /\ up /\ phase[r] = "idle" /\ ~Initialized /\ challenge # 0
  /\ \E s \in 1..MaxClock + 1 :
       /\ VerifyTOTP(s, 0)
       /\ request' = [request EXCEPT ![r] = [setup |-> TRUE, key |-> challenge,
                                             step |-> s, seal |-> 0]]
  /\ challenge' = 0
  /\ Turn(r, "sealing")
  /\ UNCHANGED <<store, up, keyring, world, history>>

\* Login: the password and the code against the row that was read.
VerifyLogin(r) ==
  /\ phase[r] = "checking"
  /\ \/ \E s \in 1..MaxClock + 1 :
          /\ VerifyTOTP(s, request[r].step)
          /\ request' = [request EXCEPT ![r].step = s]
          /\ Turn(r, "sealing")
     \/ Reject(r)
  /\ UNCHANGED <<store, memory, world, history>>

\* ensureAutoUnlockKey: the key file is read; a missing one is to be made.
ReadNodeKey(r) ==
  /\ phase[r] = "sealing"
  /\ \/ keyFile # 0 /\ Turn(r, "committing")
        /\ request' = [request EXCEPT ![r].seal = keyFile]
     \/ keyFile = 0 /\ Turn(r, "minting") /\ UNCHANGED request
     \/ Reject(r)
  /\ UNCHANGED <<store, memory, world, history>>

\* Bug: an error of the write goes unnoticed.
WriteUnchecked(r) ==
  /\ phase[r] = "minting" /\ nodeKeys < MaxNodeKeys
  /\ nodeKeys' = nodeKeys + 1 /\ keyFile' \in {keyFile, nodeKeys'}
  /\ collided' = (collided \/ keyFile # 0)
  /\ Turn(r, "committing") /\ request' = [request EXCEPT ![r].seal = nodeKeys']
  /\ UNCHANGED <<admin, sessions, memory, copy, clock, dataKeys, restores,
                 opened, used, lost>>

\* A new key replaces the file, whatever is in it by now; an error may follow.
WriteNodeKey(r) ==
  /\ phase[r] = "minting"
  /\ \/ /\ nodeKeys < MaxNodeKeys
        /\ nodeKeys' = nodeKeys + 1 /\ keyFile' = nodeKeys'
        /\ collided' = (collided \/ keyFile # 0)
        /\ \/ Turn(r, "committing") /\ request' = [request EXCEPT ![r].seal = nodeKeys']
           \/ Reject(r)
     \/ Reject(r) /\ UNCHANGED <<keyFile, nodeKeys, collided>>
  /\ UNCHANGED <<admin, sessions, memory, copy, clock, dataKeys, restores,
                 opened, used, lost>>

\* Bug: the update does not look at the step again.
FactorAnyway(r) == IF request[r].setup THEN ~Initialized ELSE Initialized

\* INSERT of the only row, or UPDATE ... WHERE last_totp_step < ?.
FactorIsNew(r) ==
  IF request[r].setup THEN ~Initialized ELSE Initialized /\ admin.step < request[r].step

\* Bug: the key is put into the keyring before the transaction decides.
CommitUnlocked(r) ==
  /\ phase[r] = "committing"
  /\ keyring' = request[r].key
  /\ \/ /\ FactorIsNew(r)
        /\ admin' = [key    |-> IF request[r].setup THEN request[r].key ELSE admin.key,
                     cipher |-> request[r].seal, step |-> request[r].step]
        /\ opened' = opened + 1
        /\ sessions' = sessions \cup {opened'}
        /\ used' = used \cup {<<restores, admin'.key, request[r].step>>}
        /\ lost' = FALSE
        /\ Turn(r, "unlocking") /\ UNCHANGED request
     \/ Reject(r) /\ UNCHANGED <<admin, sessions, opened, used, lost>>
  /\ UNCHANGED <<keyFile, up, challenge, world, collided>>

\* One transaction: step, ciphertext and session; a loser changes nothing.
Commit(r) ==
  /\ phase[r] = "committing"
  /\ \/ /\ FactorIsNew(r)
        /\ admin' = [key    |-> IF request[r].setup THEN request[r].key ELSE admin.key,
                     cipher |-> request[r].seal, step |-> request[r].step]
        /\ opened' = opened + 1
        /\ sessions' = sessions \cup {opened'}
        /\ used' = used \cup {<<restores, admin'.key, request[r].step>>}
        /\ lost' = FALSE
        /\ Turn(r, "unlocking") /\ UNCHANGED request
     \/ Reject(r) /\ UNCHANGED <<admin, sessions, opened, used, lost>>
  /\ UNCHANGED <<keyFile, memory, world, collided>>

\* keyring.Unlock, and the grant is handed out.
UnlockKeyring(r) ==
  /\ phase[r] = "unlocking"
  /\ keyring' = request[r].key
  /\ Reject(r)
  /\ UNCHANGED <<store, up, challenge, world, history>>

\* Logout, by a session that Status recognises: the keyring is open.
Logout(n) ==
  /\ up /\ keyring # 0 /\ n \in sessions
  /\ sessions' = sessions \ {n}
  /\ UNCHANGED <<admin, keyFile, memory, calls, world, history>>
-----------------------------------------------------------------------------
(* The server and its volume.                                                *)

\* A start ends all sessions.
ValidateStartup == sessions' = IF Initialized THEN {} ELSE sessions

\* The node key opens the ciphertext; the keyring stays locked when they do not fit.
AutoUnlock ==
  keyring' = IF admin.cipher # 0 /\ admin.cipher = keyFile THEN admin.key ELSE 0

Boot ==
  /\ ~up /\ up' = TRUE
  /\ ValidateStartup /\ AutoUnlock
  /\ UNCHANGED <<admin, keyFile, challenge, calls, world, history>>

ServerStops ==
  /\ up /\ up' = FALSE
  /\ keyring' = 0 /\ challenge' = 0
  /\ phase' = [r \in Requests |-> "idle"]
  /\ request' = [r \in Requests |-> NoRequest]
  /\ UNCHANGED <<store, world, history>>

\* A new volume: the database is carried over, the node key is not.
NodeKeyLost ==
  /\ ~up /\ keyFile # 0
  /\ keyFile' = 0 /\ lost' = TRUE
  /\ UNCHANGED <<admin, sessions, memory, calls, world, opened, used, collided>>

BackUp ==
  /\ copy' = [admin |-> admin, sessions |-> sessions]
  /\ UNCHANGED <<store, memory, calls, clock, dataKeys, nodeKeys, restores, history>>

RestoreCopy ==
  /\ ~up /\ restores < MaxRestores
  /\ admin' = copy.admin /\ sessions' = copy.sessions
  /\ restores' = restores + 1 /\ lost' = TRUE
  /\ UNCHANGED <<keyFile, memory, calls, copy, clock, dataKeys, nodeKeys,
                 opened, used, collided>>

Tick ==
  /\ clock < MaxClock /\ clock' = clock + 1
  /\ UNCHANGED <<store, memory, calls, copy, dataKeys, nodeKeys, restores, history>>

HandleRequest(r) ==
  \/ BeginSetup(r) \/ StartSetup(r) \/ TakeChallenge(r) \/ ReadAdmin(r) \/ VerifyLogin(r)
  \/ ReadNodeKey(r) \/ WriteNodeKey(r) \/ Commit(r) \/ UnlockKeyring(r)

UnlockNext ==
  \/ \E r \in Requests : HandleRequest(r)
  \/ \E n \in sessions : Logout(n)
  \/ ChallengeExpires \/ Boot \/ ServerStops \/ NodeKeyLost \/ BackUp \/ RestoreCopy \/ Tick

UnlockSpec == UnlockInit /\ [][UnlockNext]_unlockVars
-----------------------------------------------------------------------------
(* Properties.                                                               *)

DataKeys == 0..MaxDataKeys
NodeKeys == 0..MaxNodeKeys
Steps    == 0..MaxClock + 1
Rows     == [key : DataKeys, cipher : NodeKeys, step : Steps]

UnlockTypeOK ==
  /\ admin \in Rows /\ sessions \subseteq 1..opened
  /\ copy.admin \in Rows /\ copy.sessions \subseteq 1..opened
  /\ keyFile \in NodeKeys /\ up \in BOOLEAN /\ keyring \in DataKeys /\ challenge \in DataKeys
  /\ phase \in [Requests -> Phases]
  /\ request \in [Requests -> [setup : BOOLEAN, key : DataKeys, step : Steps, seal : NodeKeys]]
  /\ clock \in 1..MaxClock /\ dataKeys \in DataKeys /\ nodeKeys \in NodeKeys
  /\ opened \in Nat
  /\ used \subseteq (0..MaxRestores) \X DataKeys \X Steps
  /\ restores \in 0..MaxRestores /\ lost \in BOOLEAN /\ collided \in BOOLEAN

\* A code opens one session, however many requests bring it at the same time:
\* the transaction compares the step again. (A restored database may have
\* forgotten the codes used since its backup.)
OneSessionPerCode == Cardinality(used) = opened

\* The keyring never holds a key other than the one the stored data is sealed
\* with: of two set-ups only the one whose row was inserted unlocks.
KeyringFitsRow == keyring # 0 => Initialized /\ keyring = admin.key

\* Once a set-up or a login has committed, the next start unlocks by itself,
\* unless the key file went missing since or two requests made one at once.
RestartUnlocks ==
  ~lost /\ ~collided => admin.cipher # 0 /\ admin.cipher = keyFile
===============================================================================
