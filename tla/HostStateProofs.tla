--------------------------- MODULE HostStateProofs ---------------------------
(***************************************************************************)
(* Proofs about HostState, for any number of processes and services and    *)
(* without the bounds TLC needs. Everything rests on one fact: a command   *)
(* between its lock and its exit is the holder of the state lock           *)
(* (LockHeld); hence what it has read from the files is still there        *)
(* (InStep), and a secret it writes is one that was never revoked          *)
(* (Unrevoked).                                                            *)
(***************************************************************************)
EXTENDS HostState, TLAPS

\* Commands between acquire_state_lock() and their end hold the lock.
LockHeld == \A p \in Commands : pc[p] \in Locked => lock = p

\* What the holder has read of the files is what they still hold; a missing
\* state file holds no secrets.
InStep ==
  /\ ~exists => secrets = NoSecrets
  /\ \A p \in Commands :
       /\ pc[p] \in {"hostState", "hostSave", "serving", "rotateState", "rotateWrite"} =>
            key = ident[p] /\ ident[p] # 0
       /\ pc[p] \in {"hostSave", "serving", "rotateWrite"} =>
            exists /\ owner = ident[p] /\ secrets = mem[p]

\* Revoked secrets are old draws, and none of them is on disk.
Unrevoked ==
  /\ \A r \in revoked : r[2] <= lastSecret
  /\ \A s \in Services : secrets[s] <= lastSecret
  /\ \A s \in Services : secrets[s] # 0 => <<s, secrets[s]>> \notin revoked

\* The state file names only identities the key file had at that time.
OwnerAdopted ==
  /\ owner # 0 => owner \in adopted
  /\ \A p \in Commands : pc[p] = "shareKey" => ident[p] \in adopted
  /\ issued \subseteq adopted

\* The values written to service_secrets are maps from services to secrets.
LEMMA NoSecretsType == NoSecrets \in Secrets
  BY DEF NoSecrets, Secrets

\* So are the secrets of a starting host...
LEMMA ServedType ==
  ASSUME TypeOK, NEW p \in Commands PROVE Served(p) \in Secrets
<1>1. mem[p] \in [Services -> Nat] /\ lastSecret \in Nat
  BY StateAssumption DEF TypeOK, Secrets
<1> QED BY <1>1 DEF Served, Secrets

\* ...and those rotate-secret writes.
LEMMA RotatedType ==
  ASSUME TypeOK, NEW p \in Commands, NEW s \in Services
  PROVE  [mem[p] EXCEPT ![s] = lastSecret + 1] \in Secrets
<1>1. mem[p] \in [Services -> Nat] /\ lastSecret \in Nat
  BY StateAssumption DEF TypeOK, Secrets
<1> QED BY <1>1 DEF Secrets

\* The pairs that enter the history of revoked capabilities.
LEMMA PairsType ==
  ASSUME NEW x \in Secrets PROVE Pairs(x) \subseteq Services \X Nat
  BY DEF Pairs, Secrets

\* A write of the state file keeps the files well typed.
LEMMA WriteStateType ==
  ASSUME TypeOK, NEW id \in Nat, NEW services \in Secrets, WriteState(id, services)
  PROVE  /\ key' \in Nat /\ exists' \in BOOLEAN /\ owner' \in Nat
         /\ legacy' \in BOOLEAN /\ secrets' \in Secrets
         /\ adopted' \in SUBSET Nat
  BY DEF TypeOK, WriteState

\* Type correctness: every command leaves files, lock and locals well typed.
THEOREM TypeCorrect == Spec => []TypeOK
<1>1. Init => TypeOK
  BY StateAssumption DEF Init, TypeOK, CommandPC, Secrets, NoSecrets
<1>2. TypeOK /\ [Next]_vars => TypeOK'
  <2> SUFFICES ASSUME TypeOK, [Next]_vars PROVE TypeOK'
    OBVIOUS
  <2> USE StateAssumption DEF TypeOK, CommandPC
  <2>1. CASE UNCHANGED vars
    BY <2>1 DEF vars, files, drawn, locals
  <2>2. ASSUME NEW p \in Commands,
               \/ \E services \in SUBSET Services : HostLock(p, services)
               \/ HostKey(p)
               \/ HostLoad(p)
               \/ HostSave(p)
               \/ \E s \in Services : RotateLock(p, s)
               \/ \E s \in Services : ShareSecret(p, s)
               \/ RotateKey(p)
               \/ RotateState(p)
               \/ RotateWrite(p)
               \/ ResetLock(p)
               \/ RemoveKey(p)
               \/ RemoveState(p)
               \/ ShareState(p)
               \/ ShareKey(p)
               \/ Exit(p)
        PROVE  TypeOK'
    <3>1. CASE \E services \in SUBSET Services : HostLock(p, services)
      BY <3>1 DEF HostLock, Goto, Acquire, files, drawn, locals
    <3>2. CASE HostKey(p)
      BY <3>2 DEF HostKey, LoadKey, Goto, files, drawn, locals
    <3>3. CASE HostLoad(p)
      <4>1. LoadState(p, "hostState", "hostSave")
        BY <3>3 DEF HostLoad
      <4>2. PICK services \in Secrets :
              /\ WriteState(ident[p], services)
              /\ mem' = [mem EXCEPT ![p] = services]
        BY <4>1, NoSecretsType DEF LoadState, Repaired
      <4>3. ident[p] \in Nat
        OBVIOUS
      <4>4. /\ key' \in Nat /\ exists' \in BOOLEAN /\ owner' \in Nat
            /\ legacy' \in BOOLEAN /\ secrets' \in Secrets
            /\ adopted' \in SUBSET Nat
        BY <4>2, <4>3, WriteStateType
      <4>5. mem' \in [Commands -> Secrets]
        BY <4>2
      <4>6. pc' \in [Commands -> CommandPC]
        BY <4>1 DEF LoadState, Goto
      <4> QED BY <4>1, <4>4, <4>5, <4>6 DEF LoadState, files, drawn, locals
    <3>4. CASE HostSave(p)
      <4>1. Served(p) \in Secrets
        BY ServedType
      <4>2. lastSecret' \in 0 .. MaxSecrets
        BY <3>4 DEF HostSave
      <4> QED BY <3>4, <4>1, <4>2 DEF HostSave, Goto, WriteState, files, drawn, locals
    <3>5. CASE \E s \in Services : RotateLock(p, s)
      BY <3>5 DEF RotateLock, Goto, Acquire, files, drawn, locals
    <3>6. CASE \E s \in Services : ShareSecret(p, s)
      BY <3>6 DEF ShareSecret, Goto, files, drawn, locals
    <3>7. CASE RotateKey(p)
      BY <3>7 DEF RotateKey, LoadKey, Goto, files, drawn, locals
    <3>8. CASE RotateState(p)
      <4>1. LoadState(p, "rotateState", "rotateWrite")
        BY <3>8 DEF RotateState
      <4>2. PICK services \in Secrets :
              /\ WriteState(ident[p], services)
              /\ mem' = [mem EXCEPT ![p] = services]
        BY <4>1, NoSecretsType DEF LoadState, Repaired
      <4>3. ident[p] \in Nat
        OBVIOUS
      <4>4. /\ key' \in Nat /\ exists' \in BOOLEAN /\ owner' \in Nat
            /\ legacy' \in BOOLEAN /\ secrets' \in Secrets
            /\ adopted' \in SUBSET Nat
        BY <4>2, <4>3, WriteStateType
      <4>5. mem' \in [Commands -> Secrets]
        BY <4>2
      <4>6. pc' \in [Commands -> CommandPC]
        BY <4>1 DEF LoadState, Goto
      <4> QED BY <4>1, <4>4, <4>5, <4>6 DEF LoadState, files, drawn, locals
    <3>9. CASE RotateWrite(p)
      <4>1. PICK s \in config[p] :
              /\ pc[p] = "rotateWrite" /\ mem[p][s] # 0 /\ lastSecret < MaxSecrets
              /\ End(p)
              /\ lastSecret' = lastSecret + 1
              /\ WriteState(ident[p], [mem[p] EXCEPT ![s] = lastSecret + 1])
              /\ revoked' = revoked \cup {<<s, mem[p][s]>>}
              /\ UNCHANGED <<lastKey, issued>>
        BY <3>9 DEF RotateWrite
      <4>2. s \in Services
        BY <4>1
      <4>3. [mem[p] EXCEPT ![s] = lastSecret + 1] \in Secrets
        BY <4>2, RotatedType
      <4>4. mem[p][s] \in Nat
        BY <4>2 DEF Secrets
      <4>5. /\ key' \in Nat /\ exists' \in BOOLEAN /\ owner' \in Nat
            /\ legacy' \in BOOLEAN /\ secrets' \in Secrets
            /\ adopted' \in SUBSET Nat
        BY <4>1, <4>3, WriteStateType
      <4>6. lastSecret' \in 0 .. MaxSecrets
        BY <4>1
      <4>7. revoked' \in SUBSET (Services \X Nat)
        BY <4>1, <4>2, <4>4
      <4> QED BY <4>1, <4>5, <4>6, <4>7, NoSecretsType DEF End
    <3>10. CASE ResetLock(p)
      BY <3>10 DEF ResetLock, Goto, Acquire, files, drawn, locals
    <3>11. CASE RemoveKey(p)
      BY <3>11 DEF RemoveKey, Goto, files, drawn, locals
    <3>12. CASE RemoveState(p)
      <4>1. Pairs(secrets) \subseteq Services \X Nat
        BY PairsType
      <4> QED BY <3>12, <4>1, NoSecretsType DEF RemoveState, End, files, drawn, locals
    <3>13. CASE ShareState(p)
      BY <3>13 DEF ShareState, Goto, files, drawn, locals
    <3>14. CASE ShareKey(p)
      BY <3>14, NoSecretsType DEF ShareKey, End, SharedIdentity, files, drawn, locals
    <3>15. CASE Exit(p)
      BY <3>15, NoSecretsType DEF Exit, End, files, drawn, locals
    <3> QED BY <2>2, <3>1, <3>2, <3>3, <3>4, <3>5, <3>6, <3>7, <3>8, <3>9, <3>10, <3>11, <3>12, <3>13, <3>14, <3>15
  <2> QED BY <2>1, <2>2 DEF Next
<1> QED BY <1>1, <1>2, PTL DEF Spec

\* try_lock_exclusive and Drop for StateLock: at most one command at a time is
\* between its lock and its end.
THEOREM LockTheorem == Spec => []LockHeld
<1>1. Init => LockHeld
  BY StateAssumption DEF Init, LockHeld, Locked, CommandPC
<1>2. LockHeld /\ TypeOK /\ TypeOK' /\ [Next]_vars => LockHeld'
  <2> SUFFICES ASSUME LockHeld, TypeOK, TypeOK', [Next]_vars PROVE LockHeld'
    OBVIOUS
  <2> USE StateAssumption DEF TypeOK, CommandPC, LockHeld, Locked
  <2>1. CASE UNCHANGED vars
    BY <2>1 DEF vars, files, drawn, locals
  <2>2. ASSUME NEW p \in Commands,
               \/ \E services \in SUBSET Services : HostLock(p, services)
               \/ HostKey(p)
               \/ HostLoad(p)
               \/ HostSave(p)
               \/ \E s \in Services : RotateLock(p, s)
               \/ \E s \in Services : ShareSecret(p, s)
               \/ RotateKey(p)
               \/ RotateState(p)
               \/ RotateWrite(p)
               \/ ResetLock(p)
               \/ RemoveKey(p)
               \/ RemoveState(p)
               \/ ShareState(p)
               \/ ShareKey(p)
               \/ Exit(p)
        PROVE  LockHeld'
    <3>1. CASE \E services \in SUBSET Services : HostLock(p, services)
      BY <3>1 DEF HostLock, Goto, Acquire, files, drawn, locals
    <3>2. CASE HostKey(p)
      BY <3>2 DEF HostKey, LoadKey, Goto, files, drawn, locals
    <3>3. CASE HostLoad(p)
      BY <3>3 DEF HostLoad, LoadState, Goto, WriteState, Repaired, files, drawn, locals
    <3>4. CASE HostSave(p)
      BY <3>4 DEF HostSave, Goto, WriteState, Served, files, drawn, locals
    <3>5. CASE \E s \in Services : RotateLock(p, s)
      BY <3>5 DEF RotateLock, Goto, Acquire, files, drawn, locals
    <3>6. CASE \E s \in Services : ShareSecret(p, s)
      BY <3>6 DEF ShareSecret, Goto, files, drawn, locals
    <3>7. CASE RotateKey(p)
      BY <3>7 DEF RotateKey, LoadKey, Goto, files, drawn, locals
    <3>8. CASE RotateState(p)
      BY <3>8 DEF RotateState, LoadState, Goto, WriteState, Repaired, files, drawn, locals
    <3>9. CASE RotateWrite(p)
      BY <3>9 DEF RotateWrite, End, WriteState, files, drawn, locals
    <3>10. CASE ResetLock(p)
      BY <3>10 DEF ResetLock, Goto, Acquire, files, drawn, locals
    <3>11. CASE RemoveKey(p)
      BY <3>11 DEF RemoveKey, Goto, files, drawn, locals
    <3>12. CASE RemoveState(p)
      BY <3>12 DEF RemoveState, End, Pairs, files, drawn, locals
    <3>13. CASE ShareState(p)
      BY <3>13 DEF ShareState, Goto, files, drawn, locals
    <3>14. CASE ShareKey(p)
      BY <3>14 DEF ShareKey, End, SharedIdentity, files, drawn, locals
    <3>15. CASE Exit(p)
      BY <3>15 DEF Exit, End, files, drawn, locals
    <3> QED BY <2>2, <3>1, <3>2, <3>3, <3>4, <3>5, <3>6, <3>7, <3>8, <3>9, <3>10, <3>11, <3>12, <3>13, <3>14, <3>15
  <2> QED BY <2>1, <2>2 DEF Next
<1> QED BY <1>1, <1>2, TypeCorrect, PTL DEF Spec

\* What a command has read under the lock is still what the files hold.
THEOREM InStepTheorem == Spec => []InStep
<1>1. Init => InStep
  BY StateAssumption DEF Init, InStep
<1>2. InStep /\ TypeOK /\ TypeOK' /\ LockHeld /\ LockHeld' /\ [Next]_vars => InStep'
  <2> SUFFICES ASSUME InStep, TypeOK, TypeOK', LockHeld, LockHeld', [Next]_vars PROVE InStep'
    OBVIOUS
  <2> USE StateAssumption DEF TypeOK, CommandPC, LockHeld, Locked, InStep
  <2>1. CASE UNCHANGED vars
    BY <2>1 DEF vars, files, drawn, locals
  <2>2. ASSUME NEW p \in Commands,
               \/ \E services \in SUBSET Services : HostLock(p, services)
               \/ HostKey(p)
               \/ HostLoad(p)
               \/ HostSave(p)
               \/ \E s \in Services : RotateLock(p, s)
               \/ \E s \in Services : ShareSecret(p, s)
               \/ RotateKey(p)
               \/ RotateState(p)
               \/ RotateWrite(p)
               \/ ResetLock(p)
               \/ RemoveKey(p)
               \/ RemoveState(p)
               \/ ShareState(p)
               \/ ShareKey(p)
               \/ Exit(p)
        PROVE  InStep'
    <3>1. CASE \E services \in SUBSET Services : HostLock(p, services)
      BY <3>1 DEF HostLock, Goto, Acquire, files, drawn, locals
    <3>2. CASE HostKey(p)
      BY <3>2 DEF HostKey, LoadKey, Goto, files, drawn, locals
    <3>3. CASE HostLoad(p)
      BY <3>3 DEF HostLoad, LoadState, Goto, WriteState, Repaired, files, drawn, locals
    <3>4. CASE HostSave(p)
      BY <3>4 DEF HostSave, Goto, WriteState, Served, files, drawn, locals
    <3>5. CASE \E s \in Services : RotateLock(p, s)
      BY <3>5 DEF RotateLock, Goto, Acquire, files, drawn, locals
    <3>6. CASE \E s \in Services : ShareSecret(p, s)
      BY <3>6 DEF ShareSecret, Goto, files, drawn, locals
    <3>7. CASE RotateKey(p)
      BY <3>7 DEF RotateKey, LoadKey, Goto, files, drawn, locals
    <3>8. CASE RotateState(p)
      BY <3>8 DEF RotateState, LoadState, Goto, WriteState, Repaired, files, drawn, locals
    <3>9. CASE RotateWrite(p)
      BY <3>9 DEF RotateWrite, End, WriteState, files, drawn, locals
    <3>10. CASE ResetLock(p)
      BY <3>10 DEF ResetLock, Goto, Acquire, files, drawn, locals
    <3>11. CASE RemoveKey(p)
      BY <3>11 DEF RemoveKey, Goto, files, drawn, locals
    <3>12. CASE RemoveState(p)
      BY <3>12 DEF RemoveState, End, Pairs, files, drawn, locals
    <3>13. CASE ShareState(p)
      BY <3>13 DEF ShareState, Goto, files, drawn, locals
    <3>14. CASE ShareKey(p)
      BY <3>14 DEF ShareKey, End, SharedIdentity, files, drawn, locals
    <3>15. CASE Exit(p)
      BY <3>15 DEF Exit, End, files, drawn, locals
    <3> QED BY <2>2, <3>1, <3>2, <3>3, <3>4, <3>5, <3>6, <3>7, <3>8, <3>9, <3>10, <3>11, <3>12, <3>13, <3>14, <3>15
  <2> QED BY <2>1, <2>2 DEF Next
<1> QED BY <1>1, <1>2, TypeCorrect, LockTheorem, PTL DEF Spec

\* A running host serves what is on disk (ServingMatchesDisk).
THEOREM ServingTheorem == Spec => []ServingMatchesDisk
<1>1. InStep => ServingMatchesDisk
  BY DEF InStep, ServingMatchesDisk
<1> QED BY <1>1, InStepTheorem, PTL

\* No revoked secret is on disk.
THEOREM UnrevokedTheorem == Spec => []Unrevoked
<1>1. Init => Unrevoked
  BY StateAssumption DEF Init, Unrevoked, NoSecrets
<1>2. Unrevoked /\ TypeOK /\ TypeOK' /\ InStep /\ InStep' /\ [Next]_vars => Unrevoked'
  <2> SUFFICES ASSUME Unrevoked, TypeOK, TypeOK', InStep, InStep', [Next]_vars PROVE Unrevoked'
    OBVIOUS
  <2> USE StateAssumption DEF TypeOK, Unrevoked, Secrets, NoSecrets, InStep
  <2>1. CASE UNCHANGED vars
    BY <2>1 DEF vars, files, drawn, locals
  <2>2. ASSUME NEW p \in Commands,
               \/ \E services \in SUBSET Services : HostLock(p, services)
               \/ HostKey(p)
               \/ HostLoad(p)
               \/ HostSave(p)
               \/ \E s \in Services : RotateLock(p, s)
               \/ \E s \in Services : ShareSecret(p, s)
               \/ RotateKey(p)
               \/ RotateState(p)
               \/ RotateWrite(p)
               \/ ResetLock(p)
               \/ RemoveKey(p)
               \/ RemoveState(p)
               \/ ShareState(p)
               \/ ShareKey(p)
               \/ Exit(p)
        PROVE  Unrevoked'
    <3>1. CASE \E services \in SUBSET Services : HostLock(p, services)
      BY <3>1 DEF HostLock, Goto, Acquire, files, drawn, locals
    <3>2. CASE HostKey(p)
      BY <3>2 DEF HostKey, LoadKey, Goto, files, drawn, locals
    <3>3. CASE HostLoad(p)
      BY <3>3 DEF HostLoad, LoadState, Goto, WriteState, Repaired, files, drawn, locals
    <3>4. CASE HostSave(p)
      BY <3>4 DEF HostSave, Goto, WriteState, Served, files, drawn, locals
    <3>5. CASE \E s \in Services : RotateLock(p, s)
      BY <3>5 DEF RotateLock, Goto, Acquire, files, drawn, locals
    <3>6. CASE \E s \in Services : ShareSecret(p, s)
      BY <3>6 DEF ShareSecret, Goto, files, drawn, locals
    <3>7. CASE RotateKey(p)
      BY <3>7 DEF RotateKey, LoadKey, Goto, files, drawn, locals
    <3>8. CASE RotateState(p)
      BY <3>8 DEF RotateState, LoadState, Goto, WriteState, Repaired, files, drawn, locals
    <3>9. CASE RotateWrite(p)
      BY <3>9 DEF RotateWrite, End, WriteState, files, drawn, locals
    <3>10. CASE ResetLock(p)
      BY <3>10 DEF ResetLock, Goto, Acquire, files, drawn, locals
    <3>11. CASE RemoveKey(p)
      BY <3>11 DEF RemoveKey, Goto, files, drawn, locals
    <3>12. CASE RemoveState(p)
      BY <3>12 DEF RemoveState, End, Pairs, files, drawn, locals
    <3>13. CASE ShareState(p)
      BY <3>13 DEF ShareState, Goto, files, drawn, locals
    <3>14. CASE ShareKey(p)
      BY <3>14 DEF ShareKey, End, SharedIdentity, files, drawn, locals
    <3>15. CASE Exit(p)
      BY <3>15 DEF Exit, End, files, drawn, locals
    <3> QED BY <2>2, <3>1, <3>2, <3>3, <3>4, <3>5, <3>6, <3>7, <3>8, <3>9, <3>10, <3>11, <3>12, <3>13, <3>14, <3>15
  <2> QED BY <2>1, <2>2 DEF Next
<1> QED BY <1>1, <1>2, TypeCorrect, InStepTheorem, PTL DEF Spec

\* A rotated or reset capability is never accepted again (RevokedStaysRevoked).
THEOREM RevocationTheorem == Spec => []RevokedStaysRevoked
<1>1. TypeOK /\ InStep /\ Unrevoked => RevokedStaysRevoked
  BY DEF TypeOK, InStep, Unrevoked, RevokedStaysRevoked, Pairs
<1> QED BY <1>1, TypeCorrect, InStepTheorem, UnrevokedTheorem, PTL

\* Identities reach the state file only from the key file.
THEOREM OwnerTheorem == Spec => []OwnerAdopted
<1>1. Init => OwnerAdopted
  BY StateAssumption DEF Init, OwnerAdopted
<1>2. OwnerAdopted /\ TypeOK /\ TypeOK' /\ InStep /\ InStep' /\ [Next]_vars => OwnerAdopted'
  <2> SUFFICES ASSUME OwnerAdopted, TypeOK, TypeOK', InStep, InStep', [Next]_vars PROVE OwnerAdopted'
    OBVIOUS
  <2> USE StateAssumption DEF TypeOK, CommandPC, InStep, OwnerAdopted
  <2>1. CASE UNCHANGED vars
    BY <2>1 DEF vars, files, drawn, locals
  <2>2. ASSUME NEW p \in Commands,
               \/ \E services \in SUBSET Services : HostLock(p, services)
               \/ HostKey(p)
               \/ HostLoad(p)
               \/ HostSave(p)
               \/ \E s \in Services : RotateLock(p, s)
               \/ \E s \in Services : ShareSecret(p, s)
               \/ RotateKey(p)
               \/ RotateState(p)
               \/ RotateWrite(p)
               \/ ResetLock(p)
               \/ RemoveKey(p)
               \/ RemoveState(p)
               \/ ShareState(p)
               \/ ShareKey(p)
               \/ Exit(p)
        PROVE  OwnerAdopted'
    <3>1. CASE \E services \in SUBSET Services : HostLock(p, services)
      BY <3>1 DEF HostLock, Goto, Acquire, files, drawn, locals
    <3>2. CASE HostKey(p)
      BY <3>2 DEF HostKey, LoadKey, Goto, files, drawn, locals
    <3>3. CASE HostLoad(p)
      BY <3>3 DEF HostLoad, LoadState, Goto, WriteState, Repaired, files, drawn, locals
    <3>4. CASE HostSave(p)
      BY <3>4 DEF HostSave, Goto, WriteState, Served, files, drawn, locals
    <3>5. CASE \E s \in Services : RotateLock(p, s)
      BY <3>5 DEF RotateLock, Goto, Acquire, files, drawn, locals
    <3>6. CASE \E s \in Services : ShareSecret(p, s)
      BY <3>6 DEF ShareSecret, Goto, files, drawn, locals
    <3>7. CASE RotateKey(p)
      BY <3>7 DEF RotateKey, LoadKey, Goto, files, drawn, locals
    <3>8. CASE RotateState(p)
      BY <3>8 DEF RotateState, LoadState, Goto, WriteState, Repaired, files, drawn, locals
    <3>9. CASE RotateWrite(p)
      BY <3>9 DEF RotateWrite, End, WriteState, files, drawn, locals
    <3>10. CASE ResetLock(p)
      BY <3>10 DEF ResetLock, Goto, Acquire, files, drawn, locals
    <3>11. CASE RemoveKey(p)
      BY <3>11 DEF RemoveKey, Goto, files, drawn, locals
    <3>12. CASE RemoveState(p)
      BY <3>12 DEF RemoveState, End, Pairs, files, drawn, locals
    <3>13. CASE ShareState(p)
      BY <3>13 DEF ShareState, Goto, files, drawn, locals
    <3>14. CASE ShareKey(p)
      BY <3>14 DEF ShareKey, End, SharedIdentity, files, drawn, locals
    <3>15. CASE Exit(p)
      BY <3>15 DEF Exit, End, files, drawn, locals
    <3> QED BY <2>2, <3>1, <3>2, <3>3, <3>4, <3>5, <3>6, <3>7, <3>8, <3>9, <3>10, <3>11, <3>12, <3>13, <3>14, <3>15
  <2> QED BY <2>1, <2>2 DEF Next
<1> QED BY <1>1, <1>2, TypeCorrect, InStepTheorem, PTL DEF Spec

\* A ticket names an identity both files agreed on (TicketIdentityAdopted),
\* although share takes no lock.
THEOREM TicketTheorem == Spec => []TicketIdentityAdopted
<1>1. OwnerAdopted => TicketIdentityAdopted
  BY DEF OwnerAdopted, TicketIdentityAdopted
<1> QED BY <1>1, OwnerTheorem, PTL

\* Capabilities are replaced by rotations of their service only
\* (OnlyRotationReplaces).
THEOREM ReplacementTheorem == Spec => OnlyRotationReplaces
<1> DEFINE Kept == \A s \in Services : secrets[s] # 0 /\ secrets'[s] \notin {0, secrets[s]} =>
         \E p \in Commands : pc[p] = "rotateWrite" /\ s \in config[p]
<1>1. TypeOK /\ InStep /\ [Next]_vars => [Kept]_vars
  <2> SUFFICES ASSUME TypeOK, InStep, [Next]_vars PROVE Kept
    OBVIOUS
  <2> USE DEF TypeOK, InStep, Secrets, NoSecrets
  <2>1. CASE UNCHANGED vars
    BY <2>1 DEF vars, files
  <2>2. ASSUME NEW p \in Commands,
               \/ \E services \in SUBSET Services : HostLock(p, services)
               \/ HostKey(p)
               \/ HostLoad(p)
               \/ HostSave(p)
               \/ \E s \in Services : RotateLock(p, s)
               \/ \E s \in Services : ShareSecret(p, s)
               \/ RotateKey(p)
               \/ RotateState(p)
               \/ RotateWrite(p)
               \/ ResetLock(p)
               \/ RemoveKey(p)
               \/ RemoveState(p)
               \/ ShareState(p)
               \/ ShareKey(p)
               \/ Exit(p)
        PROVE  Kept
    <3>1. CASE \E services \in SUBSET Services : HostLock(p, services)
      BY <3>1 DEF HostLock, Goto, Acquire, files, drawn, locals
    <3>2. CASE HostKey(p)
      BY <3>2 DEF HostKey, LoadKey, Goto, files, drawn, locals
    <3>3. CASE HostLoad(p)
      BY <3>3 DEF HostLoad, LoadState, Goto, WriteState, Repaired, files, drawn, locals
    <3>4. CASE HostSave(p)
      BY <3>4 DEF HostSave, Goto, WriteState, Served, files, drawn, locals
    <3>5. CASE \E s \in Services : RotateLock(p, s)
      BY <3>5 DEF RotateLock, Goto, Acquire, files, drawn, locals
    <3>6. CASE \E s \in Services : ShareSecret(p, s)
      BY <3>6 DEF ShareSecret, Goto, files, drawn, locals
    <3>7. CASE RotateKey(p)
      BY <3>7 DEF RotateKey, LoadKey, Goto, files, drawn, locals
    <3>8. CASE RotateState(p)
      BY <3>8 DEF RotateState, LoadState, Goto, WriteState, Repaired, files, drawn, locals
    <3>9. CASE RotateWrite(p)
      BY <3>9 DEF RotateWrite, End, WriteState, files, drawn, locals
    <3>10. CASE ResetLock(p)
      BY <3>10 DEF ResetLock, Goto, Acquire, files, drawn, locals
    <3>11. CASE RemoveKey(p)
      BY <3>11 DEF RemoveKey, Goto, files, drawn, locals
    <3>12. CASE RemoveState(p)
      BY <3>12 DEF RemoveState, End, Pairs, files, drawn, locals
    <3>13. CASE ShareState(p)
      BY <3>13 DEF ShareState, Goto, files, drawn, locals
    <3>14. CASE ShareKey(p)
      BY <3>14 DEF ShareKey, End, SharedIdentity, files, drawn, locals
    <3>15. CASE Exit(p)
      BY <3>15 DEF Exit, End, files, drawn, locals
    <3> QED BY <2>2, <3>1, <3>2, <3>3, <3>4, <3>5, <3>6, <3>7, <3>8, <3>9, <3>10, <3>11, <3>12, <3>13, <3>14, <3>15
  <2> QED BY <2>1, <2>2 DEF Next
<1> QED BY <1>1, TypeCorrect, InStepTheorem, PTL DEF Spec, OnlyRotationReplaces

\* Capabilities are dropped by a reset, or a host start without their service,
\* only (OnlyResetDrops).
THEOREM DropTheorem == Spec => OnlyResetDrops
<1> DEFINE Kept == \A s \in Services : secrets[s] # 0 /\ secrets'[s] = 0 =>
         \E p \in Commands :
           \/ pc[p] = "hostSave" /\ s \notin config[p]
           \/ pc[p] = "resetState"
<1>1. TypeOK /\ InStep /\ [Next]_vars => [Kept]_vars
  <2> SUFFICES ASSUME TypeOK, InStep, [Next]_vars PROVE Kept
    OBVIOUS
  <2> USE DEF TypeOK, InStep, Secrets, NoSecrets
  <2>1. CASE UNCHANGED vars
    BY <2>1 DEF vars, files
  <2>2. ASSUME NEW p \in Commands,
               \/ \E services \in SUBSET Services : HostLock(p, services)
               \/ HostKey(p)
               \/ HostLoad(p)
               \/ HostSave(p)
               \/ \E s \in Services : RotateLock(p, s)
               \/ \E s \in Services : ShareSecret(p, s)
               \/ RotateKey(p)
               \/ RotateState(p)
               \/ RotateWrite(p)
               \/ ResetLock(p)
               \/ RemoveKey(p)
               \/ RemoveState(p)
               \/ ShareState(p)
               \/ ShareKey(p)
               \/ Exit(p)
        PROVE  Kept
    <3>1. CASE \E services \in SUBSET Services : HostLock(p, services)
      BY <3>1 DEF HostLock, Goto, Acquire, files, drawn, locals
    <3>2. CASE HostKey(p)
      BY <3>2 DEF HostKey, LoadKey, Goto, files, drawn, locals
    <3>3. CASE HostLoad(p)
      BY <3>3 DEF HostLoad, LoadState, Goto, WriteState, Repaired, files, drawn, locals
    <3>4. CASE HostSave(p)
      <4> SUFFICES ASSUME NEW s \in Services, secrets[s] # 0, secrets'[s] = 0
                   PROVE  pc[p] = "hostSave" /\ s \notin config[p]
        OBVIOUS
      <4>1. pc[p] = "hostSave" /\ secrets = mem[p] /\ secrets' = Served(p)
        BY <3>4 DEF HostSave, Goto, WriteState
      <4>2. mem[p][s] # 0 /\ Served(p)[s] = 0
        BY <4>1
      <4> QED BY <4>1, <4>2 DEF Served
    <3>5. CASE \E s \in Services : RotateLock(p, s)
      BY <3>5 DEF RotateLock, Goto, Acquire, files, drawn, locals
    <3>6. CASE \E s \in Services : ShareSecret(p, s)
      BY <3>6 DEF ShareSecret, Goto, files, drawn, locals
    <3>7. CASE RotateKey(p)
      BY <3>7 DEF RotateKey, LoadKey, Goto, files, drawn, locals
    <3>8. CASE RotateState(p)
      BY <3>8 DEF RotateState, LoadState, Goto, WriteState, Repaired, files, drawn, locals
    <3>9. CASE RotateWrite(p)
      <4> SUFFICES ASSUME NEW s \in Services, secrets[s] # 0
                   PROVE  secrets'[s] # 0
        OBVIOUS
      <4>1. PICK t \in config[p] :
              /\ pc[p] = "rotateWrite"
              /\ secrets' = [mem[p] EXCEPT ![t] = lastSecret + 1]
        BY <3>9 DEF RotateWrite, WriteState
      <4>2. secrets = mem[p] /\ mem[p] \in [Services -> Nat] /\ lastSecret \in Nat
        BY <4>1, StateAssumption
      <4>3. lastSecret + 1 # 0
        BY <4>2
      <4>4. secrets'[s] = IF s = t THEN lastSecret + 1 ELSE mem[p][s]
        BY <4>1, <4>2
      <4> QED BY <4>2, <4>3, <4>4
    <3>10. CASE ResetLock(p)
      BY <3>10 DEF ResetLock, Goto, Acquire, files, drawn, locals
    <3>11. CASE RemoveKey(p)
      BY <3>11 DEF RemoveKey, Goto, files, drawn, locals
    <3>12. CASE RemoveState(p)
      BY <3>12 DEF RemoveState, End, Pairs, files, drawn, locals
    <3>13. CASE ShareState(p)
      BY <3>13 DEF ShareState, Goto, files, drawn, locals
    <3>14. CASE ShareKey(p)
      BY <3>14 DEF ShareKey, End, SharedIdentity, files, drawn, locals
    <3>15. CASE Exit(p)
      BY <3>15 DEF Exit, End, files, drawn, locals
    <3> QED BY <2>2, <3>1, <3>2, <3>3, <3>4, <3>5, <3>6, <3>7, <3>8, <3>9, <3>10, <3>11, <3>12, <3>13, <3>14, <3>15
  <2> QED BY <2>1, <2>2 DEF Next
<1> QED BY <1>1, TypeCorrect, InStepTheorem, PTL DEF Spec, OnlyResetDrops
=============================================================================
