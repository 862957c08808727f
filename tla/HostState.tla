------------------------------ MODULE HostState ------------------------------
(***************************************************************************)
(* The persisted identity and service secrets of a host, and the commands  *)
(* that touch them: `host` (from its start until it exits), `rotate-secret`,*)
(* `reset-identity` under the exclusive state lock, and `share`, which     *)
(* reads the files without it. Each command runs as a process of its own   *)
(* and may die, or fail with an I/O error, between any two file            *)
(* operations; the operating system then releases its lock. A file is      *)
(* replaced by rename, so one action writes it whole.                      *)
(*                                                                         *)
(* Keys and secrets are numbers drawn from counters: two draws never give  *)
(* the same value. Secrets are compared per service, so services may use   *)
(* the same numbers. The host-wide attach_secret, which nothing reads, is  *)
(* left out.                                                               *)
(***************************************************************************)
EXTENDS Naturals

CONSTANTS
  Commands,    \* processes that run one locho command after the other
  Services,    \* service names a configuration can hold
  MaxKeys,     \* bound on the identities generated
  MaxSecrets   \* bound on the draws of secrets

ASSUME StateAssumption ==
  /\ "nobody" \notin Commands
  /\ MaxKeys \in Nat \ {0}
  /\ MaxSecrets \in Nat

CommandPC == {"idle", "hostKey", "hostState", "hostSave", "serving",
              "rotateKey", "rotateState", "rotateWrite", "resetKey",
              "resetState", "shareState", "shareKey"}

\* Where a command holds the state lock.
Locked == CommandPC \ {"idle", "shareState", "shareKey"}

VARIABLES
  lock,      \* holder of state.lock
  key,       \* host.key: an identity, 0 when the file is missing
  exists,    \* host_state.json exists
  owner,     \* its endpoint_id, 0 when invalid
  legacy,    \* it has the legacy schema version
  secrets,   \* its service_secrets, 0 for a service without one
  lastKey, lastSecret,
  pc,        \* where each command is
  config,    \* the services of a command: configured, or the one it names
  ident,     \* the identity a command has read
  mem,       \* the secrets a command has read, or a host accepts
  revoked,   \* history: pairs of service and secret rotated or reset away
  adopted,   \* history: identities key and state file agreed on
  issued     \* history: identities that shared tickets name

files == <<key, exists, owner, legacy, secrets>>
drawn == <<lastKey, lastSecret>>
locals == <<config, ident, mem>>
vars == <<lock, files, drawn, pc, locals, revoked, adopted, issued>>

Secrets == [Services -> Nat]
NoSecrets == [s \in Services |-> 0]

TypeOK ==
  /\ lock \in Commands \cup {"nobody"}
  /\ key \in Nat /\ exists \in BOOLEAN /\ owner \in Nat /\ legacy \in BOOLEAN
  /\ secrets \in Secrets
  /\ lastKey \in Nat /\ lastSecret \in 0 .. MaxSecrets
  /\ pc \in [Commands -> CommandPC]
  /\ config \in [Commands -> SUBSET Services]
  /\ ident \in [Commands -> Nat]
  /\ mem \in [Commands -> Secrets]
  /\ revoked \in SUBSET (Services \X Nat)
  /\ adopted \in SUBSET Nat
  /\ issued \in SUBSET Nat

\* A fresh directory, an installation, or one left by the legacy version, whose
\* endpoint_id may be invalid.
Init ==
  /\ lock = "nobody"
  /\ key \in {0, 1}
  /\ exists \in BOOLEAN
  /\ legacy \in BOOLEAN /\ (legacy => exists)
  /\ owner \in IF exists THEN (IF legacy THEN {0, key} ELSE {key}) ELSE {0}
  /\ secrets = NoSecrets
  /\ lastKey = 1 /\ lastSecret = 0
  /\ pc = [p \in Commands |-> "idle"]
  /\ config = [p \in Commands |-> {}]
  /\ ident = [p \in Commands |-> 0]
  /\ mem = [p \in Commands |-> NoSecrets]
  /\ revoked = {}
  /\ adopted = IF exists /\ key # 0 /\ owner = key THEN {key} ELSE {}
  /\ issued = {}

-----------------------------------------------------------------------------

Goto(p, from, to) == pc[p] = from /\ pc' = [pc EXCEPT ![p] = to]

\* The process of p ends; what it had read is gone with it.
End(p) ==
  /\ pc' = [pc EXCEPT ![p] = "idle"]
  /\ lock' = IF lock = p THEN "nobody" ELSE lock
  /\ config' = [config EXCEPT ![p] = {}]
  /\ ident' = [ident EXCEPT ![p] = 0]
  /\ mem' = [mem EXCEPT ![p] = NoSecrets]

\* acquire_state_lock(): try_lock_exclusive fails at once when it is held.
Acquire(p) == lock = "nobody" /\ lock' = p

\* The state file of identity id with the given secrets replaces the old one.
WriteState(id, services) ==
  /\ exists' = TRUE /\ owner' = id /\ legacy' = FALSE /\ secrets' = services
  /\ adopted' = IF key = id THEN adopted \cup {id} ELSE adopted
  /\ UNCHANGED key

Pairs(services) == {<<s, services[s]>> : s \in {t \in Services : services[t] # 0}}

\* load_or_create_host_secret_key()
LoadKey(p, from, to) ==
  /\ Goto(p, from, to)
  /\ \/ key # 0 /\ UNCHANGED <<key, lastKey>>
     \/ /\ key = 0 /\ lastKey < MaxKeys
        /\ key' = lastKey + 1
        /\ lastKey' = lastKey + 1
  /\ ident' = [ident EXCEPT ![p] = key']
  /\ UNCHANGED <<lock, exists, owner, legacy, secrets, lastSecret, config, mem,
                 revoked, adopted, issued>>

\* Fault: the repair takes an unknown endpoint ID for a foreign file.
RepairedDropsForeign(p) == IF owner = ident[p] THEN secrets ELSE NoSecrets

\* repair_host_state() and the migration of legacy files keep the secrets.
Repaired(p) == secrets

\* load_or_create_host_state(): creates, repairs or migrates the file.
LoadState(p, from, to) ==
  /\ Goto(p, from, to)
  /\ IF exists
     THEN /\ WriteState(ident[p], Repaired(p))
          /\ mem' = [mem EXCEPT ![p] = Repaired(p)]
     ELSE /\ WriteState(ident[p], NoSecrets)
          /\ mem' = [mem EXCEPT ![p] = NoSecrets]
  /\ UNCHANGED <<lock, drawn, config, ident, revoked, issued>>

-----------------------------------------------------------------------------
(* locho host                                                              *)

HostLock(p, services) ==
  /\ Goto(p, "idle", "hostKey")
  /\ Acquire(p)
  /\ config' = [config EXCEPT ![p] = services]
  /\ UNCHANGED <<files, drawn, ident, mem, revoked, adopted, issued>>

HostKey(p) == LoadKey(p, "hostKey", "hostState")

\* After the endpoint is bound with that key.
HostLoad(p) == LoadState(p, "hostState", "hostSave")

\* Secrets of services no longer configured go, missing ones are drawn.
Served(p) ==
  [s \in Services |->
     IF s \notin config[p] THEN 0
     ELSE IF mem[p][s] # 0 THEN mem[p][s] ELSE lastSecret + 1]

\* Reached once the CA certificates and HTTP clients of all services are built.
HostSave(p) ==
  /\ Goto(p, "hostSave", "serving")
  /\ \/ (\A s \in config[p] : mem[p][s] # 0) /\ UNCHANGED lastSecret
     \/ /\ \E s \in config[p] : mem[p][s] = 0
        /\ lastSecret < MaxSecrets /\ lastSecret' = lastSecret + 1
  /\ WriteState(ident[p], Served(p))
  /\ mem' = [mem EXCEPT ![p] = Served(p)]
  /\ UNCHANGED <<lock, lastKey, config, ident, revoked, issued>>

-----------------------------------------------------------------------------
(* locho rotate-secret                                                     *)

\* Fault: rotate-secret does not take the lock.
RotateUnlocked(p, s) ==
  /\ Goto(p, "idle", "rotateKey")
  /\ config' = [config EXCEPT ![p] = {s}]
  /\ UNCHANGED <<lock, files, drawn, ident, mem, revoked, adopted, issued>>

RotateLock(p, s) ==
  /\ Goto(p, "idle", "rotateKey")
  /\ Acquire(p)
  /\ config' = [config EXCEPT ![p] = {s}]
  /\ UNCHANGED <<files, drawn, ident, mem, revoked, adopted, issued>>

RotateKey(p) == LoadKey(p, "rotateKey", "rotateState")

RotateState(p) == LoadState(p, "rotateState", "rotateWrite")

\* Replace the secret of the one service named, if the host knows it.
RotateWrite(p) ==
  \E s \in config[p] :
    /\ pc[p] = "rotateWrite" /\ mem[p][s] # 0 /\ lastSecret < MaxSecrets
    /\ End(p)
    /\ lastSecret' = lastSecret + 1
    /\ WriteState(ident[p], [mem[p] EXCEPT ![s] = lastSecret + 1])
    /\ revoked' = revoked \cup {<<s, mem[p][s]>>}
    /\ UNCHANGED <<lastKey, issued>>

-----------------------------------------------------------------------------
(* locho reset-identity                                                    *)

\* Fault: reset-identity does not take the lock.
ResetUnlocked(p) ==
  /\ Goto(p, "idle", "resetKey")
  /\ UNCHANGED <<lock, files, drawn, locals, revoked, adopted, issued>>

ResetLock(p) ==
  /\ Goto(p, "idle", "resetKey")
  /\ Acquire(p)
  /\ UNCHANGED <<files, drawn, locals, revoked, adopted, issued>>

RemoveKey(p) ==
  /\ Goto(p, "resetKey", "resetState")
  /\ key' = 0
  /\ UNCHANGED <<lock, exists, owner, legacy, secrets, drawn, locals, revoked, adopted, issued>>

RemoveState(p) ==
  /\ pc[p] = "resetState"
  /\ End(p)
  /\ exists' = FALSE /\ owner' = 0 /\ legacy' = FALSE /\ secrets' = NoSecrets
  /\ revoked' = revoked \cup Pairs(secrets)
  /\ UNCHANGED <<key, drawn, adopted, issued>>

-----------------------------------------------------------------------------
(* locho share: three reads, none of them under the lock.                  *)

\* read_service_secret(); read_host_state() refuses an invalid endpoint_id. The
\* properties are about the identity a ticket names, not about its secret.
ShareSecret(p, s) ==
  /\ exists /\ owner # 0 /\ secrets[s] # 0
  /\ Goto(p, "idle", "shareState")
  /\ UNCHANGED <<lock, files, drawn, locals, revoked, adopted, issued>>

\* read_host_endpoint_id(): the state file...
ShareState(p) ==
  /\ exists /\ owner # 0
  /\ Goto(p, "shareState", "shareKey")
  /\ ident' = [ident EXCEPT ![p] = owner]
  /\ UNCHANGED <<lock, files, drawn, config, mem, revoked, adopted, issued>>

\* Fault: the identities read from the two files are not compared.
SharedIdentityUnchecked(p) == key # 0

\* ...and then the key file, which must name the same identity.
SharedIdentity(p) == key # 0 /\ key = ident[p]

ShareKey(p) ==
  /\ pc[p] = "shareKey" /\ SharedIdentity(p)
  /\ End(p)
  /\ issued' = issued \cup {key}
  /\ UNCHANGED <<files, drawn, revoked, adopted>>

-----------------------------------------------------------------------------

\* A command that does not get further, fails or is killed, or a host that
\* exits: its process ends and the operating system releases the lock.
Exit(p) ==
  /\ pc[p] # "idle"
  /\ End(p)
  /\ UNCHANGED <<files, drawn, revoked, adopted, issued>>

Next ==
  \E p \in Commands :
    \/ \E services \in SUBSET Services : HostLock(p, services)
    \/ HostKey(p) \/ HostLoad(p) \/ HostSave(p)
    \/ \E s \in Services : RotateLock(p, s) \/ ShareSecret(p, s)
    \/ RotateKey(p) \/ RotateState(p) \/ RotateWrite(p)
    \/ ResetLock(p) \/ RemoveKey(p) \/ RemoveState(p)
    \/ ShareState(p) \/ ShareKey(p)
    \/ Exit(p)

Spec == Init /\ [][Next]_vars

-----------------------------------------------------------------------------

\* What a running host serves is what is on disk: no other command changes
\* its identity or its secrets under it, and a restart accepts the same.
ServingMatchesDisk ==
  \A p \in Commands : pc[p] = "serving" =>
    /\ exists /\ owner = ident[p] /\ key = ident[p]
    /\ secrets = mem[p]

\* A capability that was rotated or reset away is never accepted again, by no
\* host now or later: it is neither in the state file nor in the memory of a
\* host that serves or is about to save what it has read.
RevokedStaysRevoked ==
  /\ Pairs(secrets) \cap revoked = {}
  /\ \A p \in Commands : pc[p] \in {"hostSave", "serving"} =>
       Pairs(mem[p]) \cap revoked = {}

\* Across restarts, crashes, repairs and migrations the capability of a
\* service is replaced by another one only by rotate-secret for this service.
OnlyRotationReplaces ==
  [][\A s \in Services :
       secrets[s] # 0 /\ secrets'[s] \notin {0, secrets[s]} =>
         \E p \in Commands : pc[p] = "rotateWrite" /\ s \in config[p]]_vars

\* A configured service that keeps its configuration keeps its capability:
\* it is dropped only by a host start without the service, or by a reset.
OnlyResetDrops ==
  [][\A s \in Services :
       secrets[s] # 0 /\ secrets'[s] = 0 =>
         \E p \in Commands :
           \/ pc[p] = "hostSave" /\ s \notin config[p]
           \/ pc[p] = "resetState"]_vars

\* A shared ticket names an identity that key and state file agreed on, even
\* when share reads them while a reset or a first start is half done.
TicketIdentityAdopted == issued \subseteq adopted
=============================================================================
