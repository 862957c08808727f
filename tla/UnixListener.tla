---------------------------- MODULE UnixListener ----------------------------
(***************************************************************************)
(* bind_unix and UnixListenerGuard on Linux: processes that bind a socket  *)
(* at the same path, restrict its mode and remove it again, while a user   *)
(* may remove or replace the directory entry, any process may die and any  *)
(* system call may fail.                                                   *)
(*                                                                         *)
(* A guard knows its socket by its inode number. The number of an inode    *)
(* that no entry names and no open listener pins may be given to the next  *)
(* file. validate_path and the checks of Parent::open only refuse a path;  *)
(* the directory is private, so everybody here has the same user id.       *)
(*                                                                         *)
(* Environment: filesystem.rs asks that nobody races a listener's path. It *)
(* needs that in two places only: between bind and the first look at the   *)
(* inode, and between the close of the listener and the removal (Exposed). *)
(***************************************************************************)
EXTENDS Naturals

CONSTANTS
  Processes,  \* processes that attach a service at this path
  User,       \* whoever else changes the directory
  Inodes      \* inode numbers, more than can be in use at once

ASSUME ListenerAssumption == User \notin Processes /\ 0 \notin Inodes /\ Inodes \subseteq Nat

VARIABLES
  entry,  \* the directory entry of the path: its inode, creator and mode, and
          \* whether its creator lost the means to remove it (stale)
  pc,     \* where each process is in bind_unix or in the guard's life
  sock,   \* the inode its open listener pins, or 0
  ident,  \* guard.identity
  pin     \* the inode of its O_PATH descriptor, or 0

vars == <<entry, pc, sock, ident, pin>>

Entry == [ino : Inodes, owner : Processes \cup {User}, private : BOOLEAN, stale : BOOLEAN]
NoEntry == [ino |-> 0]

TypeOK ==
  /\ entry \in Entry \cup {NoEntry}
  /\ pc \in [Processes -> {"idle", "absent", "bind", "identify", "check", "pin", "chmod",
                           "recheck", "register", "serving", "drop", "unlink"}]
  /\ sock \in [Processes -> Inodes \cup {0}]
  /\ ident \in [Processes -> Inodes \cup {0}]
  /\ pin \in [Processes -> Inodes \cup {0}]

Init ==
  /\ entry = NoEntry
  /\ pc = [p \in Processes |-> "idle"]
  /\ sock = [p \in Processes |-> 0]
  /\ ident = [p \in Processes |-> 0]
  /\ pin = [p \in Processes |-> 0]

Unused(i) == i # entry.ino /\ \A p \in Processes : i \notin {sock[p], pin[p]}

\* Another process is where the path must not be changed under it.
Exposed(p) == pc[p] \in {"identify", "drop", "unlink"}

Created(i, who) == [ino |-> i, owner |-> who, private |-> FALSE, stale |-> FALSE]

Goto(p, to) == pc' = [pc EXCEPT ![p] = to]

-----------------------------------------------------------------------------
(* bind_unix                                                               *)

\* Parent::open
Open(p) ==
  /\ pc[p] = "idle" /\ Goto(p, "absent")
  /\ UNCHANGED <<entry, sock, ident, pin>>

RequireAbsent(p, ok) ==
  /\ pc[p] = "absent"
  /\ Goto(p, IF ok /\ entry = NoEntry THEN "bind" ELSE "idle")
  /\ UNCHANGED <<entry, sock, ident, pin>>

\* bind creates the entry, or fails: with EADDRINUSE when there is one.
Bind(p) ==
  /\ pc[p] = "bind"
  /\ \/ /\ entry = NoEntry /\ \A q \in Processes : ~Exposed(q)
        /\ \E i \in Inodes :
             /\ Unused(i)
             /\ entry' = Created(i, p) /\ sock' = [sock EXCEPT ![p] = i]
        /\ Goto(p, "identify")
     \/ /\ Goto(p, "idle")
        /\ UNCHANGED <<entry, sock>>
  /\ UNCHANGED <<ident, pin>>

\* The process closes its listener and is done with the path; an entry it has
\* created and not removed stays.
Forsaken(p) ==
  /\ entry' = IF entry # NoEntry /\ entry.owner = p THEN [entry EXCEPT !.stale = TRUE] ELSE entry
  /\ sock' = [sock EXCEPT ![p] = 0]
  /\ Goto(p, "idle")

\* identity(), after which the guard cleans up. An error before that (identity()
\* itself, or the listen(2) in the library's bind) returns without a guard.
Identify(p, ok) ==
  /\ pc[p] = "identify"
  /\ IF ok
     THEN /\ ident' = [ident EXCEPT ![p] = entry.ino]
          /\ Goto(p, "check")
          /\ UNCHANGED <<entry, sock>>
     ELSE Forsaken(p) /\ UNCHANGED ident
  /\ UNCHANGED pin

\* Fault: an error after the guard was made does not drop it.
FailedNoGuard(p) == Goto(p, "idle") /\ sock' = [sock EXCEPT ![p] = 0]

\* An error after the guard exists drops the guard, and the listener after it.
Failed(p) == Goto(p, "drop") /\ UNCHANGED sock

Passed(p, to) == Goto(p, to) /\ UNCHANGED sock

\* chmod_socket compares,
Check(p, ok) ==
  /\ pc[p] = "check"
  /\ IF ok /\ entry.ino = ident[p] THEN Passed(p, "pin") ELSE Failed(p)
  /\ UNCHANGED <<entry, ident, pin>>

\* Fault: the mode of whatever was opened is changed.
PinnedAny(p) == entry # NoEntry

Pinned(p) == entry # NoEntry /\ entry.ino = ident[p]

\* opens the entry and compares again,
Pin(p, ok) ==
  /\ pc[p] = "pin"
  /\ IF ok /\ Pinned(p)
     THEN pin' = [pin EXCEPT ![p] = entry.ino] /\ Passed(p, "chmod")
     ELSE UNCHANGED pin /\ Failed(p)
  /\ UNCHANGED <<entry, ident>>

\* changes the mode of the opened inode,
Chmod(p, ok) ==
  /\ pc[p] = "chmod"
  /\ entry' = IF ok /\ entry.ino = pin[p] THEN [entry EXCEPT !.private = TRUE] ELSE entry
  /\ pin' = [pin EXCEPT ![p] = 0]
  /\ IF ok THEN Passed(p, "recheck") ELSE Failed(p)
  /\ UNCHANGED ident

\* and compares a last time.
Recheck(p, ok) ==
  /\ pc[p] = "recheck"
  /\ IF ok /\ entry.ino = ident[p] THEN Passed(p, "register") ELSE Failed(p)
  /\ UNCHANGED <<entry, ident, pin>>

\* set_nonblocking and from_std
Register(p, ok) ==
  /\ pc[p] = "register"
  /\ IF ok THEN Passed(p, "serving") ELSE Failed(p)
  /\ UNCHANGED <<entry, ident, pin>>

-----------------------------------------------------------------------------
(* Drop for UnixListenerGuard                                              *)

\* The listener is closed first.
CloseListener(p) ==
  /\ pc[p] = "serving"
  /\ sock' = [sock EXCEPT ![p] = 0]
  /\ Goto(p, "drop")
  /\ UNCHANGED <<entry, ident, pin>>

\* Fault: the name is enough.
OwnedByName(p) == entry # NoEntry

Owned(p) == entry.ino = ident[p]

\* unlink_owned looks at the entry; if it cannot, it leaves the entry alone...
CheckOwned(p, ok) ==
  /\ pc[p] = "drop"
  /\ \/ ok /\ Owned(p) /\ Goto(p, "unlink") /\ UNCHANGED <<entry, sock>>
     \/ /\ ok /\ ~Owned(p)
        /\ Goto(p, "idle") /\ sock' = [sock EXCEPT ![p] = 0] /\ UNCHANGED entry
     \/ ~ok /\ Forsaken(p)
  /\ UNCHANGED <<ident, pin>>

\* ...and then removes it, whether or not that succeeds; a listener not yet in
\* the guard is closed after it.
Unlink(p, ok) ==
  /\ pc[p] = "unlink"
  /\ IF ok
     THEN entry' = NoEntry /\ sock' = [sock EXCEPT ![p] = 0] /\ Goto(p, "idle")
     ELSE Forsaken(p)
  /\ UNCHANGED <<ident, pin>>

-----------------------------------------------------------------------------
(* The environment (external).                                             *)

\* A process dies: its descriptors close, its entry stays.
Crash(p) ==
  /\ pc[p] # "idle"
  /\ Forsaken(p) /\ pin' = [pin EXCEPT ![p] = 0]
  /\ UNCHANGED ident

\* The user removes the entry, or puts another socket in its place.
Replace ==
  /\ \A p \in Processes : ~Exposed(p)
  /\ \/ entry # NoEntry /\ entry' = NoEntry
     \/ \E i \in Inodes : Unused(i) /\ entry' = Created(i, User)
  /\ UNCHANGED <<pc, sock, ident, pin>>

ProcessStep(p) ==
  \/ Open(p) \/ Bind(p) \/ CloseListener(p) \/ Crash(p)
  \/ \E ok \in BOOLEAN :
       \/ RequireAbsent(p, ok) \/ Identify(p, ok) \/ Check(p, ok) \/ Pin(p, ok) \/ Chmod(p, ok)
       \/ Recheck(p, ok) \/ Register(p, ok) \/ CheckOwned(p, ok) \/ Unlink(p, ok)

Next == Replace \/ \E p \in Processes : ProcessStep(p)

Spec == Init /\ [][Next]_vars

-----------------------------------------------------------------------------

\* A guard removes or replaces only an entry its own process created, whatever
\* was put in its place meanwhile and whichever inode numbers were used again.
OnlyOwnRemoved ==
  [][\A p \in Processes :
       ProcessStep(p) /\ entry # NoEntry /\ entry'.ino # entry.ino => entry.owner = p]_vars

\* The mode of a foreign file is never changed, and a listener that is served
\* under its name has had its mode restricted.
OnlyOwnRestricted ==
  entry # NoEntry =>
    IF entry.owner = User THEN ~entry.private
    ELSE pc[entry.owner] = "serving" /\ entry.ino = sock[entry.owner] => entry.private

\* Removal is best effort, but a bind that fails anywhere after the guard was made
\* and a guard that is dropped do remove their socket: one stays at the path only
\* where its creator died, had no guard yet, or was refused the removal itself.
NothingLeftBehind ==
  entry # NoEntry /\ entry.owner # User /\ pc[entry.owner] = "idle" => entry.stale
=============================================================================
