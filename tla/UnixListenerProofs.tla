------------------------- MODULE UnixListenerProofs -------------------------
(***************************************************************************)
(* Proofs about bind_unix and UnixListenerGuard, for any number of         *)
(* processes and of inode numbers. The argument: an open listener pins its *)
(* inode number, so the number a guard remembers (ident) can name a foreign*)
(* file only if it is given away after the listener is closed, and nothing *)
(* is created at the path while a process stands there (Exposed).          *)
(***************************************************************************)
EXTENDS UnixListener, TLAPS

\* The process has a guard and its listener is open.
Listening == {"check", "pin", "chmod", "recheck", "register", "serving"}

\* The process has a guard.
Guarded == Listening \cup {"drop", "unlink"}

\* What the guard knows: its listener pins the inode it remembers, an entry
\* with that inode is its own, and the inode whose mode it changes is that one.
GuardKnows(p) ==
  /\ pc[p] \in Guarded => ident[p] # 0 /\ (entry.ino = ident[p] => entry.owner = p)
  /\ pc[p] \in Listening => sock[p] = ident[p]
  /\ pc[p] = "identify" => entry # NoEntry /\ entry.owner = p /\ entry.ino = sock[p]
  /\ pc[p] = "chmod" => pin[p] = ident[p]
  /\ pc[p] = "unlink" => entry.ino = ident[p]

\* After chmod_socket has compared for the last time but one, the socket is private.
Restricted(p) ==
  pc[p] \in {"recheck", "register", "serving"} /\ entry.ino = ident[p] => entry.private

\* An entry whose creator has not died is the one the creator's guard knows.
Accounted(p) ==
  entry # NoEntry /\ entry.owner = p /\ ~entry.stale =>
    \/ pc[p] = "identify"
    \/ pc[p] \in Guarded /\ entry.ino = ident[p]

ForeignUntouched == entry # NoEntry /\ entry.owner = User => ~entry.private

ListenerInv ==
  /\ ForeignUntouched
  /\ \A p \in Processes : GuardKnows(p) /\ Restricted(p) /\ Accounted(p)

-----------------------------------------------------------------------------

\* The entry of a path is a file with an inode number, or there is none.
LEMMA EntryFacts ==
  ASSUME TypeOK
  PROVE  /\ entry # NoEntry => /\ entry \in Entry
                               /\ entry.ino \in Inodes
                               /\ entry.ino # 0
                               /\ entry.owner \in Processes \cup {User}
                               /\ entry.private \in BOOLEAN
                               /\ entry.stale \in BOOLEAN
         /\ entry = NoEntry => entry.ino = 0
BY ListenerAssumption DEF TypeOK, Entry, NoEntry

\* A new file has a fresh inode number, its creator as owner and an open mode.
LEMMA CreatedFacts ==
  ASSUME NEW i \in Inodes, NEW who \in Processes \cup {User}
  PROVE  /\ Created(i, who) \in Entry
         /\ Created(i, who) # NoEntry
         /\ Created(i, who).ino = i
         /\ Created(i, who).owner = who
         /\ Created(i, who).private = FALSE
         /\ Created(i, who).stale = FALSE
BY ListenerAssumption DEF Created, Entry, NoEntry

\* Changing the mode of an entry changes nothing else.
LEMMA ModeFacts ==
  ASSUME NEW e \in Entry, NEW m, m = [e EXCEPT !.private = TRUE]
  PROVE  m \in Entry /\ m # NoEntry /\ m.private /\ m.ino = e.ino /\ m.owner = e.owner /\ m.stale = e.stale
BY ListenerAssumption DEF Entry, NoEntry

\* Losing its creator changes nothing else of an entry.
LEMMA StaleFacts ==
  ASSUME NEW e \in Entry, NEW d, d = [e EXCEPT !.stale = TRUE]
  PROVE  d \in Entry /\ d # NoEntry /\ d.stale /\ d.ino = e.ino /\ d.owner = e.owner /\ d.private = e.private
BY ListenerAssumption DEF Entry, NoEntry

\* Type correctness: every process stays where bind_unix or the guard can be.
THEOREM TypeCorrect == Spec => []TypeOK
<1>1. Init => TypeOK
  BY DEF Init, TypeOK
<1>2. TypeOK /\ [Next]_vars => TypeOK'
  <2> SUFFICES ASSUME TypeOK, [Next]_vars PROVE TypeOK'
    OBVIOUS
  <2> USE DEF TypeOK, Goto
  <2>0. entry.ino \in Inodes \cup {0}
    BY EntryFacts
  <2>1. CASE Replace
    <3>1. CASE entry' = NoEntry
      BY <2>1, <3>1 DEF Replace
    <3>2. ASSUME NEW i \in Inodes, entry' = Created(i, User) PROVE TypeOK'
      BY <2>1, <3>2, CreatedFacts DEF Replace
    <3> QED
      BY <2>1, <3>1, <3>2 DEF Replace
  <2>2. ASSUME NEW p \in Processes, ProcessStep(p) PROVE TypeOK'
    <3>1. CASE Open(p)          BY <3>1 DEF Open
    <3>0. ASSUME Forsaken(p)
          PROVE  /\ entry' \in Entry \cup {NoEntry}
                 /\ pc' = [pc EXCEPT ![p] = "idle"] /\ sock' = [sock EXCEPT ![p] = 0]
      BY <3>0, EntryFacts, StaleFacts DEF Forsaken
    <3>2. ASSUME NEW ok \in BOOLEAN, RequireAbsent(p, ok) PROVE TypeOK'
      BY <3>2 DEF RequireAbsent
    <3>3. CASE Bind(p)
      <4>1. CASE UNCHANGED <<entry, sock>>
        BY <3>3, <4>1 DEF Bind
      <4>2. ASSUME NEW i \in Inodes, entry' = Created(i, p), sock' = [sock EXCEPT ![p] = i]
            PROVE  TypeOK'
        <5>1. entry' \in Entry
          BY <4>2, CreatedFacts
        <5> QED BY <3>3, <4>2, <5>1 DEF Bind
      <4> QED BY <3>3, <4>1, <4>2 DEF Bind
    <3>4. ASSUME NEW ok \in BOOLEAN, Identify(p, ok) PROVE TypeOK'
      <4>1. CASE ok   BY <3>4, <4>1, <2>0 DEF Identify
      <4>2. CASE ~ok  BY <3>4, <4>2, <3>0 DEF Identify
      <4> QED BY <4>1, <4>2
    <3>5. ASSUME NEW ok \in BOOLEAN, Check(p, ok) PROVE TypeOK'
      BY <3>5 DEF Check, Passed, Failed
    <3>6. ASSUME NEW ok \in BOOLEAN, Pin(p, ok) PROVE TypeOK'
      BY <3>6, <2>0 DEF Pin, Passed, Failed
    <3>7. ASSUME NEW ok \in BOOLEAN, Chmod(p, ok) PROVE TypeOK'
      <4>1. entry' \in Entry \cup {NoEntry}
        <5>1. CASE entry = NoEntry
          <6>1. [entry EXCEPT !.private = TRUE] = NoEntry
            BY <5>1 DEF NoEntry
          <6> QED BY <3>7, <5>1, <6>1 DEF Chmod
        <5>2. CASE entry \in Entry  BY <3>7, <5>2, ModeFacts DEF Chmod
        <5> QED BY <5>1, <5>2
      <4> QED BY <3>7, <4>1 DEF Chmod, Passed, Failed
    <3>8. ASSUME NEW ok \in BOOLEAN, Recheck(p, ok) PROVE TypeOK'
      BY <3>8 DEF Recheck, Passed, Failed
    <3>9. ASSUME NEW ok \in BOOLEAN, Register(p, ok) PROVE TypeOK'
      BY <3>9 DEF Register, Passed, Failed
    <3>10. CASE CloseListener(p) BY <3>10 DEF CloseListener
    <3>11. ASSUME NEW ok \in BOOLEAN, CheckOwned(p, ok) PROVE TypeOK'
      <4>1. CASE ok   BY <3>11, <4>1 DEF CheckOwned
      <4>2. CASE ~ok  BY <3>11, <4>2, <3>0 DEF CheckOwned
      <4> QED BY <4>1, <4>2
    <3>12. ASSUME NEW ok \in BOOLEAN, Unlink(p, ok) PROVE TypeOK'
      <4>1. CASE ok   BY <3>12, <4>1 DEF Unlink
      <4>2. CASE ~ok  BY <3>12, <4>2, <3>0 DEF Unlink
      <4> QED BY <4>1, <4>2
    <3>13. CASE Crash(p)        BY <3>13, <3>0 DEF Crash
    <3> QED
      BY <2>2, <3>1, <3>2, <3>3, <3>4, <3>5, <3>6, <3>7, <3>8, <3>9, <3>10, <3>11, <3>12, <3>13
      DEF ProcessStep
  <2>3. CASE UNCHANGED vars
    BY <2>3 DEF vars
  <2> QED
    BY <2>1, <2>2, <2>3 DEF Next
<1> QED
  BY <1>1, <1>2, PTL DEF Spec

-----------------------------------------------------------------------------

\* A file may be created at the path only where no guard could take it for its
\* own: no process stands where it relies on the path, and every inode number
\* a guard remembers is pinned by its listener.
LEMMA FreshInode ==
  ASSUME TypeOK, ListenerInv, NEW i \in Inodes, Unused(i),
         \A q \in Processes : ~Exposed(q), NEW q \in Processes
  PROVE  pc[q] # "identify" /\ (pc[q] \in Guarded => pc[q] \in Listening /\ ident[q] # i)
BY DEF TypeOK, ListenerInv, GuardKnows, Unused, Exposed, Guarded, Listening

\* Creating a file at the path disturbs nobody else's guard.
LEMMA CreationKeeps ==
  ASSUME TypeOK, ListenerInv, NEW i \in Inodes, Unused(i),
         \A q \in Processes : ~Exposed(q), NEW who \in Processes \cup {User},
         entry' = Created(i, who), UNCHANGED <<ident, pin>>,
         NEW q \in Processes, q # who, pc'[q] = pc[q], sock'[q] = sock[q]
  PROVE  (GuardKnows(q) /\ Restricted(q) /\ Accounted(q))'
<1>1. entry'.ino = i /\ entry'.owner = who /\ entry' # NoEntry
  BY CreatedFacts
<1>2. pc[q] # "identify" /\ (pc[q] \in Guarded => pc[q] \in Listening /\ ident[q] # i)
  BY FreshInode
<1> QED
  BY <1>1, <1>2 DEF ListenerInv, GuardKnows, Restricted, Accounted, Guarded, Listening

\* A step that leaves the path as it is, up to the mark of a creator's death,
\* disturbs nobody else's guard.
LEMMA OthersKeep ==
  ASSUME TypeOK, ListenerInv, NEW q \in Processes,
         pc'[q] = pc[q], sock'[q] = sock[q], ident'[q] = ident[q], pin'[q] = pin[q],
         entry' = NoEntry <=> entry = NoEntry,
         entry'.ino = entry.ino,
         entry # NoEntry => /\ entry'.owner = entry.owner
                            /\ entry.private => entry'.private
                            /\ entry.stale => entry'.stale
  PROVE  (GuardKnows(q) /\ Restricted(q) /\ Accounted(q))'
<1>1. entry.ino = ident[q] /\ pc[q] \in Guarded => entry # NoEntry
  BY EntryFacts DEF ListenerInv, GuardKnows
<1> QED
  BY <1>1 DEF ListenerInv, GuardKnows, Restricted, Accounted, Guarded, Listening

\* The guards' knowledge is kept by every step of every process, by a user who
\* keeps off an exposed path, and by a process that dies.
THEOREM GuardTheorem == Spec => []ListenerInv
<1> USE DEF ListenerInv
<1>1. Init => ListenerInv
  BY ListenerAssumption
  DEF Init, ForeignUntouched, GuardKnows, Restricted, Accounted, NoEntry, Guarded, Listening
<1>2. TypeOK /\ TypeOK' /\ ListenerInv /\ [Next]_vars => ListenerInv'
  <2> SUFFICES ASSUME TypeOK, TypeOK', ListenerInv, [Next]_vars PROVE ListenerInv'
    OBVIOUS
  <2> DEFINE Knows(q) == GuardKnows(q) /\ Restricted(q) /\ Accounted(q)
  <2>1. CASE Replace
    <3>1. CASE entry' = NoEntry
      <4>1. entry'.ino = 0
        BY <3>1 DEF NoEntry
      <4>2. ASSUME NEW q \in Processes PROVE Knows(q)'
        BY <2>1, <3>1, <4>1 DEF Replace, Exposed, GuardKnows, Restricted, Accounted, Guarded, Listening
      <4> QED BY <3>1, <4>2 DEF ForeignUntouched
    <3>2. ASSUME NEW i \in Inodes, Unused(i), entry' = Created(i, User) PROVE ListenerInv'
      <4>1. \A q \in Processes : Knows(q)'
        BY <2>1, <3>2, CreationKeeps, ListenerAssumption DEF Replace
      <4>2. ForeignUntouched'
        BY <3>2, CreatedFacts DEF ForeignUntouched
      <4> QED BY <4>1, <4>2
    <3> QED BY <2>1, <3>1, <3>2 DEF Replace
  <2>2. ASSUME NEW p \in Processes, ProcessStep(p) PROVE ListenerInv'
    <3> USE DEF Goto
    <3>0. ASSUME UNCHANGED entry, Knows(p)',
                 \A q \in Processes \ {p} : /\ pc'[q] = pc[q] /\ sock'[q] = sock[q]
                                            /\ ident'[q] = ident[q] /\ pin'[q] = pin[q]
          PROVE  ListenerInv'
      <4>1. \A q \in Processes \ {p} : Knows(q)'
        BY <3>0, OthersKeep
      <4> QED BY <3>0, <4>1 DEF ForeignUntouched
    <3> DEFINE Alone == \A q \in Processes \ {p} :
                          /\ pc'[q] = pc[q] /\ sock'[q] = sock[q]
                          /\ ident'[q] = ident[q] /\ pin'[q] = pin[q]
    <3>1. CASE Open(p)
      <4>1. Alone /\ UNCHANGED entry  BY <3>1 DEF Open, TypeOK
      <4>2. Knows(p)'
        BY <3>1 DEF Open, TypeOK, GuardKnows, Restricted, Accounted, Guarded, Listening
      <4> QED BY <4>1, <4>2, <3>0
    <3>2. ASSUME NEW ok \in BOOLEAN, RequireAbsent(p, ok) PROVE ListenerInv'
      <4>1. Alone /\ UNCHANGED entry  BY <3>2 DEF RequireAbsent, TypeOK
      <4>2. Knows(p)'
        BY <3>2 DEF RequireAbsent, TypeOK, GuardKnows, Restricted, Accounted, Guarded, Listening
      <4> QED BY <4>1, <4>2, <3>0
    <3>forsaken. ASSUME Forsaken(p), Alone PROVE ListenerInv'
      <4>0. pc'[p] = "idle"  BY <3>forsaken DEF Forsaken, TypeOK
      <4>1. CASE entry # NoEntry /\ entry.owner = p
        <5>1. /\ entry' # NoEntry /\ entry'.stale /\ entry'.ino = entry.ino
              /\ entry'.owner = entry.owner /\ entry'.private = entry.private
          <6>1. entry \in Entry
            BY <4>1, EntryFacts
          <6>2. entry' = [entry EXCEPT !.stale = TRUE]
            BY <3>forsaken, <4>1 DEF Forsaken
          <6> QED BY <6>1, <6>2, StaleFacts
        <5>2. \A q \in Processes \ {p} : Knows(q)'
          BY <3>forsaken, <4>1, <5>1, OthersKeep
        <5>3. Knows(p)'
          BY <4>0, <5>1 DEF GuardKnows, Restricted, Accounted, Guarded, Listening
        <5> QED BY <4>1, <5>1, <5>2, <5>3, ListenerAssumption DEF ForeignUntouched
      <4>2. CASE UNCHANGED entry /\ ~(entry # NoEntry /\ entry.owner = p)
        <5>1. Knows(p)'
          BY <4>0, <4>2 DEF GuardKnows, Restricted, Accounted, Guarded, Listening
        <5> QED BY <3>forsaken, <4>2, <5>1, <3>0
      <4> QED BY <3>forsaken, <4>1, <4>2 DEF Forsaken
    <3>3. CASE Bind(p)
      <4>1. CASE UNCHANGED <<entry, sock>> /\ Goto(p, "idle")
        <5>1. Alone /\ UNCHANGED entry  BY <3>3, <4>1 DEF Bind, TypeOK
        <5>2. Knows(p)'
          BY <3>3, <4>1 DEF Bind, TypeOK, GuardKnows, Restricted, Accounted, Guarded, Listening
        <5> QED BY <5>1, <5>2, <3>0
      <4>2. ASSUME NEW i \in Inodes, Unused(i), entry' = Created(i, p),
                   sock' = [sock EXCEPT ![p] = i], Goto(p, "identify"),
                   \A q \in Processes : ~Exposed(q)
            PROVE  ListenerInv'
        <5>1. \A q \in Processes \ {p} : Knows(q)'
          BY <3>3, <4>2, CreationKeeps DEF Bind, TypeOK
        <5>2. /\ entry' # NoEntry /\ entry'.ino = i /\ entry'.owner = p
              /\ sock'[p] = i /\ pc'[p] = "identify"
          BY <4>2, CreatedFacts DEF TypeOK
        <5>3. Knows(p)'
          BY <5>2 DEF GuardKnows, Restricted, Accounted, Guarded, Listening
        <5> QED BY <5>1, <5>2, <5>3, ListenerAssumption DEF ForeignUntouched
      <4> QED BY <3>3, <4>1, <4>2 DEF Bind
    <3>4. ASSUME NEW ok \in BOOLEAN, Identify(p, ok) PROVE ListenerInv'
      <4>1. CASE ok
        <5>1. Alone /\ UNCHANGED entry  BY <3>4, <4>1 DEF Identify, TypeOK
        <5>2. Knows(p)'
          BY <3>4, <4>1, EntryFacts
          DEF Identify, TypeOK, GuardKnows, Restricted, Accounted, Guarded, Listening
        <5> QED BY <5>1, <5>2, <3>0
      <4>2. CASE ~ok
        <5>1. Forsaken(p) /\ Alone  BY <3>4, <4>2 DEF Identify, Forsaken, TypeOK
        <5> QED BY <5>1, <3>forsaken
      <4> QED BY <4>1, <4>2
    <3>5. ASSUME NEW ok \in BOOLEAN, Check(p, ok) PROVE ListenerInv'
      <4>1. Alone /\ UNCHANGED entry  BY <3>5 DEF Check, Passed, Failed, TypeOK
      <4>2. Knows(p)'
        BY <3>5
        DEF Check, Passed, Failed, TypeOK, GuardKnows, Restricted, Accounted, Guarded, Listening
      <4> QED BY <4>1, <4>2, <3>0
    <3>6. ASSUME NEW ok \in BOOLEAN, Pin(p, ok) PROVE ListenerInv'
      <4>1. Alone /\ UNCHANGED entry  BY <3>6 DEF Pin, Passed, Failed, TypeOK
      <4>2. Knows(p)'
        BY <3>6
        DEF Pin, Pinned, Passed, Failed, TypeOK, GuardKnows, Restricted, Accounted, Guarded, Listening
      <4> QED BY <4>1, <4>2, <3>0
    <3>7. ASSUME NEW ok \in BOOLEAN, Chmod(p, ok) PROVE ListenerInv'
      <4>0. Alone  BY <3>7 DEF Chmod, Passed, Failed, TypeOK
      <4>1. CASE UNCHANGED entry /\ ~(ok /\ entry.ino = pin[p])
        <5>1. Knows(p)'
          BY <3>7, <4>1
          DEF Chmod, Passed, Failed, TypeOK, GuardKnows, Restricted, Accounted, Guarded, Listening
        <5> QED BY <4>0, <4>1, <5>1, <3>0
      <4>2. CASE ok /\ entry.ino = pin[p]
        <5>1. entry # NoEntry /\ entry.owner = p /\ entry \in Entry
          BY <3>7, <4>2, EntryFacts DEF Chmod, GuardKnows, Guarded, Listening
        <5>2. /\ entry' # NoEntry /\ entry'.private /\ entry'.ino = entry.ino
              /\ entry'.owner = entry.owner /\ entry'.stale = entry.stale
          BY <3>7, <4>2, <5>1, ModeFacts DEF Chmod
        <5>3. \A q \in Processes \ {p} : Knows(q)'
          BY <4>0, <5>1, <5>2, OthersKeep
        <5>4. Knows(p)'
          BY <3>7, <4>2, <5>1, <5>2
          DEF Chmod, Passed, TypeOK, GuardKnows, Restricted, Accounted, Guarded, Listening
        <5> QED BY <5>1, <5>2, <5>3, <5>4, ListenerAssumption DEF ForeignUntouched
      <4> QED BY <3>7, <4>1, <4>2 DEF Chmod
    <3>8. ASSUME NEW ok \in BOOLEAN, Recheck(p, ok) PROVE ListenerInv'
      <4>1. Alone /\ UNCHANGED entry  BY <3>8 DEF Recheck, Passed, Failed, TypeOK
      <4>2. Knows(p)'
        BY <3>8
        DEF Recheck, Passed, Failed, TypeOK, GuardKnows, Restricted, Accounted, Guarded, Listening
      <4> QED BY <4>1, <4>2, <3>0
    <3>9. ASSUME NEW ok \in BOOLEAN, Register(p, ok) PROVE ListenerInv'
      <4>1. Alone /\ UNCHANGED entry  BY <3>9 DEF Register, Passed, Failed, TypeOK
      <4>2. Knows(p)'
        BY <3>9
        DEF Register, Passed, Failed, TypeOK, GuardKnows, Restricted, Accounted, Guarded, Listening
      <4> QED BY <4>1, <4>2, <3>0
    <3>10. CASE CloseListener(p)
      <4>1. Alone /\ UNCHANGED entry  BY <3>10 DEF CloseListener, TypeOK
      <4>2. Knows(p)'
        BY <3>10 DEF CloseListener, TypeOK, GuardKnows, Restricted, Accounted, Guarded, Listening
      <4> QED BY <4>1, <4>2, <3>0
    <3>11. ASSUME NEW ok \in BOOLEAN, CheckOwned(p, ok) PROVE ListenerInv'
      <4>1. CASE ok
        <5>1. Alone /\ UNCHANGED entry  BY <3>11, <4>1 DEF CheckOwned, TypeOK
        <5>2. Knows(p)'
          BY <3>11, <4>1
          DEF CheckOwned, Owned, TypeOK, GuardKnows, Restricted, Accounted, Guarded, Listening
        <5> QED BY <5>1, <5>2, <3>0
      <4>2. CASE ~ok
        <5>1. Forsaken(p) /\ Alone  BY <3>11, <4>2 DEF CheckOwned, Forsaken, TypeOK
        <5> QED BY <5>1, <3>forsaken
      <4> QED BY <4>1, <4>2
    <3>12. ASSUME NEW ok \in BOOLEAN, Unlink(p, ok) PROVE ListenerInv'
      <4>1. CASE ok
        <5>0. Alone  BY <3>12, <4>1 DEF Unlink, TypeOK
        <5>1. entry' = NoEntry /\ entry'.ino = 0 /\ pc'[p] = "idle" /\ UNCHANGED ident
          BY <3>12, <4>1 DEF Unlink, TypeOK, NoEntry
        <5>2. entry.ino = ident[p] /\ entry.owner = p /\ entry # NoEntry
          BY <3>12, EntryFacts DEF Unlink, GuardKnows, Guarded
        <5>3. ASSUME NEW q \in Processes \ {p} PROVE Knows(q)'
          <6>1. pc[q] \notin {"identify", "unlink"}
            BY <5>2 DEF GuardKnows, Guarded
          <6> QED BY <5>0, <5>1, <6>1 DEF GuardKnows, Restricted, Accounted, Guarded, Listening
        <5>4. Knows(p)'
          BY <5>1 DEF GuardKnows, Restricted, Accounted, Guarded, Listening
        <5> QED BY <5>1, <5>3, <5>4 DEF ForeignUntouched
      <4>2. CASE ~ok
        <5>1. Forsaken(p) /\ Alone  BY <3>12, <4>2 DEF Unlink, Forsaken, TypeOK
        <5> QED BY <5>1, <3>forsaken
      <4> QED BY <4>1, <4>2
    <3>13. CASE Crash(p)
      <4>1. Forsaken(p) /\ Alone  BY <3>13 DEF Crash, Forsaken, TypeOK
      <4> QED BY <4>1, <3>forsaken
    <3> QED
      BY <2>2, <3>1, <3>2, <3>3, <3>4, <3>5, <3>6, <3>7, <3>8, <3>9, <3>10, <3>11, <3>12, <3>13
      DEF ProcessStep
  <2>3. CASE UNCHANGED vars
    BY <2>3 DEF vars, ForeignUntouched, GuardKnows, Restricted, Accounted
  <2> QED
    BY <2>1, <2>2, <2>3 DEF Next
<1> QED
  BY <1>1, <1>2, TypeCorrect, PTL DEF Spec

-----------------------------------------------------------------------------

\* chmod_socket never changes the mode of a file its process did not create,
\* and a socket that is served under its name has been restricted.
THEOREM RestrictTheorem == Spec => []OnlyOwnRestricted
<1>1. TypeOK /\ ListenerInv => OnlyOwnRestricted
  BY EntryFacts
  DEF ListenerInv, ForeignUntouched, GuardKnows, Restricted, OnlyOwnRestricted, Guarded, Listening
<1> QED
  BY <1>1, TypeCorrect, GuardTheorem, PTL

\* A bind that fails anywhere after the guard was made, and a guard that is dropped,
\* remove their socket, unless the process dies or the removal itself is refused.
THEOREM CleanupTheorem == Spec => []NothingLeftBehind
<1>1. TypeOK /\ ListenerInv => NothingLeftBehind
  BY EntryFacts DEF ListenerInv, Accounted, NothingLeftBehind, Guarded, Listening
<1> QED
  BY <1>1, TypeCorrect, GuardTheorem, PTL

\* unlink_owned removes only the socket its own process created, even when the
\* entry was replaced and inode numbers were given away again.
THEOREM RemovalTheorem == Spec => OnlyOwnRemoved
<1> DEFINE Removal == \A p \in Processes :
      ProcessStep(p) /\ entry # NoEntry /\ entry'.ino # entry.ino => entry.owner = p
<1>1. TypeOK /\ ListenerInv /\ [Next]_vars => [Removal]_vars
  <2> SUFFICES ASSUME TypeOK, ListenerInv, NEW p \in Processes, ProcessStep(p),
                      entry # NoEntry, entry'.ino # entry.ino
               PROVE  entry.owner = p
    BY DEF Next
  <2>1. ASSUME NEW ok \in BOOLEAN, Unlink(p, ok) PROVE entry.owner = p
    BY <2>1 DEF Unlink, ListenerInv, GuardKnows, Guarded
  <2>2. ASSUME NEW ok \in BOOLEAN, Chmod(p, ok) PROVE FALSE
    <3>1. entry' = entry \/ entry' = [entry EXCEPT !.private = TRUE]
      BY <2>2 DEF Chmod
    <3>2. CASE entry' = [entry EXCEPT !.private = TRUE]
      BY <3>2, EntryFacts, ModeFacts
    <3> QED BY <3>1, <3>2
  <2>3. ASSUME Forsaken(p) PROVE FALSE
    <3>1. entry' = entry \/ entry' = [entry EXCEPT !.stale = TRUE]
      BY <2>3 DEF Forsaken
    <3>2. CASE entry' = [entry EXCEPT !.stale = TRUE]
      BY <3>2, EntryFacts, StaleFacts
    <3> QED BY <3>1, <3>2
  <2>4. \/ Forsaken(p) \/ \E ok \in BOOLEAN : Unlink(p, ok) \/ Chmod(p, ok)
    <3>1. CASE Open(p) \/ Bind(p) \/ CloseListener(p) \/ Crash(p)
      BY <3>1 DEF Open, Bind, CloseListener, Crash
    <3>2. ASSUME NEW ok \in BOOLEAN,
                 \/ RequireAbsent(p, ok) \/ Identify(p, ok) \/ Check(p, ok) \/ Pin(p, ok)
                 \/ Recheck(p, ok) \/ Register(p, ok) \/ CheckOwned(p, ok)
          PROVE  Forsaken(p)
      BY <3>2 DEF RequireAbsent, Identify, Check, Pin, Recheck, Register, CheckOwned
    <3> QED BY <3>1, <3>2 DEF ProcessStep
  <2> QED
    BY <2>1, <2>2, <2>3, <2>4
<1> QED
  BY <1>1, TypeCorrect, GuardTheorem, PTL DEF Spec, OnlyOwnRemoved
=============================================================================
