------------------------- MODULE LinkedChannel_proofs -------------------------
(***************************************************************************)
(* Proofs about the two parts of the WhatsApp channel that outlive a       *)
(* message: the files of its linked session and its cadence guard.  They   *)
(* share nothing; each half extends its own component.                     *)
(*                                                                         *)
(* LinkStore.  A session logged out is lost because the key of every file  *)
(* that holds it, and of a gateway that still serves it, is gone from the  *)
(* disk before the session counts as logged out, and no key is made twice  *)
(* (GoneInv).  A session that is counted on is in session.enc or, when     *)
(* that is empty, in session.enc.prev, sealed with a key on disk, and a    *)
(* gateway can only be serving that one (LinkInv).                         *)
(*                                                                         *)
(* Cadencia.  The queue of a chat holds every turn of the window, pruned   *)
(* or not, and a sweep wipes nothing that still counts (TurnsInv, Wiped).  *)
(* A backoff promised stays in the map until it is over (BackoffInv).      *)
(***************************************************************************)
EXTENDS LinkStore, Cadencia, SequenceTheorems, WellFoundedInduction, TLAPS

(* No file comes from nowhere.                                             *)
Sealed(f) == f = NoFile \/ (f.s \in 1..made /\ f.k \in 1..minted)
FilesSealed == Sealed(live) /\ Sealed(prev)

(* Where a command has its key in memory.                                  *)
HoldsKey == {"begun", "spawned", "validating", "qr", "connected", "saved", "proved"}

(* A command by where it is.                                               *)
CliShape ==
  /\ cli.key \in 0..minted /\ cli.session \in 0..made /\ cli.blob \in 0..made
  /\ cli.pc \in HoldsKey => cli.key # 0
  /\ cli.pc \in {"idle", "logout"} => cli.session = 0 /\ cli.blob = 0 /\ cli.key = 0
  /\ cli.pc = "logout" => cli.todo # 0
  /\ cli.alone => gw.pc = "off"

(* A supervisor by where it is.                                            *)
GwShape ==
  /\ gw.key \in 0..minted /\ gw.s \in 0..made
  /\ gw.pc \in {"on", "serving", "purge"} => gw.key # 0
  /\ gw.s # 0 => gw.pc \in {"serving", "purge", "disable"} /\ gw.key # 0
  /\ gw.pc = "serving" => gw.s # 0
  /\ gw.pc = "purge" => gw.todo # 0

Shape == FilesSealed /\ CliShape /\ GwShape

(* Where a session logged out may still be, and where it may not.  Before  *)
(* the last file of a purge is shredded the random key is new or absent.   *)
GoneInv ==
  /\ \A f \in {live, prev} : f.s \in gone => f.k \notin {keyfile, salt, cli.key}
  /\ gw.s \in gone => gw.key \notin {keyfile, salt, cli.key}
  /\ cli.session \notin gone /\ cli.blob \notin gone
  /\ cli.pc = "logout" /\ cli.todo = 4 =>
       /\ \A f \in {live, prev} : f # NoFile => f.k # keyfile
       /\ gw.s # 0 => gw.key # keyfile

OnDisk(k) == k # 0 /\ k \in {keyfile, salt}
Holds(f) == f.s = linked /\ OnDisk(f.k)

(* Where the session counted on is.  Until a pairing has a session of its  *)
(* own on disk it is in the archive, and no purge is under way.            *)
LinkInv ==
  /\ cli.alone /\ cli.pc \in HoldsKey => OnDisk(cli.key)
  /\ cli.pc = "proved" => prev = NoFile \/ prev.k = cli.key
  /\ linked # 0 =>
       /\ IF live # NoFile THEN Holds(live) ELSE Holds(prev)
       /\ gw.s # 0 => gw.s = linked /\ OnDisk(gw.key)
       /\ gw.pc # "purge"
       /\ cli.pc \in Pairing \cup {"dead"} /\ cli.session # linked => Holds(prev)
       /\ cli.pc = "dead" => cli.session # linked
       /\ cli.pc = "saved" => live # NoFile
       /\ cli.pc \notin {"deadSalt", "logout"}

-------------------------------------------------------------------------------
(* What Open makes of a command that finds a session.                      *)
LEMMA Opened ==
  ASSUME TypeOK, Open, live # NoFile /\ live.k = cli.key
  PROVE  cli' = [pc |-> "validating", key |-> cli.key, relink |-> cli.relink,
                 had |-> TRUE, session |-> live.s, blob |-> cli.blob,
                 todo |-> cli.todo, alone |-> cli.alone]
  BY DEF Open, TypeOK, Commands

(* What ShowQr makes of a command.                                         *)
LEMMA QrShown ==
  ASSUME TypeOK, ShowQr
  PROVE  cli' = [pc |-> "qr", key |-> cli.key, relink |-> cli.relink,
                 had |-> cli.had, session |-> 0, blob |-> cli.blob,
                 todo |-> cli.todo, alone |-> cli.alone]
  BY DEF ShowQr, TypeOK, Commands

(* What LogoutBegin makes of a command.                                    *)
LEMMA LogoutBegun ==
  ASSUME LogoutBegin
  PROVE  cli' = [pc |-> "logout", key |-> 0, relink |-> FALSE, had |-> FALSE,
                 session |-> 0, blob |-> 0, todo |-> 1, alone |-> FALSE]
  BY DEF LogoutBegin, NoCommand

(* What the last step of a logout makes of a command.                      *)
LEMMA LoggedOut ==
  ASSUME LogoutStep, cli.todo = 4
  PROVE  cli' = [pc |-> "disable", key |-> 0, relink |-> FALSE, had |-> FALSE,
                 session |-> 0, blob |-> 0, todo |-> 0, alone |-> FALSE]
  BY DEF LogoutStep, NoCommand

(* What Serve makes of a supervisor that finds a session.                  *)
LEMMA Served ==
  ASSUME TypeOK, Serve, live # NoFile
  PROVE  gw' = [pc |-> "serving", key |-> gw.key, s |-> live.s, todo |-> gw.todo]
  BY DEF Serve, TypeOK, Supervisors

(* What Fall makes of a supervisor.                                        *)
LEMMA Fallen ==
  ASSUME TypeOK, Fall
  PROVE  gw' = [pc |-> "on", key |-> gw.key, s |-> 0, todo |-> gw.todo]
  BY DEF Fall, TypeOK, Supervisors

(* What ServeDead makes of a supervisor.                                   *)
LEMMA FoundDead ==
  ASSUME TypeOK, ServeDead
  PROVE  gw' = [pc |-> "purge", key |-> gw.key, s |-> gw.s, todo |-> 1]
  BY DEF ServeDead, TypeOK, Supervisors

(* What the last step of a purge makes of a supervisor.                    *)
LEMMA Purged ==
  ASSUME TypeOK, ServePurge, gw.todo = 4
  PROVE  gw' = [pc |-> "disable", key |-> gw.key, s |-> gw.s, todo |-> 0]
<1>1. gw' = [gw EXCEPT !.pc = "disable", !.todo = 0]
  BY DEF ServePurge
<1>2. QED BY <1>1 DEF TypeOK, Supervisors

(* A key that is resolved is there; what was made before stays.            *)
LEMMA KeyResolved ==
  ASSUME TypeOK, NEW pass \in BOOLEAN, NEW k \in Key, Resolves(pass, k)
  PROVE  /\ k # 0 /\ k \in {keyfile', salt'} /\ k <= minted'
         /\ keyfile' \in 0..minted' /\ salt' \in 0..minted'
         /\ minted' \in Key /\ minted <= minted'
         /\ k \in {keyfile, salt} \/ k = minted + 1
         /\ keyfile' = keyfile \/ (keyfile = 0 /\ keyfile' = k /\ k = minted + 1)
         /\ salt' = salt \/ (salt = 0 /\ salt' = k /\ k = minted + 1)
  BY StoreAssumption DEF Resolves, TypeOK, Key, keys

(* A command that is over.                                                 *)
LEMMA AtRest ==
  ASSUME cli' = NoCommand
  PROVE  /\ cli'.pc = "idle" /\ cli'.key = 0 /\ cli'.session = 0 /\ cli'.blob = 0
         /\ ~cli'.alone
  BY DEF NoCommand

(* A link or a restore that has begun has its key, and nothing else yet.   *)
LEMMA LinkBegun ==
  ASSUME NEW pass \in BOOLEAN, NEW relink \in BOOLEAN, LinkBegin(pass, relink)
  PROVE  \E k \in Key :
           /\ Resolves(pass, k)
           /\ cli' \in Commands
           /\ cli'.pc = "begun" /\ cli'.key = k /\ cli'.session = 0 /\ cli'.blob = 0
           /\ cli'.alone => gw.pc = "off"
<1>1. PICK k \in Key : Resolves(pass, k) /\ cli' = Started("begun", k, relink)
  BY DEF LinkBegin
<1>2. cli' \in Commands
  BY <1>1, StoreAssumption DEF Started, Commands, Session, Key
<1>3. cli'.pc = "begun" /\ cli'.key = k /\ cli'.session = 0 /\ cli'.blob = 0
  BY <1>1 DEF Started
<1>4. cli'.alone => gw.pc = "off"
  BY <1>1, Zenon DEF Started
<1>5. QED BY <1>1, <1>2, <1>3, <1>4, Zenon

LEMMA RestoreBegun ==
  ASSUME NEW pass \in BOOLEAN, RestoreBegin(pass)
  PROVE  \E k \in Key :
           /\ Resolves(pass, k)
           /\ \/ /\ prev.k = k
                 /\ cli' \in Commands
                 /\ cli'.pc = "proved" /\ cli'.key = k /\ cli'.session = 0 /\ cli'.blob = 0
                 /\ cli'.alone => gw.pc = "off"
              \/ cli' = NoCommand
<1>1. PICK k \in Key :
        /\ Resolves(pass, k)
        /\ cli' = IF prev.k = k THEN Started("proved", k, FALSE) ELSE NoCommand
  BY DEF RestoreBegin
<1>2. CASE prev.k = k
  <2>1. cli' = Started("proved", k, FALSE)
    BY <1>1, <1>2, Zenon
  <2>2. cli' \in Commands
    BY <2>1, StoreAssumption DEF Started, Commands, Session, Key
  <2>3. cli'.pc = "proved" /\ cli'.key = k /\ cli'.session = 0 /\ cli'.blob = 0
    BY <2>1 DEF Started
  <2>4. cli'.alone => gw.pc = "off"
    BY <2>1, Zenon DEF Started
  <2>5. QED BY <1>1, <1>2, <2>2, <2>3, <2>4, Zenon
<1>3. CASE prev.k # k
  BY <1>1, <1>3, Zenon
<1>4. QED BY <1>2, <1>3

-------------------------------------------------------------------------------
(* Every step keeps the types and the shape.                               *)
LEMMA TypeStep ==
  ASSUME TypeOK, Shape, [Next]_vars
  PROVE  TypeOK' /\ Shape'
<1>1. ASSUME NEW pass \in BOOLEAN, NEW relink \in BOOLEAN, LinkBegin(pass, relink)
      PROVE TypeOK' /\ Shape'
  <2> PICK k \in Key :
           /\ Resolves(pass, k)
           /\ cli' \in Commands
           /\ cli'.pc = "begun" /\ cli'.key = k /\ cli'.session = 0 /\ cli'.blob = 0
           /\ cli'.alone => gw.pc = "off"
    BY <1>1, LinkBegun
  <2>1. /\ k # 0 /\ k <= minted' /\ minted <= minted'
        /\ keyfile' \in 0..minted' /\ salt' \in 0..minted' /\ minted' \in Key
    BY KeyResolved
  <2>2. UNCHANGED <<live, prev, enabled, made, revoked, linked, gone>> /\ UNCHANGED gw
    BY <1>1 DEF LinkBegin, files, world, history
  <2>3. TypeOK'
    BY <2>1, <2>2 DEF TypeOK
  <2>4. CliShape'
    <3>1. k \in 0..minted' /\ 0 \in 0..made'
      BY <2>1, <2>2, StoreAssumption DEF TypeOK, Key, Session
    <3>2. QED BY <2>1, <2>2, <3>1 DEF CliShape, HoldsKey
  <2>5. QED BY <2>1, <2>2, <2>3, <2>4
          DEF TypeOK, Shape, FilesSealed, Sealed, GwShape, Key
<1>2. CASE SetAside
  BY <1>2, StoreAssumption
    DEF SetAside, Archive, files, keys, world, history, NoFile, TypeOK, Shape,
        FilesSealed, Sealed, CliShape, GwShape, Commands, HoldsKey, File,
        Session, Key
<1>3. CASE Open
  <2>1. /\ UNCHANGED <<enabled, made, revoked, linked, gone, keyfile, salt, minted, gw>>
        /\ live' \in {live, NoFile} /\ prev' \in {prev, live} /\ cli.pc = "spawned"
    BY <1>3 DEF Open, Archive, files, keys, world, history
  <2>2. CASE live # NoFile /\ live.k = cli.key
    <3>1. live.s \in 1..made
      BY <2>2 DEF Shape, FilesSealed, Sealed
    <3> DEFINE c == [pc |-> "validating", key |-> cli.key, relink |-> cli.relink,
                     had |-> TRUE, session |-> live.s, blob |-> cli.blob,
                     todo |-> cli.todo, alone |-> cli.alone]
    <3>2. cli' = c
      BY <1>3, <2>2, Opened
    <3>3. cli' \in Commands
      BY <3>2 DEF TypeOK, Commands, File
    <3>4. CliShape'
      BY <2>1, <3>1, <3>2 DEF TypeOK, Shape, CliShape, HoldsKey, Session
    <3>5. TypeOK'
      BY <2>1, <3>3, StoreAssumption DEF TypeOK, File, NoFile, Session, Key
    <3>6. FilesSealed' /\ GwShape'
      BY <2>1 DEF Shape, FilesSealed, Sealed, GwShape
    <3>7. QED BY <3>4, <3>5, <3>6 DEF Shape
  <2>3. CASE ~(live # NoFile /\ live.k = cli.key)
    <3>1. cli' = [cli EXCEPT !.pc = "qr"]
      BY <1>3, <2>3 DEF Open
    <3>2. cli' \in Commands /\ CliShape'
      BY <2>1, <3>1 DEF TypeOK, Commands, Shape, CliShape, HoldsKey
    <3>3. QED BY <2>1, <3>2, StoreAssumption
            DEF TypeOK, Shape, FilesSealed, Sealed, GwShape, File, NoFile, Session, Key
  <2>4. QED BY <2>2, <2>3
<1>4. CASE ShowQr
  <2>1. cli' \in Commands
    BY <1>4, QrShown, StoreAssumption
      DEF ShowQr, Archive, files, keys, world, history, TypeOK, Shape,
          FilesSealed, Sealed, NoFile, NoCommand, Pairing, Commands, Session, Key
  <2>2. gw' \in Supervisors
    BY <1>4, StoreAssumption
      DEF ShowQr, Archive, files, keys, world, history, TypeOK, Shape,
          FilesSealed, Sealed, NoFile, Down, Supervisors, Session, Key
  <2>3. /\ live' \in File /\ prev' \in File
        /\ keyfile' \in 0..minted' /\ salt' \in 0..minted' /\ enabled' \in BOOLEAN
        /\ made' \in Session /\ minted' \in Key
        /\ revoked' \subseteq 1..made' /\ gone' \subseteq 1..made' /\ linked' \in 0..made'
    BY <1>4, StoreAssumption
      DEF ShowQr, Archive, files, keys, world, history, TypeOK, File, NoFile,
          Session, Key
  <2>4. FilesSealed'
    BY <1>4, StoreAssumption
      DEF ShowQr, Archive, files, keys, world, history, TypeOK, File, NoFile,
          Shape, FilesSealed, CliShape, GwShape, Sealed, HoldsKey
  <2>5. CliShape'
    BY <1>4, QrShown, StoreAssumption
      DEF ShowQr, Archive, files, keys, world, history, TypeOK, NoCommand,
          NoFile, Down, Pairing, Shape, CliShape, FilesSealed, Sealed, HoldsKey,
          Commands, Session, Key
  <2>6. GwShape'
    BY <1>4, StoreAssumption
      DEF ShowQr, Archive, files, keys, world, history, TypeOK, NoFile, Down,
          Shape, GwShape, FilesSealed, Sealed, Supervisors, Session, Key
  <2>7. QED BY <2>1, <2>2, <2>3, <2>4, <2>5, <2>6 DEF TypeOK, Shape
<1>5. CASE Scan
  BY <1>5, StoreAssumption
    DEF Scan, files, keys, history, TypeOK, Shape, FilesSealed, Sealed, CliShape,
        GwShape, Commands, HoldsKey, NoFile, File, Session, Key
<1>6. CASE Connect
  BY <1>6
    DEF Connect, files, keys, world, history, TypeOK, Shape, FilesSealed, Sealed,
        CliShape, GwShape, Commands, HoldsKey
<1>7. CASE Update
  BY <1>7
    DEF Update, files, keys, world, history, Pairing, TypeOK, Shape, FilesSealed,
        Sealed, CliShape, GwShape, Commands, HoldsKey
<1>8. CASE Save
  BY <1>8, StoreAssumption
    DEF Save, keys, world, TypeOK, Shape, FilesSealed, Sealed, CliShape, GwShape,
        Commands, HoldsKey, NoFile, File, Session, Key
<1>9. CASE DiscardArchive
  BY <1>9, StoreAssumption
    DEF DiscardArchive, keys, world, history, NoFile, TypeOK, Shape, FilesSealed,
        Sealed, CliShape, GwShape, Commands, HoldsKey, File, Session, Key
<1>10. CASE KeepSession
  BY <1>10
    DEF KeepSession, files, keys, world, history, TypeOK, Shape, FilesSealed,
        Sealed, CliShape, GwShape, Commands, HoldsKey
<1>11. CASE Fails
  BY <1>11
    DEF Fails, files, keys, world, history, Pairing, TypeOK, Shape, FilesSealed,
        Sealed, CliShape, GwShape, Commands, HoldsKey
<1>12. CASE PairDead
  BY <1>12, StoreAssumption
    DEF PairDead, keys, world, NoFile, Pairing, TypeOK, Shape, FilesSealed,
        Sealed, CliShape, GwShape, Commands, HoldsKey, File, Session, Key
<1>13. CASE DiscardKey
  BY <1>13, StoreAssumption
    DEF DiscardKey, files, world, history, NoFile, TypeOK, Shape, FilesSealed,
        Sealed, CliShape, GwShape, Commands, HoldsKey, File, Session, Key
<1>14. CASE DiscardSalt
  BY <1>14, StoreAssumption
    DEF DiscardSalt, files, world, history, TypeOK, Shape, FilesSealed, Sealed,
        CliShape, GwShape, Commands, HoldsKey, NoFile, File, Session, Key
<1>15. CASE Configure
  BY <1>15
    DEF Configure, files, keys, world, history, TypeOK, Shape, FilesSealed,
        Sealed, CliShape, GwShape, Commands, HoldsKey
<1>16. CASE Drop
  BY <1>16, StoreAssumption
    DEF Drop, RestoreArchive, Restorable, files, keys, world, history, NoCommand,
        NoFile, TypeOK, Shape, FilesSealed, Sealed, CliShape, GwShape, Commands,
        HoldsKey, File, Session, Key
<1>17. ASSUME NEW pass \in BOOLEAN, RestoreBegin(pass) PROVE TypeOK' /\ Shape'
  <2> PICK k \in Key :
           /\ Resolves(pass, k)
           /\ \/ /\ prev.k = k
                 /\ cli' \in Commands
                 /\ cli'.pc = "proved" /\ cli'.key = k /\ cli'.session = 0 /\ cli'.blob = 0
                 /\ cli'.alone => gw.pc = "off"
              \/ cli' = NoCommand
    BY <1>17, RestoreBegun
  <2>1. /\ k # 0 /\ k <= minted' /\ minted <= minted'
        /\ keyfile' \in 0..minted' /\ salt' \in 0..minted' /\ minted' \in Key
    BY KeyResolved
  <2>2. UNCHANGED <<live, prev, enabled, made, revoked, linked, gone>> /\ UNCHANGED gw
    BY <1>17 DEF RestoreBegin, files, world, history
  <2>3. CASE cli' = NoCommand
    <3>1. cli' \in Commands
      BY <2>3, StoreAssumption DEF NoCommand, Commands, Session, Key
    <3>2. TypeOK'
      BY <2>1, <2>2, <3>1 DEF TypeOK
    <3>3. QED BY <2>1, <2>2, <2>3, <3>2, AtRest, StoreAssumption
           
             DEF TypeOK, Shape, FilesSealed, Sealed, CliShape, GwShape, HoldsKey,
                 Key, Session
  <2>4. CASE cli' # NoCommand
    <3>1. TypeOK'
      BY <2>1, <2>2, <2>4 DEF TypeOK
    <3>2. k \in 0..minted' /\ 0 \in 0..made'
      BY <2>1, <2>2, StoreAssumption DEF TypeOK, Key, Session
    <3>3. CliShape'
      BY <2>1, <2>2, <2>4, <3>2 DEF CliShape, HoldsKey
    <3>4. QED BY <2>1, <2>2, <3>1, <3>3
            DEF TypeOK, Shape, FilesSealed, Sealed, GwShape, Key
  <2>5. QED BY <2>3, <2>4
<1>18. CASE RestoreMove
  BY <1>18, StoreAssumption
    DEF RestoreMove, RestoreArchive, Restorable, files, keys, world, NoCommand,
        NoFile, TypeOK, Shape, FilesSealed, Sealed, CliShape, GwShape, Commands,
        HoldsKey, File, Session, Key
<1>19. CASE LogoutBegin
  <2>1. /\ UNCHANGED <<live, prev, enabled, made, revoked, gone>>
        /\ UNCHANGED <<keyfile, salt, minted, gw>> /\ linked' = 0
    BY <1>19 DEF LogoutBegin, files, keys, world
  <2> DEFINE c == [pc |-> "logout", key |-> 0, relink |-> FALSE, had |-> FALSE,
                 session |-> 0, blob |-> 0, todo |-> 1, alone |-> FALSE]
  <2>0. cli' = c
    BY <1>19, LogoutBegun
  <2>2. cli' \in Commands
    BY <2>0, StoreAssumption DEF Commands, Session, Key
  <2>3. TypeOK'
    BY <2>1, <2>2 DEF TypeOK, Session
  <2>4. FilesSealed' /\ GwShape'
    BY <2>1 DEF Shape, FilesSealed, Sealed, GwShape
  <2>5. CliShape'
    BY <2>0, <2>1 DEF TypeOK, CliShape, HoldsKey, Key, Session
  <2>6. QED BY <2>3, <2>4, <2>5 DEF Shape
<1>20. CASE LogoutStep
  <2>1. UNCHANGED <<enabled, gw, made, revoked, linked, minted>> /\ cli.pc = "logout"
    BY <1>20 DEF LogoutStep, Shred, world
  <2>2. /\ live' \in {live, NoFile} /\ prev' \in {prev, NoFile}
        /\ keyfile' \in {keyfile, 0} /\ salt' \in {salt, 0}
        /\ gone' \in {gone, 1..made}
    BY <1>20 DEF LogoutStep, Shred
  <2>3. cli' \in Commands /\ CliShape'
    <3>1. CASE cli.todo = 4
      <4> DEFINE c == [pc |-> "disable", key |-> 0, relink |-> FALSE, had |-> FALSE,
                       session |-> 0, blob |-> 0, todo |-> 0, alone |-> FALSE]
      <4>1. cli' = c
        BY <1>20, <3>1, LoggedOut
      <4>2. cli' \in Commands
        BY <4>1, StoreAssumption DEF Commands, Session, Key
      <4>3. CliShape'
        BY <2>1, <4>1 DEF TypeOK, CliShape, HoldsKey, Key, Session
      <4>4. QED BY <4>2, <4>3
    <3>2. CASE cli.todo # 4
      <4>1. cli' = [cli EXCEPT !.todo = @ + 1] /\ cli.todo \in 0..3
        BY <1>20, <3>2 DEF LogoutStep, TypeOK, Commands
      <4>2. QED BY <2>1, <4>1 DEF TypeOK, Shape, Commands, CliShape, HoldsKey
    <3>3. QED BY <3>1, <3>2
  <2>4. TypeOK'
    BY <2>1, <2>2, <2>3, StoreAssumption DEF TypeOK, File, NoFile, Session, Key
  <2>5. FilesSealed' /\ GwShape'
    BY <2>1, <2>2 DEF Shape, FilesSealed, Sealed, GwShape
  <2>6. QED BY <2>3, <2>4, <2>5 DEF Shape
<1>21. CASE Dies
  BY <1>21, StoreAssumption
    DEF Dies, files, keys, world, history, TypeOK, Shape, FilesSealed, CliShape,
        GwShape, Sealed, HoldsKey, File, NoFile, Session, Key, Commands,
        NoCommand, Supervisors, Down, Pairing
<1>22. CASE Boot
  BY <1>22
    DEF Boot, files, keys, world, history, Down, NoFile, TypeOK, Shape,
        FilesSealed, Sealed, CliShape, GwShape, Commands, Supervisors, HoldsKey
<1>23. ASSUME NEW pass \in BOOLEAN, BootKey(pass) PROVE TypeOK' /\ Shape'
  <2> PICK k \in Key : Resolves(pass, k) /\ gw' = [gw EXCEPT !.pc = "on", !.key = k]
    BY <1>23 DEF BootKey
  <2>1. /\ k # 0 /\ k <= minted' /\ minted <= minted'
        /\ keyfile' \in 0..minted' /\ salt' \in 0..minted' /\ minted' \in Key
    BY KeyResolved
  <2>2. /\ UNCHANGED <<live, prev, enabled, made, revoked, linked, gone>>
        /\ UNCHANGED cli /\ gw.pc = "boot"
    BY <1>23 DEF BootKey, files, world, history
  <2>3. TypeOK'
    BY <2>1, <2>2 DEF TypeOK, Supervisors
  <2>4. FilesSealed'
    BY <2>1, <2>2 DEF TypeOK, Shape, FilesSealed, Sealed, Key
  <2>5. CliShape'
    BY <2>1, <2>2 DEF TypeOK, Shape, CliShape, HoldsKey, Key, Supervisors
  <2>6. GwShape'
    BY <2>1, <2>2 DEF TypeOK, Shape, GwShape, Key, Supervisors
  <2>7. QED BY <2>3, <2>4, <2>5, <2>6 DEF Shape
<1>24. CASE Serve
  <2>1. cli' \in Commands
    BY <1>24, StoreAssumption
      DEF Serve, files, keys, world, history, TypeOK, Shape, FilesSealed, Sealed,
          NoFile, NoCommand, Pairing, Commands, Session, Key
  <2>2. gw' \in Supervisors
    BY <1>24, Served, StoreAssumption
      DEF Serve, files, keys, world, history, TypeOK, Shape, FilesSealed, Sealed,
          NoFile, Down, Supervisors, Session, Key
  <2>3. /\ live' \in File /\ prev' \in File
        /\ keyfile' \in 0..minted' /\ salt' \in 0..minted' /\ enabled' \in BOOLEAN
        /\ made' \in Session /\ minted' \in Key
        /\ revoked' \subseteq 1..made' /\ gone' \subseteq 1..made' /\ linked' \in 0..made'
    BY <1>24, StoreAssumption
      DEF Serve, files, keys, world, history, TypeOK, File, NoFile, Session, Key
  <2>4. FilesSealed'
    BY <1>24, StoreAssumption
      DEF Serve, files, keys, world, history, TypeOK, File, NoFile, Shape,
          FilesSealed, CliShape, GwShape, Sealed, HoldsKey
  <2>5. CliShape'
    BY <1>24, Served, StoreAssumption
      DEF Serve, files, keys, world, history, TypeOK, NoCommand, NoFile, Down,
          Pairing, Shape, CliShape, FilesSealed, Sealed, HoldsKey, Commands,
          Session, Key
  <2>6. GwShape'
    BY <1>24, Served, StoreAssumption
      DEF Serve, files, keys, world, history, TypeOK, NoFile, Down, Shape,
          GwShape, FilesSealed, Sealed, Supervisors, Session, Key
  <2>7. QED BY <2>1, <2>2, <2>3, <2>4, <2>5, <2>6 DEF TypeOK, Shape
<1>25. CASE Persist
  BY <1>25, StoreAssumption
    DEF Persist, keys, world, history, TypeOK, Shape, FilesSealed, Sealed,
        CliShape, GwShape, HoldsKey, NoFile, File, Session, Key
<1>26. CASE Fall
  <2>1. cli' \in Commands
    BY <1>26, StoreAssumption
      DEF Fall, files, keys, world, history, TypeOK, Shape, FilesSealed, Sealed,
          NoFile, NoCommand, Pairing, Commands, Session, Key
  <2>2. gw' \in Supervisors
    BY <1>26, Fallen, StoreAssumption
      DEF Fall, files, keys, world, history, TypeOK, Shape, FilesSealed, Sealed,
          NoFile, Down, Supervisors, Session, Key
  <2>3. /\ live' \in File /\ prev' \in File
        /\ keyfile' \in 0..minted' /\ salt' \in 0..minted' /\ enabled' \in BOOLEAN
        /\ made' \in Session /\ minted' \in Key
        /\ revoked' \subseteq 1..made' /\ gone' \subseteq 1..made' /\ linked' \in 0..made'
    BY <1>26, StoreAssumption
      DEF Fall, files, keys, world, history, TypeOK, File, NoFile, Session, Key
  <2>4. FilesSealed'
    BY <1>26, StoreAssumption
      DEF Fall, files, keys, world, history, TypeOK, File, NoFile, Shape,
          FilesSealed, CliShape, GwShape, Sealed, HoldsKey
  <2>5. CliShape'
    BY <1>26, Fallen, StoreAssumption
      DEF Fall, files, keys, world, history, TypeOK, NoCommand, NoFile, Down,
          Pairing, Shape, CliShape, FilesSealed, Sealed, HoldsKey, Commands,
          Session, Key
  <2>6. GwShape'
    BY <1>26, Fallen, StoreAssumption
      DEF Fall, files, keys, world, history, TypeOK, NoFile, Down, Shape,
          GwShape, FilesSealed, Sealed, Supervisors, Session, Key
  <2>7. QED BY <2>1, <2>2, <2>3, <2>4, <2>5, <2>6 DEF TypeOK, Shape
<1>27. CASE ServeDead
  <2>1. cli' \in Commands
    BY <1>27, StoreAssumption
      DEF ServeDead, files, keys, world, history, TypeOK, Shape, FilesSealed,
          Sealed, NoFile, NoCommand, Pairing, Commands, Session, Key
  <2>2. gw' \in Supervisors
    BY <1>27, FoundDead, StoreAssumption
      DEF ServeDead, files, keys, world, history, TypeOK, Shape, FilesSealed,
          Sealed, NoFile, Down, Supervisors, Session, Key
  <2>3. /\ live' \in File /\ prev' \in File
        /\ keyfile' \in 0..minted' /\ salt' \in 0..minted' /\ enabled' \in BOOLEAN
        /\ made' \in Session /\ minted' \in Key
        /\ revoked' \subseteq 1..made' /\ gone' \subseteq 1..made' /\ linked' \in 0..made'
    BY <1>27, StoreAssumption
      DEF ServeDead, files, keys, world, history, TypeOK, File, NoFile, Session,
          Key
  <2>4. FilesSealed'
    BY <1>27, StoreAssumption
      DEF ServeDead, files, keys, world, history, TypeOK, File, NoFile, Shape,
          FilesSealed, CliShape, GwShape, Sealed, HoldsKey
  <2>5. CliShape'
    BY <1>27, FoundDead, StoreAssumption
      DEF ServeDead, files, keys, world, history, TypeOK, NoCommand, NoFile,
          Down, Pairing, Shape, CliShape, FilesSealed, Sealed, HoldsKey,
          Commands, Session, Key
  <2>6. GwShape'
    BY <1>27, FoundDead, StoreAssumption
      DEF ServeDead, files, keys, world, history, TypeOK, NoFile, Down, Shape,
          GwShape, FilesSealed, Sealed, Supervisors, Session, Key
  <2>7. QED BY <2>1, <2>2, <2>3, <2>4, <2>5, <2>6 DEF TypeOK, Shape
<1>28. CASE ServePurge
  <2>1. cli' \in Commands
    BY <1>28, StoreAssumption
      DEF ServePurge, Shred, files, keys, world, history, TypeOK, Shape,
          FilesSealed, Sealed, NoFile, NoCommand, Pairing, Commands, Session, Key
  <2>2. gw' \in Supervisors
    BY <1>28, Purged, StoreAssumption
      DEF ServePurge, Shred, files, keys, world, history, TypeOK, Shape,
          FilesSealed, Sealed, NoFile, Down, Supervisors, Session, Key
  <2>3. /\ live' \in File /\ prev' \in File
        /\ keyfile' \in 0..minted' /\ salt' \in 0..minted' /\ enabled' \in BOOLEAN
        /\ made' \in Session /\ minted' \in Key
        /\ revoked' \subseteq 1..made' /\ gone' \subseteq 1..made' /\ linked' \in 0..made'
    BY <1>28, StoreAssumption
      DEF ServePurge, Shred, files, keys, world, history, TypeOK, File, NoFile,
          Session, Key
  <2>4. FilesSealed'
    BY <1>28, StoreAssumption
      DEF ServePurge, Shred, files, keys, world, history, TypeOK, File, NoFile,
          Shape, FilesSealed, CliShape, GwShape, Sealed, HoldsKey
  <2>5. CliShape'
    BY <1>28, Purged, StoreAssumption
      DEF ServePurge, Shred, files, keys, world, history, TypeOK, NoCommand,
          NoFile, Down, Pairing, Shape, CliShape, FilesSealed, Sealed, HoldsKey,
          Commands, Session, Key
  <2>6. GwShape'
    BY <1>28, Purged, StoreAssumption
      DEF ServePurge, Shred, files, keys, world, history, TypeOK, NoFile, Down,
          Shape, GwShape, FilesSealed, Sealed, Supervisors, Session, Key
  <2>7. QED BY <2>1, <2>2, <2>3, <2>4, <2>5, <2>6 DEF TypeOK, Shape
<1>29. CASE SwitchOff
  <2>1. cli' \in Commands
    BY <1>29, StoreAssumption
      DEF SwitchOff, files, keys, world, history, TypeOK, Shape, FilesSealed,
          Sealed, NoFile, NoCommand, Pairing, Commands, Session, Key
  <2>2. gw' \in Supervisors
    BY <1>29, StoreAssumption
      DEF SwitchOff, files, keys, world, history, TypeOK, Shape, FilesSealed,
          Sealed, NoFile, Down, Supervisors, Session, Key
  <2>3. /\ live' \in File /\ prev' \in File
        /\ keyfile' \in 0..minted' /\ salt' \in 0..minted' /\ enabled' \in BOOLEAN
        /\ made' \in Session /\ minted' \in Key
        /\ revoked' \subseteq 1..made' /\ gone' \subseteq 1..made' /\ linked' \in 0..made'
    BY <1>29, StoreAssumption
      DEF SwitchOff, files, keys, world, history, TypeOK, File, NoFile, Session,
          Key
  <2>4. FilesSealed'
    BY <1>29, StoreAssumption
      DEF SwitchOff, files, keys, world, history, TypeOK, File, NoFile, Shape,
          FilesSealed, CliShape, GwShape, Sealed, HoldsKey
  <2>5. CliShape'
    BY <1>29, StoreAssumption
      DEF SwitchOff, files, keys, world, history, TypeOK, NoCommand, NoFile,
          Down, Pairing, Shape, CliShape, FilesSealed, Sealed, HoldsKey,
          Commands, Session, Key
  <2>6. GwShape'
    BY <1>29, StoreAssumption
      DEF SwitchOff, files, keys, world, history, TypeOK, NoFile, Down, Shape,
          GwShape, FilesSealed, Sealed, Supervisors, Session, Key
  <2>7. QED BY <2>1, <2>2, <2>3, <2>4, <2>5, <2>6 DEF TypeOK, Shape
<1>30. CASE Stop
  BY <1>30, StoreAssumption
    DEF Stop, files, keys, world, history, Down, TypeOK, Shape, FilesSealed,
        Sealed, CliShape, GwShape, Supervisors, HoldsKey, NoFile, File, Session,
        Key
<1>31. ASSUME NEW s \in 1..made, Revoke(s) PROVE TypeOK' /\ Shape'
  BY <1>31
    DEF Revoke, files, keys, history, TypeOK, Shape, FilesSealed, Sealed,
        CliShape, GwShape, HoldsKey
<1>32. CASE UNCHANGED vars
  BY <1>32
    DEF vars, files, keys, world, history, TypeOK, Shape, FilesSealed, CliShape,
        GwShape, Sealed
<1>33. QED
  BY <1>1, <1>2, <1>3, <1>4, <1>5, <1>6, <1>7, <1>8, <1>9, <1>10, <1>11, <1>12,
     <1>13, <1>14, <1>15, <1>16, <1>17, <1>18, <1>19, <1>20, <1>21, <1>22,
     <1>23, <1>24, <1>25, <1>26, <1>27, <1>28, <1>29, <1>30, <1>31, <1>32
    DEF Next, Command, Gateway

-------------------------------------------------------------------------------
(* Every step keeps what is said of the sessions logged out.  A file, or a *)
(* gateway that serves one of them, has a key that is on disk no longer:   *)
(* a key made later is a new one.                                          *)
LEMMA GoneStep ==
  ASSUME TypeOK, Shape, GoneInv, [Next]_vars
  PROVE  GoneInv'
<1>1. ASSUME NEW pass \in BOOLEAN, NEW relink \in BOOLEAN, LinkBegin(pass, relink)
      PROVE GoneInv'
  <2>0. PICK k \in Key : /\ Resolves(pass, k)
                         /\ cli'.pc = "begun" /\ cli'.key = k
                         /\ cli'.session = 0 /\ cli'.blob = 0
    BY <1>1, LinkBegun
  <2>1. /\ (k # 0 /\ k \in {keyfile, salt}) \/ k = minted + 1
        /\ keyfile' = keyfile \/ (keyfile' = k /\ k = minted + 1)
        /\ salt' = salt \/ (salt' = k /\ k = minted + 1)
    BY <2>0, KeyResolved
  <2>2. UNCHANGED <<live, prev, enabled, made, revoked, linked, gone, gw>>
    BY <1>1 DEF LinkBegin, files, world, history
  <2>3. /\ live.s \in gone => live.k \in 1..minted
        /\ prev.s \in gone => prev.k \in 1..minted
        /\ gw.s \in gone => gw.key \in 1..minted
        /\ minted \in Nat /\ 0 \notin gone
    BY StoreAssumption DEF TypeOK, Shape, FilesSealed, Sealed, NoFile, GwShape, Key
  <2>4. QED BY <2>0, <2>1, <2>2, <2>3 DEF GoneInv
<1>2. CASE SetAside
  BY <1>2
    DEF SetAside, Archive, files, keys, world, history, NoFile, GoneInv, TypeOK,
        Commands
<1>3. CASE Open
  BY <1>3, Opened
    DEF Open, Archive, files, keys, world, history, NoFile, GoneInv, TypeOK,
        Commands
<1>4. CASE ShowQr
  BY <1>4, QrShown
    DEF ShowQr, Archive, files, keys, world, history, NoFile, GoneInv, TypeOK,
        Commands
<1>5. CASE Scan
  BY <1>5, StoreAssumption
    DEF Scan, files, keys, history, GoneInv, TypeOK, Commands, Shape, CliShape,
        GwShape, NoFile, FilesSealed, Sealed, File, Session, Key
<1>6. CASE Connect
  BY <1>6 DEF Connect, files, keys, world, history, GoneInv
<1>7. CASE Update
  BY <1>7 DEF Update, files, keys, world, history, Pairing, GoneInv
<1>8. CASE Save
  BY <1>8 DEF Save, keys, world, GoneInv
<1>9. CASE DiscardArchive
  BY <1>9 DEF DiscardArchive, keys, world, history, NoFile, GoneInv, TypeOK, Commands
<1>10. CASE KeepSession
  BY <1>10 DEF KeepSession, files, keys, world, history, GoneInv
<1>11. CASE Fails
  BY <1>11 DEF Fails, files, keys, world, history, Pairing, GoneInv
<1>12. CASE PairDead
  BY <1>12 DEF PairDead, keys, world, NoFile, Pairing, GoneInv, TypeOK, Commands
<1>13. CASE DiscardKey
  BY <1>13
    DEF DiscardKey, files, world, history, NoFile, GoneInv, TypeOK, Commands,
        Shape, CliShape, GwShape, FilesSealed, Sealed, File
<1>14. CASE DiscardSalt
  BY <1>14
    DEF DiscardSalt, files, world, history, GoneInv, TypeOK, Commands, Shape,
        CliShape, GwShape, NoFile, FilesSealed, Sealed, File
<1>15. CASE Configure
  BY <1>15 DEF Configure, files, keys, world, history, GoneInv
<1>16. CASE Drop
  BY <1>16
    DEF Drop, RestoreArchive, Restorable, files, keys, world, history, NoCommand,
        NoFile, GoneInv, TypeOK, Commands, Shape, CliShape, GwShape, FilesSealed,
        Sealed, File
<1>17. ASSUME NEW pass \in BOOLEAN, RestoreBegin(pass) PROVE GoneInv'
  <2>0. PICK k \in Key :
           /\ Resolves(pass, k)
           /\ \/ /\ prev.k = k /\ cli'.pc = "proved" /\ cli'.key = k
                 /\ cli'.session = 0 /\ cli'.blob = 0
              \/ cli' = NoCommand
    BY <1>17, RestoreBegun
  <2>1. /\ (k # 0 /\ k \in {keyfile, salt}) \/ k = minted + 1
        /\ keyfile' = keyfile \/ (keyfile' = k /\ k = minted + 1)
        /\ salt' = salt \/ (salt' = k /\ k = minted + 1)
    BY <2>0, KeyResolved
  <2>2. UNCHANGED <<live, prev, enabled, made, revoked, linked, gone, gw>>
    BY <1>17 DEF RestoreBegin, files, world, history
  <2>3. /\ live.s \in gone => live.k \in 1..minted
        /\ prev.s \in gone => prev.k \in 1..minted
        /\ gw.s \in gone => gw.key \in 1..minted
        /\ minted \in Nat /\ 0 \notin gone
    BY StoreAssumption DEF TypeOK, Shape, FilesSealed, Sealed, NoFile, GwShape, Key
  <2>4. cli'.key \in {0, k} /\ cli'.session = 0 /\ cli'.blob = 0 /\ cli'.pc # "logout"
    BY <2>0, AtRest
  <2>5. QED BY <2>1, <2>2, <2>3, <2>4 DEF GoneInv
<1>18. CASE RestoreMove
  BY <1>18
    DEF RestoreMove, RestoreArchive, Restorable, files, keys, world, NoCommand,
        NoFile, GoneInv, TypeOK, Commands, Shape, CliShape, GwShape, FilesSealed,
        Sealed, File
<1>19. CASE LogoutBegin
  BY <1>19, LogoutBegun DEF LogoutBegin, files, keys, world, NoCommand, NoFile, GoneInv
<1>20. CASE LogoutStep
  <2>1. /\ cli.pc = "logout" /\ cli.key = 0 /\ cli.session = 0 /\ cli.blob = 0
        /\ UNCHANGED <<gw, made>>
        /\ live' \in {live, NoFile} /\ prev' \in {prev, NoFile}
        /\ keyfile' \in {keyfile, 0} /\ salt' \in {salt, 0}
        /\ cli.todo = 3 => keyfile' = 0
        /\ cli.todo = 4 => keyfile' = keyfile /\ salt' = 0
    BY <1>20 DEF LogoutStep, Shred, world, Shape, CliShape
  <2>a. 0 \notin gone'
    <3>1. gone' = gone \/ gone' = 1..made
      BY <1>20 DEF LogoutStep
    <3>2. 0 \notin gone /\ 0 \notin 1..made
      BY DEF TypeOK
    <3>3. QED BY <3>1, <3>2
  <2>2. /\ \A f \in {live, prev} : f # NoFile => f.k # 0
        /\ gw.s # 0 => gw.key # 0
    BY DEF Shape, FilesSealed, Sealed, GwShape
  <2>3. CASE cli.todo = 4
    <3>1. /\ cli'.key = 0 /\ cli'.session = 0 /\ cli'.blob = 0 /\ cli'.pc # "logout"
      BY <1>20, <2>3, LoggedOut
    <3>2. /\ \A f \in {live', prev'} : f # NoFile => f.k \notin {keyfile', salt', 0}
          /\ gw'.s # 0 => gw'.key \notin {keyfile', salt', 0}
      BY <2>1, <2>2, <2>3 DEF GoneInv
    <3>3. QED BY <2>1, <2>a, <3>1, <3>2 DEF GoneInv, NoFile
  <2>4. CASE cli.todo # 4
    <3>1. cli' = [cli EXCEPT !.todo = @ + 1] /\ UNCHANGED gone /\ cli.todo \in 0..3
      BY <1>20, <2>4 DEF LogoutStep, TypeOK, Commands
    <3>2. /\ cli'.key = 0 /\ cli'.session = 0 /\ cli'.blob = 0
          /\ cli'.todo = 4 => cli.todo = 3
      BY <2>1, <3>1 DEF TypeOK, Commands
    <3>3. QED BY <2>1, <2>2, <2>a, <3>1, <3>2 DEF GoneInv, NoFile
  <2>5. QED BY <2>3, <2>4
<1>21. CASE Dies
  BY <1>21
    DEF Dies, files, keys, world, history, NoCommand, GoneInv, TypeOK, Commands,
        Shape, CliShape, GwShape, NoFile, FilesSealed, Sealed, File
<1>22. CASE Boot
  BY <1>22 DEF Boot, files, keys, world, history, Down, NoFile, GoneInv
<1>23. ASSUME NEW pass \in BOOLEAN, BootKey(pass) PROVE GoneInv'
  BY <1>23, StoreAssumption
    DEF BootKey, Resolves, files, keys, world, history, GoneInv, TypeOK,
        Supervisors, Shape, CliShape, GwShape, NoFile, FilesSealed, Sealed, File,
        Session, Key
<1>24. CASE Serve
  BY <1>24, Served DEF Serve, files, keys, world, history, NoFile, GoneInv
<1>25. CASE Persist
  BY <1>25
    DEF Persist, keys, world, history, GoneInv, TypeOK, Shape, CliShape, GwShape,
        NoFile
<1>26. CASE Fall
  BY <1>26, Fallen DEF Fall, files, keys, world, history, GoneInv, TypeOK, Supervisors
<1>27. CASE ServeDead
  BY <1>27, FoundDead, StoreAssumption
    DEF ServeDead, files, keys, world, history, TypeOK, Shape, GoneInv,
        FilesSealed, Sealed, NoFile, NoCommand, Down, CliShape, GwShape,
        Commands, Supervisors, Pairing, File, Session, Key, HoldsKey
<1>28. CASE ServePurge
  BY <1>28, Purged
    DEF ServePurge, Shred, world, history, NoFile, GoneInv, TypeOK, Supervisors,
        Shape, CliShape, GwShape, FilesSealed, Sealed, File
<1>29. CASE SwitchOff
  BY <1>29
    DEF SwitchOff, files, keys, world, history, Down, GoneInv, TypeOK, Supervisors
<1>30. CASE Stop
  BY <1>30 DEF Stop, files, keys, world, history, Down, GoneInv, TypeOK, Supervisors
<1>31. ASSUME NEW s \in 1..made, Revoke(s) PROVE GoneInv'
  BY <1>31 DEF Revoke, files, keys, history, GoneInv
<1>32. CASE UNCHANGED vars
  BY <1>32 DEF vars, files, keys, world, history, GoneInv
<1>33. QED
  BY <1>1, <1>2, <1>3, <1>4, <1>5, <1>6, <1>7, <1>8, <1>9, <1>10, <1>11, <1>12,
     <1>13, <1>14, <1>15, <1>16, <1>17, <1>18, <1>19, <1>20, <1>21, <1>22,
     <1>23, <1>24, <1>25, <1>26, <1>27, <1>28, <1>29, <1>30, <1>31, <1>32
    DEF Next, Command, Gateway

-------------------------------------------------------------------------------
(* Every step keeps what is said of the session that is counted on: where  *)
(* it is, at each place a command may be, and that its key is on disk.     *)
LEMMA LinkStep ==
  ASSUME TypeOK, Shape, LinkInv, [Next]_vars
  PROVE  LinkInv'
<1>1. ASSUME NEW pass \in BOOLEAN, NEW relink \in BOOLEAN, LinkBegin(pass, relink)
      PROVE LinkInv'
  <2>0. PICK k \in Key : /\ Resolves(pass, k) /\ cli'.pc = "begun" /\ cli'.key = k
    BY <1>1, LinkBegun
  <2>1. /\ k # 0 /\ k \in {keyfile', salt'}
        /\ keyfile' = keyfile \/ keyfile = 0
        /\ salt' = salt \/ salt = 0
    BY <2>0, KeyResolved
  <2>2. UNCHANGED <<live, prev, enabled, made, revoked, linked, gone, gw>>
    BY <1>1 DEF LinkBegin, files, world, history
  <2>3. QED BY <2>0, <2>1, <2>2 DEF LinkInv, Holds, OnDisk, Pairing, HoldsKey
<1>2. CASE SetAside
  BY <1>2
    DEF SetAside, Archive, files, keys, world, history, NoFile, LinkInv, Holds,
        OnDisk, HoldsKey, Pairing
<1>3. CASE Open
  BY <1>3, Opened
    DEF Open, Archive, files, keys, world, history, NoFile, LinkInv, Holds,
        OnDisk, HoldsKey, Pairing, TypeOK, Commands
<1>4. CASE ShowQr
  BY <1>4, QrShown
    DEF ShowQr, Archive, files, keys, world, history, NoFile, LinkInv, Holds,
        OnDisk, HoldsKey, Pairing
<1>5. CASE Scan
  BY <1>5 DEF Scan, files, keys, history, LinkInv, Holds, OnDisk, HoldsKey, Pairing
<1>6. CASE Connect
  BY <1>6
    DEF Connect, files, keys, world, history, LinkInv, Holds, OnDisk, HoldsKey,
        Pairing
<1>7. CASE Update
  BY <1>7
    DEF Update, files, keys, world, history, Pairing, LinkInv, Holds, OnDisk,
        HoldsKey
<1>8. CASE Save
  BY <1>8
    DEF Save, keys, world, LinkInv, Holds, OnDisk, HoldsKey, Pairing, TypeOK,
        Commands, Shape, CliShape, GwShape, NoFile
<1>9. CASE DiscardArchive
  BY <1>9
    DEF DiscardArchive, keys, world, history, NoFile, LinkInv, Holds, OnDisk,
        HoldsKey, Pairing
<1>10. CASE KeepSession
  BY <1>10
    DEF KeepSession, files, keys, world, history, LinkInv, Holds, OnDisk,
        HoldsKey, Pairing
<1>11. CASE Fails
  BY <1>11
    DEF Fails, files, keys, world, history, Pairing, LinkInv, Holds, OnDisk,
        HoldsKey
<1>12. CASE PairDead
  BY <1>12 DEF PairDead, keys, world, NoFile, Pairing, LinkInv, Holds, OnDisk, HoldsKey
<1>13. CASE DiscardKey
  <2>1. UNCHANGED <<live, prev, linked, gw, salt>> /\ cli.pc = "dead"
    BY <1>13 DEF DiscardKey, files, world, history
  <2>2. CASE prev # NoFile
    <3>1. UNCHANGED keyfile /\ cli' = [cli EXCEPT !.pc = "disable"]
      BY <1>13, <2>2 DEF DiscardKey
    <3>2. cli'.pc = "disable"
      BY <3>1 DEF TypeOK, Commands
    <3>3. QED BY <2>1, <3>1, <3>2 DEF LinkInv, Holds, OnDisk, HoldsKey, Pairing
  <2>3. CASE prev = NoFile
    <3>1. cli' = [cli EXCEPT !.pc = "deadSalt"] /\ UNCHANGED cli.session
      BY <1>13, <2>3 DEF DiscardKey, TypeOK, Commands
    <3>2. cli'.pc = "deadSalt" /\ linked' = linked
      BY <2>1, <3>1 DEF TypeOK, Commands
    <3>3. linked = 0
      BY <2>1, <2>3 DEF LinkInv, Holds, Pairing, NoFile
    <3>4. QED BY <2>1, <3>2, <3>3 DEF LinkInv, HoldsKey
  <2>4. QED BY <2>2, <2>3
<1>14. CASE DiscardSalt
  BY <1>14
    DEF DiscardSalt, files, world, history, LinkInv, Holds, OnDisk, HoldsKey,
        Pairing
<1>15. CASE Configure
  BY <1>15
    DEF Configure, files, keys, world, history, LinkInv, Holds, OnDisk, HoldsKey,
        Pairing
<1>16. CASE Drop
  BY <1>16
    DEF Drop, RestoreArchive, Restorable, files, keys, world, history, NoCommand,
        NoFile, LinkInv, Holds, OnDisk, HoldsKey, Pairing
<1>17. ASSUME NEW pass \in BOOLEAN, RestoreBegin(pass) PROVE LinkInv'
  <2>0. PICK k \in Key :
           /\ Resolves(pass, k)
           /\ \/ prev.k = k /\ cli'.pc = "proved" /\ cli'.key = k
              \/ cli' = NoCommand
    BY <1>17, RestoreBegun
  <2>1. /\ k # 0 /\ k \in {keyfile', salt'}
        /\ keyfile' = keyfile \/ keyfile = 0
        /\ salt' = salt \/ salt = 0
    BY <2>0, KeyResolved
  <2>2. UNCHANGED <<live, prev, enabled, made, revoked, linked, gone, gw>>
    BY <1>17 DEF RestoreBegin, files, world, history
  <2>3. CASE cli' = NoCommand
    BY <2>1, <2>2, <2>3, AtRest DEF LinkInv, Holds, OnDisk, Pairing, HoldsKey
  <2>4. CASE prev.k = k /\ cli'.pc = "proved" /\ cli'.key = k
    BY <2>1, <2>2, <2>4 DEF LinkInv, Holds, OnDisk, Pairing, HoldsKey
  <2>5. QED BY <2>0, <2>3, <2>4
<1>18. CASE RestoreMove
  BY <1>18
    DEF RestoreMove, RestoreArchive, Restorable, files, keys, world, NoCommand,
        NoFile, LinkInv, Holds, OnDisk, HoldsKey, Pairing, TypeOK, Commands,
        Shape, CliShape, GwShape
<1>19. CASE LogoutBegin
  BY <1>19, LogoutBegun
    DEF LogoutBegin, files, keys, world, NoCommand, NoFile, LinkInv, Holds,
        OnDisk, HoldsKey, Pairing
<1>20. CASE LogoutStep
  <2>1. cli.pc = "logout" /\ linked' = linked
    BY <1>20 DEF LogoutStep
  <2>2. linked' = 0
    BY <2>1 DEF LinkInv
  <2>3. cli'.pc \in {"logout", "disable"}
    <3>1. CASE cli.todo = 4
      BY <1>20, <3>1, LoggedOut
    <3>2. CASE cli.todo # 4
      <4>1. cli' = [cli EXCEPT !.todo = @ + 1]
        BY <1>20, <3>2 DEF LogoutStep, TypeOK, Commands
      <4>2. QED BY <2>1, <4>1 DEF TypeOK, Commands
    <3>3. QED BY <3>1, <3>2
  <2>4. QED BY <2>2, <2>3 DEF LinkInv, HoldsKey
<1>21. CASE Dies
  BY <1>21
    DEF Dies, files, keys, world, history, NoCommand, LinkInv, Holds, OnDisk,
        HoldsKey, Pairing
<1>22. CASE Boot
  BY <1>22
    DEF Boot, files, keys, world, history, Down, NoFile, LinkInv, Holds, OnDisk,
        HoldsKey, Pairing
<1>23. ASSUME NEW pass \in BOOLEAN, BootKey(pass) PROVE LinkInv'
  BY <1>23
    DEF BootKey, Resolves, files, keys, world, history, LinkInv, Holds, OnDisk,
        HoldsKey, Pairing, TypeOK, Supervisors, Shape, CliShape, GwShape, NoFile
<1>24. CASE Serve
  BY <1>24, Served
    DEF Serve, files, keys, world, history, NoFile, LinkInv, Holds, OnDisk,
        HoldsKey, Pairing
<1>25. CASE Persist
  BY <1>25
    DEF Persist, keys, world, history, LinkInv, Holds, OnDisk, HoldsKey, Pairing,
        TypeOK, Shape, CliShape, GwShape, NoFile
<1>26. CASE Fall
  BY <1>26, Fallen
    DEF Fall, files, keys, world, history, LinkInv, Holds, OnDisk, HoldsKey,
        Pairing
<1>27. CASE ServeDead
  BY <1>27, FoundDead, StoreAssumption
    DEF ServeDead, LinkInv, Holds, OnDisk, files, keys, world, history, TypeOK,
        Shape, FilesSealed, Sealed, NoFile, NoCommand, Down, CliShape, GwShape,
        Commands, Supervisors, Pairing, File, Session, Key, HoldsKey
<1>28. CASE ServePurge
  BY <1>28, Purged
    DEF ServePurge, Shred, world, history, NoFile, LinkInv, Holds, OnDisk,
        HoldsKey, Pairing, TypeOK, Supervisors, Shape, CliShape, GwShape
<1>29. CASE SwitchOff
  BY <1>29
    DEF SwitchOff, files, keys, world, history, Down, LinkInv, Holds, OnDisk,
        HoldsKey, Pairing
<1>30. CASE Stop
  BY <1>30
    DEF Stop, files, keys, world, history, Down, LinkInv, Holds, OnDisk,
        HoldsKey, Pairing
<1>31. ASSUME NEW s \in 1..made, Revoke(s) PROVE LinkInv'
  BY <1>31 DEF Revoke, files, keys, history, LinkInv, Holds, OnDisk, HoldsKey, Pairing
<1>32. CASE UNCHANGED vars
  BY <1>32 DEF vars, files, keys, world, history, LinkInv, Holds, OnDisk
<1>33. QED
  BY <1>1, <1>2, <1>3, <1>4, <1>5, <1>6, <1>7, <1>8, <1>9, <1>10, <1>11, <1>12,
     <1>13, <1>14, <1>15, <1>16, <1>17, <1>18, <1>19, <1>20, <1>21, <1>22,
     <1>23, <1>24, <1>25, <1>26, <1>27, <1>28, <1>29, <1>30, <1>31, <1>32
    DEF Next, Command, Gateway

-------------------------------------------------------------------------------
(* An empty directory, a channel that is off, no program.                  *)
LEMMA InitInv ==
  ASSUME Init
  PROVE  TypeOK /\ Shape /\ GoneInv /\ LinkInv
<1>1. /\ live = NoFile /\ prev = NoFile /\ keyfile = 0 /\ salt = 0 /\ minted = 0
      /\ enabled = FALSE /\ made = 0 /\ revoked = {} /\ gone = {} /\ linked = 0
  BY DEF Init
<1>2. cli = [pc |-> "idle", key |-> 0, relink |-> FALSE, had |-> FALSE, session |-> 0,
             blob |-> 0, todo |-> 0, alone |-> FALSE]
  BY DEF Init, NoCommand
<1>3. gw = [pc |-> "off", key |-> 0, s |-> 0, todo |-> 0]
  BY DEF Init, Down
<1>4. cli \in Commands /\ gw \in Supervisors
  BY <1>2, <1>3, StoreAssumption DEF Commands, Supervisors, Session, Key
<1>5. TypeOK
  <2>1. live \in File /\ prev \in File
    BY <1>1, StoreAssumption DEF File, NoFile, Session, Key
  <2>2. made \in Session /\ minted \in Key
    BY <1>1, StoreAssumption DEF Session, Key
  <2>3. /\ keyfile \in 0..minted /\ salt \in 0..minted /\ linked \in 0..made
        /\ revoked \subseteq 1..made /\ gone \subseteq 1..made
    BY <1>1
  <2>4. enabled \in BOOLEAN
    BY <1>1
  <2>5. QED BY <1>4, <2>1, <2>2, <2>3, <2>4, Zenon DEF TypeOK
<1>6. Shape
  BY <1>1, <1>2, <1>3 DEF Shape, FilesSealed, Sealed, CliShape, GwShape, HoldsKey
<1>7. GoneInv
  BY <1>1, <1>2, <1>3 DEF GoneInv, NoFile
<1>8. LinkInv
  BY <1>1, <1>2 DEF LinkInv, HoldsKey
<1>9. QED BY <1>5, <1>6, <1>7, <1>8

(* The files, the programs and the counters are always well formed.        *)
THEOREM TypeCorrect == Spec => []TypeOK
<1>1. Init => TypeOK /\ Shape
  BY InitInv
<1>2. TypeOK /\ Shape /\ [Next]_vars => (TypeOK /\ Shape)'
  BY TypeStep
<1>3. QED BY <1>1, <1>2, PTL DEF Spec

(* A session that was linked or restored with the gateway down can be      *)
(* opened from one of the two files until it is replaced, logged out or    *)
(* refused by the server, for any number of devices and keys.              *)
THEOREM LinkedAlwaysRecoverable == Spec => []LinkedIsRecoverable
<1>1. Init => TypeOK /\ Shape /\ LinkInv
  BY InitInv
<1>2. TypeOK /\ Shape /\ LinkInv /\ [Next]_vars => (TypeOK /\ Shape /\ LinkInv)'
  BY TypeStep, LinkStep
<1>3. TypeOK /\ LinkInv => LinkedIsRecoverable
  BY DEF TypeOK, LinkInv, Holds, OnDisk, LinkedIsRecoverable, Readable, NoFile
<1>4. QED BY <1>1, <1>2, <1>3, PTL DEF Spec

(* No file that can be opened holds a session that was logged out, for any *)
(* number of devices and keys.                                             *)
THEOREM LoggedOutAlwaysStaysOut == Spec => []LoggedOutStaysOut
<1>1. Init => TypeOK /\ Shape /\ GoneInv
  BY InitInv
<1>2. TypeOK /\ Shape /\ GoneInv /\ [Next]_vars => (TypeOK /\ Shape /\ GoneInv)'
  BY TypeStep, GoneStep
<1>3. GoneInv => LoggedOutStaysOut
  BY DEF GoneInv, LoggedOutStaysOut, Readable
<1>4. QED BY <1>1, <1>2, <1>3, PTL DEF Spec

-------------------------------------------------------------------------------
(* The cadence guard                                                       *)

(* A set of naturals has a least element: what an induction on the length  *)
(* of a queue or on a count of bursts is made from.                        *)
LEMMA LeastNatural ==
  ASSUME NEW T, T \subseteq Nat, T # {}
  PROVE  \E n \in T : \A m \in T : n <= m
<1>1. PICK n \in T : \A m \in T : ~(<<m, n>> \in OpToRel(<, Nat))
  BY NatLessThanWellFounded, WFMin, Zenon
<1>2. \A m \in T : ~(m < n)
  BY <1>1, Zenon DEF OpToRel
<1>3. QED
  BY <1>2

(* The loop of pop_front stops somewhere,                                  *)
LEMMA PopsExists ==
  ASSUME NEW times \in Seq(Int), NEW t \in Int
  PROVE  \E d \in 0..Len(times) : Pops(times, t, d)
<1> DEFINE T == {d \in 0..Len(times) : d < Len(times) => times[d + 1] >= t}
<1>1. Len(times) \in Nat /\ \A i \in 1..Len(times) : times[i] \in Int
  OBVIOUS
<1>2. T \subseteq Nat /\ Len(times) \in T
  BY <1>1
<1>3. PICK d \in T : \A m \in T : d <= m
  BY <1>2, LeastNatural
<1>4. \A k \in 1..d : times[k] < t
  <2>1. TAKE k \in 1..d
  <2> DEFINE m == k - 1
  <2>2. m \in 0..Len(times) /\ m < Len(times) /\ ~(d <= m) /\ m + 1 = k
    BY <1>1
  <2> HIDE DEF m
  <2>3. m \notin T
    BY <1>3, <2>2
  <2>4. ~(times[m + 1] >= t)
    BY <2>2, <2>3
  <2>5. times[k] \in Int
    BY <1>1
  <2>6. QED
    BY <2>2, <2>4, <2>5
<1>5. QED
  BY <1>3, <1>4 DEF Pops

(* and in one place only.                                                  *)
LEMMA PopsOnce ==
  ASSUME NEW times \in Seq(Int), NEW t \in Int,
         NEW d \in Nat, NEW e \in Nat, Pops(times, t, d), Pops(times, t, e)
  PROVE  d = e
<1>1. Len(times) \in Nat /\ \A k \in 1..Len(times) : times[k] \in Int
  OBVIOUS
<1>2. QED
  BY <1>1 DEF Pops

(* What is left after the loop has popped d turns.                         *)
LEMMA SinceIs ==
  ASSUME NEW times \in Seq(Int), NEW t \in Int, NEW d \in Nat, Pops(times, t, d)
  PROVE  /\ Since(times, t) \in Seq(Int)
         /\ Len(Since(times, t)) = Len(times) - d
         /\ \A k \in 1..Len(Since(times, t)) : Since(times, t)[k] = times[k + d]
<1>1. d \in 0..Len(times) /\ Len(times) \in Nat
  BY DEF Pops
<1>2. (CHOOSE e \in 0..Len(times) : Pops(times, t, e)) = d
  BY <1>1, PopsOnce
<1>3. Since(times, t) = SubSeq(times, d + 1, Len(times))
  BY <1>2 DEF Since
<1>4. \A i \in (d + 1)..Len(times) : times[i] \in Int
  BY <1>1
<1> DEFINE s == SubSeq(times, d + 1, Len(times))
<1>5. /\ s \in Seq(Int)
      /\ Len(s) = IF d + 1 <= Len(times) THEN Len(times) - (d + 1) + 1 ELSE 0
      /\ \A i \in 1..(Len(times) - (d + 1) + 1) : s[i] = times[(d + 1) + i - 1]
  BY <1>1, <1>4, SubSeqProperties
<1> HIDE DEF s
<1>6. Len(s) = Len(times) - d
  BY <1>1, <1>5
<1>7. \A k \in 1..Len(s) : s[k] = times[k + d]
  <2>1. TAKE k \in 1..Len(s)
  <2>2. k \in 1..(Len(times) - (d + 1) + 1) /\ (d + 1) + k - 1 = k + d
    BY <1>1, <1>6
  <2>3. QED
    BY <1>5, <2>2
<1>8. QED
  BY <1>3, <1>5, <1>6, <1>7 DEF s

(* The same, without the number of turns popped.                           *)
LEMMA SinceType ==
  ASSUME NEW times \in Seq(Int), NEW t \in Int
  PROVE  /\ Since(times, t) \in Seq(Int)
         /\ \E d \in Nat :
              /\ Len(Since(times, t)) = Len(times) - d
              /\ \A k \in 1..Len(Since(times, t)) : Since(times, t)[k] = times[k + d]
<1>1. PICK d \in 0..Len(times) : Pops(times, t, d)
  BY PopsExists
<1>2. d \in Nat
  OBVIOUS
<1>3. QED
  BY <1>1, <1>2, SinceIs

(* Pruning lazily loses nothing: to prune at t and then at a later u is to *)
(* prune at u.                                                             *)
LEMMA SinceSince ==
  ASSUME NEW times \in Seq(Int), NEW t \in Int, NEW u \in Int, t <= u
  PROVE  Since(Since(times, t), u) = Since(times, u)
<1> DEFINE s == Since(times, t)
<1>1. PICK d \in 0..Len(times) : Pops(times, t, d)
  BY PopsExists
<1>2. PICK e \in 0..Len(times) : Pops(times, u, e)
  BY PopsExists
<1>3. /\ d \in Nat /\ e \in Nat /\ Len(times) \in Nat
      /\ \A k \in 1..Len(times) : times[k] \in Int
  OBVIOUS
<1>4. /\ s \in Seq(Int) /\ Len(s) = Len(times) - d
      /\ \A k \in 1..Len(s) : s[k] = times[k + d]
  BY <1>1, <1>3, SinceIs
<1>5. d <= e
  <2>1. SUFFICES ASSUME e < d PROVE FALSE
    BY <1>3
  <2>2. e + 1 \in 1..d /\ e < Len(times) /\ e + 1 \in 1..Len(times)
    BY <2>1, <1>3
  <2>3. times[e + 1] < t /\ times[e + 1] >= u /\ times[e + 1] \in Int
    BY <2>2, <1>1, <1>2, <1>3 DEF Pops
  <2>4. QED
    BY <2>3
<1> DEFINE f == e - d
<1>6. f \in Nat /\ f \in 0..Len(s) /\ f + d = e
  BY <1>3, <1>4, <1>5
<1> HIDE DEF s, f
<1>7. Pops(s, u, f)
  <2>1. \A k \in 1..f : s[k] < u
    <3>1. TAKE k \in 1..f
    <3> DEFINE n == k + d
    <3>2. k \in 1..Len(s) /\ n \in 1..e
      BY <1>3, <1>6
    <3>3. s[k] = times[n]
      BY <3>2, <1>4
    <3> HIDE DEF n
    <3>4. QED
      BY <3>2, <3>3, <1>2 DEF Pops
  <2>2. f < Len(s) => s[f + 1] >= u
    <3>1. HAVE f < Len(s)
    <3> DEFINE n == f + 1
    <3>2. n \in 1..Len(s) /\ n + d = e + 1 /\ e < Len(times)
      BY <3>1, <1>3, <1>4, <1>6
    <3> HIDE DEF n
    <3>3. s[n] = times[n + d]
      BY <3>2, <1>4
    <3>4. s[n] >= u
      BY <3>2, <3>3, <1>2 DEF Pops
    <3>5. QED
      BY <3>4 DEF n
  <2>3. QED
    BY <2>1, <2>2, <1>6 DEF Pops
<1> DEFINE v == Since(s, u)
           w == Since(times, u)
<1>8. /\ v \in Seq(Int) /\ Len(v) = Len(s) - f
      /\ \A k \in 1..Len(v) : v[k] = s[k + f]
  BY <1>4, <1>6, <1>7, SinceIs
<1>9. /\ w \in Seq(Int) /\ Len(w) = Len(times) - e
      /\ \A k \in 1..Len(w) : w[k] = times[k + e]
  BY <1>2, <1>3, SinceIs
<1> HIDE DEF v, w
<1>10. Len(v) = Len(w) /\ Len(v) \in Nat
  <2>1. Len(v) \in Nat /\ Len(w) \in Nat /\ Len(s) \in Nat
    BY <1>4, <1>8, <1>9, LenProperties
  <2>2. /\ Len(v) = Len(s) - f /\ Len(s) = Len(times) - d
        /\ Len(w) = Len(times) - e
    BY <1>4, <1>8, <1>9
  <2>3. QED
    BY <2>1, <2>2, <1>3, <1>6, SMTT(20)
<1>11. \A k \in 1..Len(v) : v[k] = w[k]
  <2>1. TAKE k \in 1..Len(v)
  <2> DEFINE n == k + f
  <2>2. n \in 1..Len(s) /\ n + d = k + e
    BY <1>3, <1>4, <1>6, <1>8, <1>10
  <2>3. v[k] = s[n]
    BY <1>8
  <2> HIDE DEF n
  <2>4. s[n] = times[n + d] /\ w[k] = times[k + e]
    BY <2>2, <1>4, <1>9, <1>10
  <2>5. QED
    BY <2>2, <2>3, <2>4
<1>12. v = w
  BY <1>8, <1>9, <1>10, <1>11, SeqEqual
<1>13. QED
  BY <1>12 DEF s, v, w

(* A turn in the window that is appended is the last of what is left.      *)
LEMMA SinceAppend ==
  ASSUME NEW times \in Seq(Int), NEW t \in Int, NEW x \in Int, x >= t
  PROVE  Since(Append(times, x), t) = Append(Since(times, t), x)
<1> DEFINE s == Append(times, x)
           w == Since(times, t)
           v == Since(s, t)
           a == Append(w, x)
<1>1. PICK d \in 0..Len(times) : Pops(times, t, d)
  BY PopsExists
<1>2. d \in Nat /\ Len(times) \in Nat
  OBVIOUS
<1>3. /\ s \in Seq(Int) /\ Len(s) = Len(times) + 1
      /\ \A k \in 1..Len(times) : s[k] = times[k]
      /\ s[Len(times) + 1] = x
  BY AppendProperties
<1>4. /\ w \in Seq(Int) /\ Len(w) = Len(times) - d
      /\ \A k \in 1..Len(w) : w[k] = times[k + d]
  BY <1>1, <1>2, SinceIs
<1> HIDE DEF s, w
<1>5. /\ a \in Seq(Int) /\ Len(a) = Len(w) + 1
      /\ \A k \in 1..Len(w) : a[k] = w[k]
      /\ a[Len(w) + 1] = x
  BY <1>4, AppendProperties
<1> HIDE DEF a
<1>6. Pops(s, t, d)
  <2>1. \A k \in 1..d : s[k] < t
    <3>1. TAKE k \in 1..d
    <3>2. k \in 1..Len(times)
      BY <1>2
    <3>3. QED
      BY <3>2, <1>1, <1>3 DEF Pops
  <2>2. s[d + 1] >= t
    <3>1. CASE d < Len(times)
      <4>1. d + 1 \in 1..Len(times)
        BY <3>1, <1>2
      <4>2. QED
        BY <4>1, <3>1, <1>1, <1>3 DEF Pops
    <3>2. CASE d = Len(times)
      BY <3>2, <1>3
    <3>3. QED
      BY <3>1, <3>2, <1>2
  <2>3. QED
    BY <2>1, <2>2, <1>2, <1>3 DEF Pops
<1>7. /\ v \in Seq(Int) /\ Len(v) = Len(s) - d
      /\ \A k \in 1..Len(v) : v[k] = s[k + d]
  BY <1>2, <1>3, <1>6, SinceIs
<1> HIDE DEF v
<1>8. Len(v) = Len(a) /\ Len(v) \in Nat /\ Len(w) \in Nat
  BY <1>2, <1>3, <1>4, <1>5, <1>7
<1>9. \A k \in 1..Len(v) : v[k] = a[k]
  <2>1. TAKE k \in 1..Len(v)
  <2> DEFINE n == k + d
  <2>2. v[k] = s[n]
    BY <1>7
  <2>3. CASE k <= Len(w)
    <3>1. k \in 1..Len(w) /\ n \in 1..Len(times)
      BY <2>3, <1>2, <1>4, <1>8
    <3>2. a[k] = w[k] /\ w[k] = times[n]
      BY <3>1, <1>4, <1>5
    <3> HIDE DEF n
    <3>3. s[n] = times[n]
      BY <3>1, <1>3
    <3>4. QED
      BY <3>2, <3>3, <2>2
  <2>4. CASE k = Len(w) + 1
    <3>1. n = Len(times) + 1
      BY <2>4, <1>2, <1>4
    <3>2. QED
      BY <3>1, <2>2, <2>4, <1>3, <1>5
  <2>5. QED
    BY <2>3, <2>4, <1>5, <1>8
<1>10. v = a
  BY <1>5, <1>7, <1>8, <1>9, SeqEqual
<1>11. QED
  BY <1>10 DEF s, w, v, a

(* Nothing is left of turns that are all too old,                          *)
LEMMA SinceAllOld ==
  ASSUME NEW times \in Seq(Int), NEW t \in Int,
         \A i \in 1..Len(times) : times[i] < t
  PROVE  Since(times, t) = <<>>
<1>1. Len(times) \in Nat /\ Pops(times, t, Len(times))
  BY DEF Pops
<1>2. Since(times, t) \in Seq(Int) /\ Len(Since(times, t)) = 0
  BY <1>1, SinceIs
<1>3. QED
  BY <1>2, EmptySeq

(* so something left is a turn in the window.                              *)
LEMMA SinceIsRecent ==
  ASSUME NEW times \in Seq(Int), NEW t \in Int, Since(times, t) # <<>>
  PROVE  \E i \in 1..Len(times) : times[i] >= t
<1>1. PICK i \in 1..Len(times) : ~(times[i] < t)
  BY SinceAllOld
<1>2. times[i] \in Int
  OBVIOUS
<1>3. QED
  BY <1>1, <1>2

(* 1 << exp, as the recursion that defines it,                             *)
LEMMA DoublingRec ==
  Doubling = [e \in 0..ExpMax |-> IF e = 0 THEN 1 ELSE 2 * Doubling[e - 1]]
<1> DEFINE Upto(f, n) == f = [e \in 0..n |-> IF e = 0 THEN 1 ELSE 2 * f[e - 1]]
           T == {n \in Nat : ~\E f \in [0..n -> Nat] : Upto(f, n)}
<1>1. T = {}
  <2>1. SUFFICES ASSUME T # {} PROVE FALSE
    OBVIOUS
  <2>2. PICK n \in T : \A m \in T : n <= m
    BY <2>1, LeastNatural
  <2>3. CASE n = 0
    <3> DEFINE f == [e \in 0..0 |-> 1]
    <3>1. f \in [0..0 -> Nat] /\ Upto(f, 0)
      OBVIOUS
    <3>2. QED
      BY <2>2, <2>3, <3>1
  <2>4. CASE n # 0
    <3> DEFINE p == n - 1
    <3>0. p \in Nat /\ ~(n <= p) /\ n = p + 1
      BY <2>4
    <3> HIDE DEF p
    <3>1. p \notin T
      BY <2>2, <3>0
    <3>2. PICK g \in [0..p -> Nat] : Upto(g, p)
      BY <3>0, <3>1
    <3> DEFINE f == [e \in 0..n |-> IF e < n THEN g[e] ELSE 2 * g[p]]
    <3>3. f \in [0..n -> Nat]
      <4>1. \A e \in 0..n : (IF e < n THEN g[e] ELSE 2 * g[p]) \in Nat
        <5>1. p \in 0..p /\ \A e \in 0..n : e < n => e \in 0..p
          BY <3>0
        <5>2. QED
          BY <5>1
      <4>2. QED
        BY <4>1
    <3>4. \A e \in 0..n : f[e] = IF e = 0 THEN 1 ELSE 2 * f[e - 1]
      <4>1. TAKE e \in 0..n
      <4>2. CASE e = n
        BY <4>2, <2>4, <3>0
      <4>3. CASE e < n
        <5>1. e \in 0..p /\ f[e] = g[e]
          BY <4>3, <3>0
        <5>2. g[e] = IF e = 0 THEN 1 ELSE 2 * g[e - 1]
          BY <5>1, <3>2
        <5>3. e # 0 => e - 1 \in 0..n /\ e - 1 < n
          BY <4>3
        <5>4. QED
          BY <5>1, <5>2, <5>3
      <4>4. QED
        BY <4>2, <4>3
    <3>5. Upto(f, n)
      BY <3>4
    <3>6. QED
      BY <2>2, <3>3, <3>5
  <2>5. QED
    BY <2>3, <2>4
<1>2. \E f : Upto(f, ExpMax)
  BY <1>1, CadenciaAssumption
<1>3. QED
  BY <1>2 DEF Doubling

(* is positive and grows with exp.                                         *)
LEMMA DoublingGrows ==
  ASSUME NEW e \in 0..ExpMax
  PROVE  /\ Doubling[e] \in Nat \ {0}
         /\ \A d \in 0..e : Doubling[d] <= Doubling[e]
<1> DEFINE Grown(i) == /\ Doubling[i] \in Nat \ {0}
                       /\ \A d \in 0..i : Doubling[d] <= Doubling[i]
           T == {i \in 0..ExpMax : ~Grown(i)}
<1>0. ExpMax \in Nat
  BY CadenciaAssumption
<1>1. T = {}
  <2>1. SUFFICES ASSUME T # {} PROVE FALSE
    OBVIOUS
  <2>2. T \subseteq Nat
    BY <1>0
  <2>3. PICK n \in T : \A m \in T : n <= m
    BY <2>1, <2>2, LeastNatural
  <2>4. Doubling[n] = IF n = 0 THEN 1 ELSE 2 * Doubling[n - 1]
    BY DoublingRec
  <2>5. CASE n = 0
    BY <2>4, <2>5
  <2>6. CASE n # 0
    <3>1. n - 1 \in 0..ExpMax /\ Grown(n - 1)
      BY <1>0, <2>3, <2>6
    <3>2. Doubling[n] = 2 * Doubling[n - 1]
      BY <2>4, <2>6
    <3>3. Doubling[n] \in Nat \ {0} /\ Doubling[n - 1] <= Doubling[n]
      BY <3>1, <3>2
    <3>4. \A d \in 0..n : Doubling[d] <= Doubling[n]
      <4>1. TAKE d \in 0..n
      <4>2. CASE d = n
        BY <4>2, <3>3
      <4>3. CASE d # n
        <5>1. d \in 0..(n - 1) /\ d \in 0..ExpMax /\ d < n
          BY <4>3, <1>0
        <5>2. Doubling[d] <= Doubling[n - 1]
          BY <5>1, <3>1
        <5>3. Grown(d)
          BY <5>1, <2>3
        <5>4. QED
          BY <5>2, <5>3, <3>1, <3>3
      <4>4. QED
        BY <4>2, <4>3
    <3>5. QED
      BY <3>3, <3>4
  <2>7. QED
    BY <2>5, <2>6
<1>2. QED
  BY <1>1

(* A product grows with its second factor.                                 *)
LEMMA TimesGrows ==
  ASSUME NEW w \in Nat, NEW a \in Nat, NEW b \in Nat, a <= b
  PROVE  w * a \in Nat /\ w * a <= w * b
<1>1. w * (b - a) >= 0 /\ w * (b - a) = w * b - w * a
  OBVIOUS
<1>2. QED
  BY <1>1

(* No backoff is longer than the longest.                                  *)
LEMMA BackoffBounded ==
  ASSUME NEW n \in Nat \ {0}
  PROVE  /\ Backoff(n) \in Nat /\ Backoff(n) <= LongestBackoff
         /\ LongestBackoff \in Nat /\ Window <= LongestBackoff
<1>1. ExpMax \in Nat /\ Window \in Nat \ {0}
  BY CadenciaAssumption
<1>2. /\ Doubling[ExpMax] \in Nat \ {0}
      /\ \A e \in 0..ExpMax : Doubling[e] \in Nat /\ Doubling[e] <= Doubling[ExpMax]
  BY <1>1, DoublingGrows
<1>3. LongestBackoff \in Nat /\ Window * 1 <= LongestBackoff
  BY <1>1, <1>2, TimesGrows DEF LongestBackoff
<1> DEFINE exp == Smaller(n - 1, ExpMax)
<1>4. exp \in 0..ExpMax
  BY <1>1 DEF Smaller
<1> HIDE DEF exp
<1>5. Window * Doubling[exp] \in Nat /\ Window * Doubling[exp] <= LongestBackoff
  BY <1>1, <1>2, <1>4, TimesGrows DEF LongestBackoff
<1>6. Backoff(n) = IF exp >= 1 THEN Window * Doubling[exp] ELSE 0
  BY DEF Backoff, exp
<1>7. QED
  BY <1>1, <1>3, <1>5, <1>6

(* The first instant of the window.                                        *)
Floor == now - Window + 1

(* A queue of turns, oldest first.                                         *)
InOrder(times) == \A i, j \in 1..Len(times) : i <= j => times[i] <= times[j]

(* The queue of a chat is in order, ends no later than its last message,   *)
(* and holds every turn of the window.                                     *)
TurnsInv ==
  \A c \in Chat :
    /\ InOrder(turnos[c])
    /\ \A i \in 1..Len(turnos[c]) : turnos[c][i] <= lastSeen[c]
    /\ Since(turnos[c], Floor) = recent[c]

(* A backoff promised is in the map or over, and starts no later than the  *)
(* last message.                                                           *)
BackoffInv ==
  \A c \in Chat :
    /\ lastSeen[c] <= now
    /\ heldUntil[c] <= bloqueio_ate[c] \/ heldUntil[c] <= now
    /\ bloqueio_ate[c] # 0 => /\ lastSeen[c] # Never
                              /\ bloqueio_ate[c] <= lastSeen[c] + LongestBackoff

(* A chat that was told it is cut is in em_corte still, or has no turn in  *)
(* the window.                                                             *)
NoticeInv ==
  \A c \in Chat :
    notices[c] = 0 \/ (notices[c] = 1 /\ (c \in em_corte \/ recent[c] = <<>>))

(* The invariant of the cadence guard.                                     *)
IInv == CadenciaTypeOK /\ TurnsInv /\ BackoffInv /\ NoticeInv

(* What a sweep may do to the entries of d when c writes: nothing, or wipe *)
(* what counts no more.                                                    *)
Wiped(c, d, g) ==
  /\ g.turnos[d] = turnos[d] \/ (g.turnos[d] = <<>> /\ recent[d] = <<>>)
  /\ d \in em_corte => d \in g.em_corte \/ recent[d] = <<>>
  /\ g.bloqueio_ate[d] = bloqueio_ate[d] \/ (g.bloqueio_ate[d] = 0 /\ bloqueio_ate[d] <= now)

(* The types of the clock and of the start of the window.                  *)
LEMMA FloorInt ==
  ASSUME CadenciaTypeOK
  PROVE  /\ now \in Nat /\ Window \in Nat \ {0} /\ Floor \in Int
         /\ Floor <= now /\ MaxTime \in Nat /\ 0 \in Instant /\ Instant \subseteq Int
  BY CadenciaAssumption DEF CadenciaTypeOK, Instant, Floor

(* A queue of instants is one of integers,                                 *)
LEMMA TimesAreInts ==
  ASSUME NEW times \in Seq(Instant)
  PROVE  times \in Seq(Int)
  BY SeqMonotonic, CadenciaAssumption DEF Instant

(* and so is what pruning leaves of it.                                    *)
LEMMA SinceInstants ==
  ASSUME NEW times \in Seq(Instant), NEW t \in Int
  PROVE  Since(times, t) \in Seq(Instant)
<1>1. times \in Seq(Int)
  BY TimesAreInts
<1> DEFINE s == Since(times, t)
<1>2. s \in Seq(Int)
  BY <1>1, SinceType
<1>3. PICK d \in Nat : /\ Len(s) = Len(times) - d
                       /\ \A k \in 1..Len(s) : s[k] = times[k + d]
  BY <1>1, SinceType
<1> HIDE DEF s
<1>4. \A k \in 1..Len(s) : s[k] \in Instant
  <2>1. TAKE k \in 1..Len(s)
  <2> DEFINE n == k + d
  <2>2. Len(s) \in Nat /\ Len(times) \in Nat
    BY <1>2, LenProperties
  <2>3. n \in 1..Len(times)
    BY <2>2, <1>3
  <2>4. s[k] = times[n]
    BY <1>3
  <2> HIDE DEF n
  <2>5. times[n] \in Instant
    BY <2>3, ElementOfSeq
  <2>6. QED
    BY <2>4, <2>5
<1>5. s \in Seq(Instant)
  BY <1>2, <1>4, SeqMonotonic, IsASeq, LenProperties
<1>6. QED
  BY <1>5 DEF s

(* Pruning keeps the order of a queue and what bounds it.                  *)
LEMMA SinceInOrder ==
  ASSUME NEW times \in Seq(Int), NEW t \in Int, NEW bound \in Int,
         InOrder(times), \A i \in 1..Len(times) : times[i] <= bound
  PROVE  /\ InOrder(Since(times, t))
         /\ \A i \in 1..Len(Since(times, t)) : Since(times, t)[i] <= bound
<1> DEFINE s == Since(times, t)
<1>1. s \in Seq(Int)
  BY SinceType
<1>2. PICK d \in Nat : /\ Len(s) = Len(times) - d
                       /\ \A k \in 1..Len(s) : s[k] = times[k + d]
  BY SinceType
<1>3. Len(s) \in Nat /\ Len(times) \in Nat
  BY <1>1, LenProperties
<1> HIDE DEF s
<1>4. ASSUME NEW i \in 1..Len(s), NEW j \in 1..Len(s), i <= j
      PROVE  s[i] <= s[j]
  <2> DEFINE m == i + d
             n == j + d
  <2>1. m \in 1..Len(times) /\ n \in 1..Len(times) /\ m <= n
    BY <1>2, <1>3, <1>4
  <2>2. s[i] = times[m] /\ s[j] = times[n]
    BY <1>2
  <2> HIDE DEF m, n
  <2>3. QED
    BY <2>1, <2>2 DEF InOrder
<1>5. ASSUME NEW i \in 1..Len(s)
      PROVE  s[i] <= bound
  <2> DEFINE m == i + d
  <2>1. m \in 1..Len(times)
    BY <1>2, <1>3
  <2>2. s[i] = times[m]
    BY <1>2
  <2> HIDE DEF m
  <2>3. QED
    BY <2>1, <2>2
<1>6. QED
  BY <1>4, <1>5 DEF s, InOrder

(* A queue in order stays so when a turn no older than its turns is        *)
(* appended.                                                               *)
LEMMA AppendInOrder ==
  ASSUME NEW times \in Seq(Int), NEW x \in Int,
         InOrder(times), \A i \in 1..Len(times) : times[i] <= x
  PROVE  /\ InOrder(Append(times, x))
         /\ \A i \in 1..Len(Append(times, x)) : Append(times, x)[i] <= x
<1> DEFINE s == Append(times, x)
<1>1. /\ Len(s) = Len(times) + 1 /\ Len(times) \in Nat
      /\ \A k \in 1..Len(times) : s[k] = times[k]
      /\ s[Len(times) + 1] = x
  BY AppendProperties, LenProperties
<1> HIDE DEF s
<1>2. \A k \in 1..Len(s) : k \in 1..Len(times) \/ k = Len(times) + 1
  BY <1>1
<1>3. \A i \in 1..Len(s) : s[i] <= x
  BY <1>1, <1>2
<1>4. ASSUME NEW i \in 1..Len(s), NEW j \in 1..Len(s), i <= j
      PROVE  s[i] <= s[j]
  <2>1. CASE j = Len(times) + 1
    BY <2>1, <1>1, <1>3
  <2>2. CASE j \in 1..Len(times)
    <3>1. i \in 1..Len(times)
      BY <2>2, <1>1, <1>4
    <3>2. QED
      BY <2>2, <3>1, <1>1, <1>4 DEF InOrder
  <2>3. QED
    BY <2>1, <2>2, <1>2
<1>5. QED
  BY <1>3, <1>4 DEF s, InOrder

(* A chat a sweep drops has no turn in the window.                         *)
LEMMA NotAliveIsOld ==
  ASSUME IInv, NEW d \in Chat, d \notin Alive
  PROVE  recent[d] = <<>>
<1> DEFINE times == turnos[d]
<1>1. times \in Seq(Instant) /\ times \in Seq(Int) /\ Len(times) \in Nat
  BY TimesAreInts, LenProperties DEF IInv, CadenciaTypeOK
<1>2. InOrder(times) /\ Since(times, Floor) = recent[d]
  BY DEF IInv, TurnsInv
<1>3. CASE times = <<>>
  <2>1. \A i \in 1..Len(times) : times[i] < Floor
    BY <1>3
  <2>2. QED
    BY <2>1, <1>1, <1>2, FloorInt, SinceAllOld DEF IInv
<1>4. CASE times # <<>>
  <2>1. Len(times) \in 1..Len(times)
    BY <1>1, <1>4, EmptySeq
  <2>2. ~(now - times[Len(times)] < Window)
    BY <1>4 DEF Alive, Known
  <2>3. times[Len(times)] \in Int
    BY <1>1, <2>1, ElementOfSeq
  <2>4. times[Len(times)] < Floor
    BY <2>2, <2>3, FloorInt DEF Floor, IInv
  <2>5. \A i \in 1..Len(times) : times[i] < Floor
    <3>1. TAKE i \in 1..Len(times)
    <3>2. times[i] \in Int /\ times[i] <= times[Len(times)]
      BY <1>1, <1>2, <2>1, ElementOfSeq DEF InOrder
    <3>3. QED
      BY <3>2, <2>3, <2>4, FloorInt DEF IInv
  <2>6. QED
    BY <2>5, <1>1, <1>2, FloorInt, SinceAllOld DEF IInv
<1>5. QED
  BY <1>3, <1>4

(* A sweep wipes nothing that still counts.                                *)
LEMMA SweptKeeps ==
  ASSUME IInv, NEW c \in Chat
  PROVE  /\ Swept(c).turnos \in [Chat -> Seq(Instant)]
         /\ Swept(c).em_corte \subseteq em_corte
         /\ Swept(c).bloqueio_ate \in [Chat -> Nat]
         /\ Swept(c).rajadas \in [Chat -> Nat]
         /\ Swept(c).ultimo_corte \in [Chat -> Instant \cup {Never}]
         /\ \A d \in Chat : Wiped(c, d, Swept(c))
<1>0. CadenciaTypeOK
  BY DEF IInv
<1>1. CASE ~MeetsFullTable(c)
  <2>1. /\ Swept(c).turnos = turnos /\ Swept(c).em_corte = em_corte
        /\ Swept(c).bloqueio_ate = bloqueio_ate /\ Swept(c).rajadas = rajadas
        /\ Swept(c).ultimo_corte = ultimo_corte
    BY <1>1 DEF Swept, Tables
  <2>2. QED
    BY <2>1, <1>0 DEF Wiped, CadenciaTypeOK
<1>2. CASE MeetsFullTable(c)
  <2> DEFINE held == {d \in Chat : bloqueio_ate[d] > now}
  <2>1. /\ Swept(c).turnos = [d \in Chat |-> IF d \in Alive THEN turnos[d] ELSE <<>>]
        /\ Swept(c).em_corte = em_corte \cap Alive
        /\ Swept(c).bloqueio_ate =
             [d \in Chat |-> IF d \in Alive \cup held THEN bloqueio_ate[d] ELSE 0]
        /\ Swept(c).rajadas = [d \in Chat |-> IF d \in Alive THEN rajadas[d] ELSE 0]
        /\ Swept(c).ultimo_corte =
             [d \in Chat |-> IF d \in Alive THEN ultimo_corte[d] ELSE Never]
    BY <1>2 DEF Swept, SweptTo
  <2>2. \A d \in Chat : d \notin held => bloqueio_ate[d] <= now
    <3>1. TAKE d \in Chat
    <3>2. bloqueio_ate[d] \in Nat /\ now \in Nat
      BY <1>0, FloorInt DEF CadenciaTypeOK
    <3>3. QED
      BY <3>2
  <2>3. <<>> \in Seq(Instant)
    OBVIOUS
  <2>4. /\ Swept(c).turnos \in [Chat -> Seq(Instant)]
        /\ Swept(c).em_corte \subseteq em_corte
        /\ Swept(c).rajadas \in [Chat -> Nat]
        /\ Swept(c).ultimo_corte \in [Chat -> Instant \cup {Never}]
    BY <2>1, <2>3, <1>0 DEF CadenciaTypeOK
  <2>5. Swept(c).bloqueio_ate \in [Chat -> Nat]
    BY <2>1, <1>0 DEF CadenciaTypeOK
  <2>6. \A d \in Chat : Wiped(c, d, Swept(c))
    BY <2>1, <2>2, NotAliveIsOld DEF Wiped
  <2>7. QED
    BY <2>4, <2>5, <2>6
<1>3. QED
  BY <1>1, <1>2

(* The last message of a chat, as a number.                                *)
LEMMA SeenIsInt ==
  ASSUME CadenciaTypeOK, NEW d \in Chat
  PROVE  /\ lastSeen[d] \in Int
         /\ lastSeen[d] \in Nat \/ lastSeen[d] = Never
         /\ Never \in Int /\ Never < 0
<1>1. lastSeen[d] \in Instant \cup {Never}
  BY DEF CadenciaTypeOK
<1>2. Instant \subseteq Nat
  BY CadenciaAssumption DEF Instant
<1>3. Never \in Int /\ Never < 0
  BY DEF Never
<1>4. CASE lastSeen[d] \in Instant
  <2>1. lastSeen[d] \in Nat
    BY <1>2, <1>4
  <2>2. lastSeen[d] \in Int
    BY <2>1
  <2>3. QED
    BY <1>3, <2>1, <2>2
<1>5. CASE lastSeen[d] = Never
  <2>1. lastSeen[d] \in Int
    BY <1>3, <1>5
  <2>2. QED
    BY <1>3, <1>5, <2>1
<1>6. QED
  BY <1>1, <1>4, <1>5

(* The turns in the window survive a sweep,                                *)
LEMMA SweptTurns ==
  ASSUME IInv, NEW c \in Chat, NEW d \in Chat
  PROVE  /\ Swept(c).turnos[d] \in Seq(Instant)
         /\ InOrder(Swept(c).turnos[d])
         /\ \A i \in 1..Len(Swept(c).turnos[d]) : Swept(c).turnos[d][i] <= lastSeen[d]
         /\ Since(Swept(c).turnos[d], Floor) = recent[d]
<1>1. /\ Swept(c).turnos \in [Chat -> Seq(Instant)]
      /\ Wiped(c, d, Swept(c))
  BY SweptKeeps
<1>2. /\ InOrder(turnos[d]) /\ \A i \in 1..Len(turnos[d]) : turnos[d][i] <= lastSeen[d]
      /\ Since(turnos[d], Floor) = recent[d]
  BY DEF IInv, TurnsInv
<1>3. CASE Swept(c).turnos[d] = turnos[d]
  BY <1>1, <1>2, <1>3
<1>4. CASE Swept(c).turnos[d] = <<>> /\ recent[d] = <<>>
  <2> DEFINE none == <<>>
  <2>1. none \in Seq(Int) /\ Len(none) = 0
    BY EmptySeq
  <2> HIDE DEF none
  <2>2. InOrder(none) /\ \A i \in 1..Len(none) : none[i] < Floor /\ none[i] <= lastSeen[d]
    BY <2>1 DEF InOrder
  <2>3. Floor \in Int
    BY FloorInt DEF IInv
  <2>4. Since(none, Floor) = <<>>
    BY <2>1, <2>2, <2>3, SinceAllOld
  <2>5. Swept(c).turnos[d] = none
    BY <1>4 DEF none
  <2>6. QED
    BY <1>1, <1>4, <2>2, <2>4, <2>5
<1>5. QED
  BY <1>1, <1>3, <1>4 DEF Wiped

(* and the pruned queue holds just those.                                  *)
LEMMA PrunedTurns ==
  ASSUME IInv, NEW c \in Chat
  PROVE  LET fila == InWindow(Swept(c).turnos[c])
         IN /\ fila = recent[c] /\ fila \in Seq(Instant)
            /\ InOrder(fila)
            /\ \A i \in 1..Len(fila) : fila[i] <= lastSeen[c]
            /\ Since(fila, Floor) = fila
<1> DEFINE times == Swept(c).turnos[c]
           fila == InWindow(times)
<1>1. /\ times \in Seq(Instant) /\ InOrder(times)
      /\ \A i \in 1..Len(times) : times[i] <= lastSeen[c]
      /\ Since(times, Floor) = recent[c]
  BY SweptTurns
<1>2. times \in Seq(Int) /\ Floor \in Int /\ lastSeen[c] \in Int
  <2>1. times \in Seq(Int)
    BY <1>1, TimesAreInts
  <2>2. QED
    BY <2>1, FloorInt, SeenIsInt DEF IInv
<1>3. fila = Since(times, Floor)
  BY DEF InWindow, Floor
<1> HIDE DEF times, fila
<1>4. fila = recent[c] /\ fila \in Seq(Instant)
  BY <1>1, <1>2, <1>3, SinceInstants
<1>5. InOrder(fila) /\ \A i \in 1..Len(fila) : fila[i] <= lastSeen[c]
  BY <1>1, <1>2, <1>3, SinceInOrder
<1>6. Since(fila, Floor) = fila
  BY <1>2, <1>3, SinceSince
<1>7. QED
  BY <1>4, <1>5, <1>6 DEF times, fila

(* The ceiling in force is never zero, and that of a suspect message is no *)
(* higher.                                                                 *)
LEMMA CeilingType ==
  ASSUME CadenciaTypeOK, SetMax, NEW suspect \in BOOLEAN
  PROVE  /\ max' \in Nat \ {0} /\ declared' \in BOOLEAN
         /\ Limit(suspect) \in Nat \ {0} /\ Limit(suspect) <= max'
<1>1. max' \in Nat \ {0} /\ declared' \in BOOLEAN
  BY CadenciaAssumption DEF CadenciaTypeOK, SetMax
<1>2. QED
  BY <1>1, CadenciaAssumption DEF Limit, Smaller

(* A cut keeps the invariant: by a backoff,                                *)
LEMMA CutByBackoffStep ==
  ASSUME IInv, NEW c \in Chat, CutByBackoff(c)
  PROVE  IInv'
<1> DEFINE g == Swept(c)
<1>1. /\ turnos' = g.turnos /\ em_corte' = g.em_corte /\ rajadas' = g.rajadas
      /\ bloqueio_ate' = g.bloqueio_ate /\ ultimo_corte' = g.ultimo_corte
      /\ lastSeen' = [lastSeen EXCEPT ![c] = now]
      /\ lastCut' = [lastCut EXCEPT ![c] = now]
      /\ SetMax /\ UNCHANGED <<now, knob, heldUntil, recent, notices>>
  BY DEF CutByBackoff, ObserveCut
<1>2. /\ g.turnos \in [Chat -> Seq(Instant)] /\ g.em_corte \subseteq em_corte
      /\ g.bloqueio_ate \in [Chat -> Nat] /\ g.rajadas \in [Chat -> Nat]
      /\ g.ultimo_corte \in [Chat -> Instant \cup {Never}]
      /\ \A d \in Chat : Wiped(c, d, g)
  BY SweptKeeps
<1>3. \A d \in Chat : /\ InOrder(g.turnos[d])
                      /\ \A i \in 1..Len(g.turnos[d]) : g.turnos[d][i] <= lastSeen[d]
                      /\ Since(g.turnos[d], Floor) = recent[d]
  BY SweptTurns
<1> HIDE DEF g
<1>4. CadenciaTypeOK /\ BackoffInv /\ NoticeInv /\ now \in Instant
  BY DEF IInv, CadenciaTypeOK
<1>5. CadenciaTypeOK'
  BY <1>1, <1>2, <1>4, CeilingType DEF CadenciaTypeOK
<1>6. Floor' = Floor /\ now \in Nat
  BY <1>1, <1>4, FloorInt DEF Floor
<1>7. \A d \in Chat : /\ lastSeen[d] \in Int /\ lastSeen'[d] \in Int
                      /\ lastSeen[d] <= lastSeen'[d] /\ lastSeen'[d] <= now
                      /\ lastSeen[d] # Never => lastSeen'[d] # Never
  <2>1. TAKE d \in Chat
  <2>2. /\ lastSeen[d] \in Int /\ lastSeen[d] <= now /\ Never \in Int /\ Never < 0
    BY <1>4, SeenIsInt DEF BackoffInv
  <2>3. lastSeen'[d] = IF d = c THEN now ELSE lastSeen[d]
    BY <1>1, <1>4 DEF CadenciaTypeOK
  <2>4. QED
    BY <2>2, <2>3, <1>6
<1>8. TurnsInv'
  <2>1. SUFFICES ASSUME NEW d \in Chat
                 PROVE  /\ InOrder(g.turnos[d])
                        /\ \A i \in 1..Len(g.turnos[d]) : g.turnos[d][i] <= lastSeen'[d]
                        /\ Since(g.turnos[d], Floor) = recent[d]
    BY <1>1, <1>6 DEF TurnsInv
  <2>2. \A i \in 1..Len(g.turnos[d]) : g.turnos[d][i] \in Int
    BY <1>2, FloorInt, <1>4
  <2>3. QED
    BY <1>3, <1>7, <2>2
<1>9. BackoffInv'
  <2>1. LongestBackoff \in Nat
    BY BackoffBounded
  <2>2. ASSUME NEW d \in Chat
        PROVE  /\ lastSeen'[d] <= now
               /\ heldUntil[d] <= g.bloqueio_ate[d] \/ heldUntil[d] <= now
               /\ g.bloqueio_ate[d] # 0 =>
                    lastSeen'[d] # Never /\ g.bloqueio_ate[d] <= lastSeen'[d] + LongestBackoff
    <3>1. /\ heldUntil[d] <= bloqueio_ate[d] \/ heldUntil[d] <= now
          /\ bloqueio_ate[d] # 0 =>
               lastSeen[d] # Never /\ bloqueio_ate[d] <= lastSeen[d] + LongestBackoff
      BY <1>4 DEF BackoffInv
    <3>2. heldUntil[d] \in Nat /\ bloqueio_ate[d] \in Nat /\ g.bloqueio_ate[d] \in Nat
      BY <1>2, <1>4 DEF CadenciaTypeOK
    <3>3. g.bloqueio_ate[d] = bloqueio_ate[d] \/ (g.bloqueio_ate[d] = 0 /\ bloqueio_ate[d] <= now)
      BY <1>2 DEF Wiped
    <3>4. QED
      BY <3>1, <3>2, <3>3, <2>1, <1>6, <1>7
  <2>3. LongestBackoff' = LongestBackoff
    BY DEF LongestBackoff, Doubling
  <2>4. QED
    BY <1>1, <2>2, <2>3 DEF BackoffInv
<1>10. NoticeInv'
  BY <1>1, <1>2, <1>4 DEF NoticeInv, Wiped
<1>11. QED
  BY <1>5, <1>8, <1>9, <1>10 DEF IInv

(* or by the ceiling, which may start a burst.                             *)
LEMMA CutByCeilingStep ==
  ASSUME IInv, NEW c \in Chat, NEW suspect \in BOOLEAN,
         CutByCeiling(c, suspect)
  PROVE  IInv'
<1> DEFINE g == Swept(c)
           fila == InWindow(g.turnos[c])
           first == c \notin g.em_corte
           n == g.rajadas[c] + 1
           held == first /\ Backoff(n) > 0
<1>1. /\ now >= g.bloqueio_ate[c] /\ Len(fila) >= Limit(suspect)
      /\ turnos' = [g.turnos EXCEPT ![c] = fila]
      /\ em_corte' = g.em_corte \cup {c}
      /\ rajadas' = IF first THEN [g.rajadas EXCEPT ![c] = n] ELSE g.rajadas
      /\ bloqueio_ate' = IF held THEN [g.bloqueio_ate EXCEPT ![c] = now + Backoff(n)]
                         ELSE g.bloqueio_ate
      /\ ultimo_corte' = IF first THEN [g.ultimo_corte EXCEPT ![c] = now]
                         ELSE g.ultimo_corte
      /\ heldUntil' = IF held THEN [heldUntil EXCEPT ![c] = now + Backoff(n)]
                      ELSE heldUntil
      /\ lastSeen' = [lastSeen EXCEPT ![c] = now]
      /\ lastCut' = [lastCut EXCEPT ![c] = now]
      /\ notices' = IF first THEN [notices EXCEPT ![c] = @ + 1] ELSE notices
      /\ SetMax /\ UNCHANGED <<now, knob, recent>>
  BY DEF CutByCeiling, ObserveCut
<1>2. /\ g.turnos \in [Chat -> Seq(Instant)] /\ g.em_corte \subseteq em_corte
      /\ g.bloqueio_ate \in [Chat -> Nat] /\ g.rajadas \in [Chat -> Nat]
      /\ g.ultimo_corte \in [Chat -> Instant \cup {Never}]
      /\ \A d \in Chat : Wiped(c, d, g)
  BY SweptKeeps
<1>3. \A d \in Chat : /\ InOrder(g.turnos[d])
                      /\ \A i \in 1..Len(g.turnos[d]) : g.turnos[d][i] <= lastSeen[d]
                      /\ Since(g.turnos[d], Floor) = recent[d]
  BY SweptTurns
<1>4. /\ fila = recent[c] /\ fila \in Seq(Instant) /\ InOrder(fila)
      /\ \A i \in 1..Len(fila) : fila[i] <= lastSeen[c]
      /\ Since(fila, Floor) = fila
  BY PrunedTurns
<1>5. Limit(suspect) \in Nat \ {0} /\ max' \in Nat \ {0} /\ declared' \in BOOLEAN
  BY <1>1, CeilingType DEF IInv
<1>6. n \in Nat \ {0}
  BY <1>2
<1>7. /\ Backoff(n) \in Nat /\ Backoff(n) <= LongestBackoff /\ LongestBackoff \in Nat
  BY <1>6, BackoffBounded
<1> DEFINE until == Backoff(n)
<1> HIDE DEF g, fila, n
<1>8. CadenciaTypeOK /\ BackoffInv /\ NoticeInv /\ now \in Instant
  BY DEF IInv, CadenciaTypeOK
<1>9. Floor' = Floor /\ now \in Nat
  BY <1>1, <1>8, FloorInt DEF Floor
<1>10. now + until \in Nat
  BY <1>7, <1>9
<1>11. CadenciaTypeOK'
  <2>1. /\ turnos' \in [Chat -> Seq(Instant)] /\ em_corte' \subseteq Chat
        /\ rajadas' \in [Chat -> Nat]
        /\ ultimo_corte' \in [Chat -> Instant \cup {Never}]
    BY <1>1, <1>2, <1>4, <1>6, <1>8 DEF CadenciaTypeOK
  <2>2. bloqueio_ate' \in [Chat -> Nat] /\ heldUntil' \in [Chat -> Nat]
    BY <1>1, <1>2, <1>8, <1>10 DEF CadenciaTypeOK
  <2>3. /\ lastSeen' \in [Chat -> Instant \cup {Never}]
        /\ lastCut' \in [Chat -> Instant \cup {Never}]
        /\ notices' \in [Chat -> Nat]
    BY <1>1, <1>8 DEF CadenciaTypeOK
  <2>4. QED
    BY <1>1, <1>5, <1>8, <2>1, <2>2, <2>3 DEF CadenciaTypeOK
<1>12. \A d \in Chat : /\ lastSeen[d] \in Int /\ lastSeen'[d] \in Int
                       /\ lastSeen[d] <= lastSeen'[d] /\ lastSeen'[d] <= now
                       /\ lastSeen[d] # Never => lastSeen'[d] # Never
                       /\ d = c => lastSeen'[d] = now /\ now # Never
  <2>1. TAKE d \in Chat
  <2>2. /\ lastSeen[d] \in Int /\ lastSeen[d] <= now /\ Never \in Int /\ Never < 0
    BY <1>8, SeenIsInt DEF BackoffInv
  <2>3. lastSeen'[d] = IF d = c THEN now ELSE lastSeen[d]
    BY <1>1, <1>8 DEF CadenciaTypeOK
  <2>4. QED
    BY <2>2, <2>3, <1>9
<1>13. TurnsInv'
  <2>1. ASSUME NEW d \in Chat
        PROVE  /\ InOrder(turnos'[d])
               /\ \A i \in 1..Len(turnos'[d]) : turnos'[d][i] \in Int /\ turnos'[d][i] <= lastSeen[d]
               /\ Since(turnos'[d], Floor) = recent[d]
    <3>1. turnos'[d] = IF d = c THEN fila ELSE g.turnos[d]
      BY <1>1, <1>2
    <3>2. turnos'[d] \in Seq(Int)
      BY <3>1, <1>2, <1>4, TimesAreInts
    <3>3. \A i \in 1..Len(turnos'[d]) : turnos'[d][i] \in Int
      BY <3>2
    <3>4. CASE d = c
      BY <3>1, <3>3, <3>4, <1>4
    <3>5. CASE d # c
      BY <3>1, <3>3, <3>5, <1>3
    <3>6. QED
      BY <3>4, <3>5
  <2>2. \A d \in Chat : \A i \in 1..Len(turnos'[d]) : turnos'[d][i] <= lastSeen'[d]
    BY <2>1, <1>12
  <2>3. QED
    BY <2>1, <2>2, <1>1, <1>9 DEF TurnsInv
<1>14. BackoffInv'
  <2>1. ASSUME NEW d \in Chat
        PROVE  /\ lastSeen'[d] <= now
               /\ heldUntil'[d] <= bloqueio_ate'[d] \/ heldUntil'[d] <= now
               /\ bloqueio_ate'[d] # 0 =>
                    lastSeen'[d] # Never /\ bloqueio_ate'[d] <= lastSeen'[d] + LongestBackoff
    <3>1. /\ heldUntil[d] <= bloqueio_ate[d] \/ heldUntil[d] <= now
          /\ bloqueio_ate[d] # 0 =>
               lastSeen[d] # Never /\ bloqueio_ate[d] <= lastSeen[d] + LongestBackoff
      BY <1>8 DEF BackoffInv
    <3>2. heldUntil[d] \in Nat /\ bloqueio_ate[d] \in Nat /\ g.bloqueio_ate[d] \in Nat
      BY <1>2, <1>8 DEF CadenciaTypeOK
    <3>3. g.bloqueio_ate[d] = bloqueio_ate[d] \/ (g.bloqueio_ate[d] = 0 /\ bloqueio_ate[d] <= now)
      BY <1>2 DEF Wiped
    <3>4. CASE held /\ d = c
      <4>1. bloqueio_ate'[d] = now + until /\ heldUntil'[d] = now + until
        BY <3>4, <1>1, <1>2, <1>8 DEF CadenciaTypeOK
      <4>2. QED
        BY <4>1, <3>4, <1>7, <1>9, <1>10, <1>12
    <3>5. CASE ~(held /\ d = c)
      <4>1. bloqueio_ate'[d] = g.bloqueio_ate[d] /\ heldUntil'[d] = heldUntil[d]
        BY <3>5, <1>1, <1>2, <1>8 DEF CadenciaTypeOK
      <4>2. QED
        BY <4>1, <3>1, <3>2, <3>3, <1>7, <1>9, <1>12
    <3>6. QED
      BY <3>4, <3>5
  <2>2. LongestBackoff' = LongestBackoff
    BY DEF LongestBackoff, Doubling
  <2>3. QED
    BY <1>1, <2>1, <2>2 DEF BackoffInv
<1>15. NoticeInv'
  <2>1. recent[c] # <<>>
    BY <1>1, <1>4, <1>5
  <2>2. first => notices[c] = 0
    BY <2>1, <1>2, <1>8 DEF NoticeInv, Wiped
  <2>3. ASSUME NEW d \in Chat
        PROVE  notices'[d] = 0 \/ (notices'[d] = 1 /\ (d \in em_corte' \/ recent[d] = <<>>))
    <3>1. CASE d = c
      <4>1. notices'[d] = IF first THEN notices[d] + 1 ELSE notices[d]
        BY <3>1, <1>1, <1>8 DEF CadenciaTypeOK
      <4>2. d \in em_corte' /\ (notices[d] = 0 \/ notices[d] = 1)
        BY <3>1, <1>1, <1>8 DEF NoticeInv
      <4>3. QED
        BY <4>1, <4>2, <2>2, <3>1
    <3>2. CASE d # c
      <4>1. notices'[d] = notices[d]
        BY <3>2, <1>1, <1>8 DEF CadenciaTypeOK
      <4>2. QED
        BY <4>1, <1>1, <1>2, <1>8 DEF NoticeInv, Wiped
    <3>3. QED
      BY <3>1, <3>2
  <2>4. QED
    BY <2>3, <1>1 DEF NoticeInv
<1>16. QED
  BY <1>11, <1>13, <1>14, <1>15 DEF IInv

(* An admission keeps the invariant.                                       *)
LEMMA AdmitStep ==
  ASSUME IInv, NEW c \in Chat, NEW suspect \in BOOLEAN,
         Admit(c, suspect)
  PROVE  IInv'
<1> DEFINE g == Swept(c)
           fila == InWindow(g.turnos[c])
           forgiven == g.ultimo_corte[c] # Never /\ now - g.ultimo_corte[c] >= Grace
<1>1. /\ now >= g.bloqueio_ate[c]
      /\ turnos' = [g.turnos EXCEPT ![c] = Append(fila, now)]
      /\ em_corte' = g.em_corte \ {c}
      /\ rajadas' = IF forgiven THEN [g.rajadas EXCEPT ![c] = 0] ELSE g.rajadas
      /\ bloqueio_ate' = IF forgiven THEN [g.bloqueio_ate EXCEPT ![c] = 0]
                         ELSE g.bloqueio_ate
      /\ ultimo_corte' = g.ultimo_corte
      /\ recent' = [recent EXCEPT ![c] = Append(recent[c], now)]
      /\ lastSeen' = [lastSeen EXCEPT ![c] = now]
      /\ notices' = [notices EXCEPT ![c] = 0]
      /\ SetMax /\ UNCHANGED <<now, knob, heldUntil, lastCut>>
  BY DEF Admit
<1>2. /\ g.turnos \in [Chat -> Seq(Instant)] /\ g.em_corte \subseteq em_corte
      /\ g.bloqueio_ate \in [Chat -> Nat] /\ g.rajadas \in [Chat -> Nat]
      /\ g.ultimo_corte \in [Chat -> Instant \cup {Never}]
      /\ \A d \in Chat : Wiped(c, d, g)
  BY SweptKeeps
<1>3. \A d \in Chat : /\ InOrder(g.turnos[d])
                      /\ \A i \in 1..Len(g.turnos[d]) : g.turnos[d][i] <= lastSeen[d]
                      /\ Since(g.turnos[d], Floor) = recent[d]
  BY SweptTurns
<1>4. /\ fila = recent[c] /\ fila \in Seq(Instant) /\ InOrder(fila)
      /\ \A i \in 1..Len(fila) : fila[i] <= lastSeen[c]
      /\ Since(fila, Floor) = fila
  BY PrunedTurns
<1>5. max' \in Nat \ {0} /\ declared' \in BOOLEAN
  BY <1>1, CeilingType DEF IInv
<1> HIDE DEF g, fila
<1>6. CadenciaTypeOK /\ BackoffInv /\ NoticeInv /\ now \in Instant
  BY DEF IInv, CadenciaTypeOK
<1>7. Floor' = Floor /\ now \in Nat /\ now \in Int /\ Floor \in Int /\ Floor <= now
  BY <1>1, <1>6, FloorInt DEF Floor
<1> DEFINE longer == Append(fila, now)
<1>8. /\ fila \in Seq(Int) /\ \A i \in 1..Len(fila) : fila[i] \in Int
      /\ longer \in Seq(Instant)
  BY <1>4, <1>6, TimesAreInts
<1>9. \A d \in Chat : /\ lastSeen[d] \in Int /\ lastSeen'[d] \in Int
                      /\ lastSeen[d] <= lastSeen'[d] /\ lastSeen'[d] <= now
                      /\ lastSeen[d] # Never => lastSeen'[d] # Never
                      /\ d = c => lastSeen'[d] = now
  <2>1. TAKE d \in Chat
  <2>2. /\ lastSeen[d] \in Int /\ lastSeen[d] <= now /\ Never \in Int /\ Never < 0
    BY <1>6, SeenIsInt DEF BackoffInv
  <2>3. lastSeen'[d] = IF d = c THEN now ELSE lastSeen[d]
    BY <1>1, <1>6 DEF CadenciaTypeOK
  <2>4. QED
    BY <2>2, <2>3, <1>7
<1>10. \A i \in 1..Len(fila) : fila[i] <= now
  <2>1. TAKE i \in 1..Len(fila)
  <2>2. fila[i] \in Int /\ fila[i] <= lastSeen[c]
    BY <1>4, <1>8
  <2>3. lastSeen[c] \in Int /\ lastSeen[c] <= now
    BY <1>6, <1>9 DEF BackoffInv
  <2>4. QED
    BY <2>2, <2>3, <1>7
<1>11. /\ InOrder(longer) /\ \A i \in 1..Len(longer) : longer[i] <= now
       /\ Since(longer, Floor) = longer
  <2>1. InOrder(longer) /\ \A i \in 1..Len(longer) : longer[i] <= now
    BY <1>4, <1>7, <1>8, <1>10, AppendInOrder
  <2>2. Since(Append(fila, now), Floor) = Append(Since(fila, Floor), now)
    BY <1>7, <1>8, SinceAppend
  <2>3. QED
    BY <2>1, <2>2, <1>4
<1> HIDE DEF longer
<1>12. /\ turnos' = [g.turnos EXCEPT ![c] = longer]
       /\ recent' = [recent EXCEPT ![c] = longer]
  BY <1>1, <1>4 DEF longer
<1>13. CadenciaTypeOK'
  <2>1. turnos' \in [Chat -> Seq(Instant)] /\ recent' \in [Chat -> Seq(Instant)]
    BY <1>2, <1>6, <1>8, <1>12 DEF CadenciaTypeOK
  <2>2. rajadas' \in [Chat -> Nat] /\ bloqueio_ate' \in [Chat -> Nat]
    BY <1>1, <1>2
  <2>3. em_corte' \subseteq Chat /\ ultimo_corte' \in [Chat -> Instant \cup {Never}]
    BY <1>1, <1>2, <1>6 DEF CadenciaTypeOK
  <2>4. lastSeen' \in [Chat -> Instant \cup {Never}] /\ notices' \in [Chat -> Nat]
    BY <1>1, <1>6 DEF CadenciaTypeOK
  <2>5. QED
    BY <1>1, <1>5, <1>6, <2>1, <2>2, <2>3, <2>4 DEF CadenciaTypeOK
<1>14. TurnsInv'
  <2>1. ASSUME NEW d \in Chat
        PROVE  /\ InOrder(turnos'[d])
               /\ \A i \in 1..Len(turnos'[d]) : turnos'[d][i] <= lastSeen'[d]
               /\ Since(turnos'[d], Floor) = recent'[d]
    <3>1. CASE d = c
      <4>1. turnos'[d] = longer /\ recent'[d] = longer /\ lastSeen'[d] = now
        BY <3>1, <1>2, <1>6, <1>9, <1>12 DEF CadenciaTypeOK
      <4>2. QED
        BY <4>1, <1>11
    <3>2. CASE d # c
      <4>1. turnos'[d] = g.turnos[d] /\ recent'[d] = recent[d] /\ lastSeen'[d] = lastSeen[d]
        BY <3>2, <1>1, <1>2, <1>6, <1>12 DEF CadenciaTypeOK
      <4>2. QED
        BY <4>1, <1>3
    <3>3. QED
      BY <3>1, <3>2
  <2>2. QED
    BY <2>1, <1>7 DEF TurnsInv
<1>15. BackoffInv'
  <2>0. LongestBackoff \in Nat
    BY BackoffBounded
  <2>1. ASSUME NEW d \in Chat
        PROVE  /\ lastSeen'[d] <= now
               /\ heldUntil[d] <= bloqueio_ate'[d] \/ heldUntil[d] <= now
               /\ bloqueio_ate'[d] # 0 =>
                    lastSeen'[d] # Never /\ bloqueio_ate'[d] <= lastSeen'[d] + LongestBackoff
    <3>1. /\ heldUntil[d] <= bloqueio_ate[d] \/ heldUntil[d] <= now
          /\ bloqueio_ate[d] # 0 =>
               lastSeen[d] # Never /\ bloqueio_ate[d] <= lastSeen[d] + LongestBackoff
      BY <1>6 DEF BackoffInv
    <3>2. heldUntil[d] \in Nat /\ bloqueio_ate[d] \in Nat /\ g.bloqueio_ate[d] \in Nat
      BY <1>2, <1>6 DEF CadenciaTypeOK
    <3>3. g.bloqueio_ate[d] = bloqueio_ate[d] \/ (g.bloqueio_ate[d] = 0 /\ bloqueio_ate[d] <= now)
      BY <1>2 DEF Wiped
    <3>4. CASE forgiven /\ d = c
      <4>1. bloqueio_ate'[d] = 0
        BY <3>4, <1>1, <1>2
      <4>2. QED
        BY <4>1, <3>1, <3>2, <3>3, <3>4, <1>1, <1>7, <1>9
    <3>5. CASE ~(forgiven /\ d = c)
      <4>1. bloqueio_ate'[d] = g.bloqueio_ate[d]
        BY <3>5, <1>1, <1>2
      <4>2. QED
        BY <4>1, <3>1, <3>2, <3>3, <2>0, <1>7, <1>9
    <3>6. QED
      BY <3>4, <3>5
  <2>2. LongestBackoff' = LongestBackoff
    BY DEF LongestBackoff, Doubling
  <2>3. QED
    BY <1>1, <2>1, <2>2 DEF BackoffInv
<1>16. NoticeInv'
  <2>1. ASSUME NEW d \in Chat
        PROVE  notices'[d] = 0 \/ (notices'[d] = 1 /\ (d \in em_corte' \/ recent'[d] = <<>>))
    <3>1. CASE d = c
      BY <3>1, <1>1, <1>6 DEF CadenciaTypeOK
    <3>2. CASE d # c
      <4>1. notices'[d] = notices[d] /\ recent'[d] = recent[d]
        BY <3>2, <1>1, <1>6 DEF CadenciaTypeOK
      <4>2. QED
        BY <4>1, <3>2, <1>1, <1>2, <1>6 DEF NoticeInv, Wiped
    <3>3. QED
      BY <3>1, <3>2
  <2>2. QED
    BY <2>1 DEF NoticeInv
<1>17. QED
  BY <1>13, <1>14, <1>15, <1>16 DEF IInv

(* So does the clock, which shrinks the window.                            *)
LEMMA TickStep ==
  ASSUME IInv, Tick
  PROVE  IInv'
<1>1. /\ now < MaxTime /\ now' = now + 1
      /\ recent' = [c \in Chat |-> Since(recent[c], now' - Window + 1)]
      /\ UNCHANGED <<knob, max, declared, turnos, em_corte, bloqueio_ate, rajadas,
                     ultimo_corte, heldUntil, lastSeen, lastCut, notices>>
  BY DEF Tick, guard
<1>2. CadenciaTypeOK /\ TurnsInv /\ BackoffInv /\ NoticeInv
  BY DEF IInv
<1>3. /\ now \in Nat /\ Floor \in Int /\ Floor' = Floor + 1 /\ Floor' \in Int
      /\ Floor <= Floor' /\ now' \in Instant /\ Floor' = now' - Window + 1
  <2>1. now \in Nat /\ Window \in Nat /\ MaxTime \in Nat
    BY <1>2, FloorInt
  <2>2. QED
    BY <2>1, <1>1 DEF Floor, Instant
<1>4. ASSUME NEW c \in Chat
      PROVE  /\ recent'[c] = Since(recent[c], Floor')
             /\ recent'[c] \in Seq(Instant)
             /\ recent'[c] = Since(turnos[c], Floor')
             /\ recent[c] = <<>> => recent'[c] = <<>>
  <2>1. recent'[c] = Since(recent[c], Floor')
    BY <1>1, <1>3
  <2>2. recent[c] \in Seq(Instant) /\ turnos[c] \in Seq(Int) /\ recent[c] \in Seq(Int)
    BY <1>2, TimesAreInts DEF CadenciaTypeOK
  <2>3. recent'[c] \in Seq(Instant)
    BY <2>1, <2>2, <1>3, SinceInstants
  <2>4. recent[c] = Since(turnos[c], Floor)
    BY <1>2 DEF TurnsInv
  <2>5. Since(Since(turnos[c], Floor), Floor') = Since(turnos[c], Floor')
    BY <2>2, <1>3, SinceSince
  <2>6. recent[c] = <<>> => Since(recent[c], Floor') = <<>>
    <3>1. HAVE recent[c] = <<>>
    <3> DEFINE times == recent[c]
    <3>2. times \in Seq(Int) /\ Len(times) = 0
      BY <3>1, <2>2, EmptySeq
    <3> HIDE DEF times
    <3>3. \A i \in 1..Len(times) : times[i] < Floor'
      BY <3>2
    <3>4. Since(times, Floor') = <<>>
      BY <3>2, <3>3, <1>3, SinceAllOld
    <3>5. QED
      BY <3>4 DEF times
  <2>7. QED
    BY <2>1, <2>3, <2>4, <2>5, <2>6
<1>5. CadenciaTypeOK'
  <2>1. recent' \in [Chat -> Seq(Instant)]
    BY <1>1, <1>4
  <2>2. QED
    BY <2>1, <1>1, <1>2, <1>3 DEF CadenciaTypeOK
<1>6. TurnsInv'
  BY <1>1, <1>2, <1>4 DEF TurnsInv
<1>7. BackoffInv'
  <2>1. ASSUME NEW c \in Chat
        PROVE  /\ lastSeen[c] <= now'
               /\ heldUntil[c] <= bloqueio_ate[c] \/ heldUntil[c] <= now'
    BY <1>1, <1>2, <1>3, SeenIsInt DEF BackoffInv, CadenciaTypeOK
  <2>2. LongestBackoff' = LongestBackoff
    BY DEF LongestBackoff, Doubling
  <2>3. QED
    BY <1>1, <1>2, <2>1, <2>2 DEF BackoffInv
<1>8. NoticeInv'
  BY <1>1, <1>2, <1>4 DEF NoticeInv
<1>9. QED
  BY <1>5, <1>6, <1>7, <1>8 DEF IInv

(* Every guard starts in the invariant,                                    *)
LEMMA InitIInv ==
  ASSUME CadenciaInit
  PROVE  IInv
<1>1. CadenciaTypeOK
  <2>1. /\ turnos \in [Chat -> Seq(Instant)] /\ recent \in [Chat -> Seq(Instant)]
    <3>1. <<>> \in Seq(Instant)
      OBVIOUS
    <3>2. QED
      BY <3>1 DEF CadenciaInit
  <2>2. 0 \in Instant
    BY CadenciaAssumption DEF Instant
  <2>3. /\ bloqueio_ate \in [Chat -> Nat] /\ rajadas \in [Chat -> Nat]
        /\ heldUntil \in [Chat -> Nat] /\ notices \in [Chat -> Nat]
        /\ ultimo_corte \in [Chat -> Instant \cup {Never}]
        /\ lastSeen \in [Chat -> Instant \cup {Never}]
        /\ lastCut \in [Chat -> Instant \cup {Never}]
    BY DEF CadenciaInit
  <2>4. QED
    BY <2>1, <2>2, <2>3, CadenciaAssumption DEF CadenciaInit, CadenciaTypeOK
<1>2. Floor \in Int /\ now = 0
  BY <1>1, FloorInt DEF CadenciaInit
<1>3. Since(<<>>, Floor) = <<>>
  <2> DEFINE none == <<>>
  <2>1. none \in Seq(Int) /\ Len(none) = 0
    BY EmptySeq
  <2> HIDE DEF none
  <2>2. \A i \in 1..Len(none) : none[i] < Floor
    BY <2>1
  <2>3. Since(none, Floor) = <<>>
    BY <2>1, <2>2, <1>2, SinceAllOld
  <2>4. QED
    BY <2>3 DEF none
<1>4. TurnsInv
  <2>1. ASSUME NEW c \in Chat
        PROVE  turnos[c] = <<>> /\ recent[c] = <<>> /\ Len(turnos[c]) = 0
    BY EmptySeq DEF CadenciaInit
  <2>2. ASSUME NEW c \in Chat
        PROVE  /\ InOrder(turnos[c])
               /\ \A i \in 1..Len(turnos[c]) : turnos[c][i] <= lastSeen[c]
    BY <2>1 DEF InOrder
  <2>3. QED
    BY <2>1, <2>2, <1>3 DEF TurnsInv
<1>5. BackoffInv
  BY <1>2 DEF CadenciaInit, BackoffInv, Never
<1>6. NoticeInv
  BY DEF CadenciaInit, NoticeInv
<1>7. QED
  BY <1>1, <1>4, <1>5, <1>6 DEF IInv

(* and every step keeps it.                                                *)
LEMMA NextIInv ==
  ASSUME IInv, [CadenciaNext]_cadenciaVars
  PROVE  IInv'
<1>1. ASSUME NEW c \in Chat, CutByBackoff(c) PROVE IInv'
  BY <1>1, CutByBackoffStep
<1>2. ASSUME NEW c \in Chat, NEW suspect \in BOOLEAN, CutByCeiling(c, suspect)
      PROVE  IInv'
  BY <1>2, CutByCeilingStep
<1>3. ASSUME NEW c \in Chat, NEW suspect \in BOOLEAN, Admit(c, suspect)
      PROVE  IInv'
  BY <1>3, AdmitStep
<1>4. CASE (\E k \in Knobs : Reload(k)) \/ UNCHANGED cadenciaVars
  <2>1. knob' \in Knobs /\ UNCHANGED <<now, guard, seen>>
    BY <1>4 DEF IInv, CadenciaTypeOK, Reload, cadenciaVars
  <2>2. Floor' = Floor /\ LongestBackoff' = LongestBackoff
    BY <2>1 DEF Floor, LongestBackoff, Doubling
  <2>3. CadenciaTypeOK'
    BY <2>1 DEF IInv, CadenciaTypeOK, guard, seen
  <2>4. TurnsInv' /\ BackoffInv' /\ NoticeInv'
    BY <2>1, <2>2 DEF IInv, TurnsInv, BackoffInv, NoticeInv, guard, seen
  <2>5. QED
    BY <2>3, <2>4 DEF IInv
<1>5. CASE Tick
  BY <1>5, TickStep
<1>6. QED
  BY <1>1, <1>2, <1>3, <1>4, <1>5 DEF CadenciaNext

(* The queues, the maps and the ceiling of the guard are well formed in    *)
(* every reachable state, and the ceiling is never zero, for any sets of   *)
(* chats, any window, any ceilings and any bound on the clock              *)
(* (CadenciaGuard::admitir, set_max and varrer).                           *)
THEOREM GuardTypeCorrect == CadenciaSpec => []CadenciaTypeOK
<1>1. IInv => CadenciaTypeOK
  BY DEF IInv
<1>2. QED
  BY <1>1, InitIInv, NextIInv, PTL DEF CadenciaSpec

(* Between two admitted turns of a chat at most one notice is sent to it,  *)
(* whatever is swept and however the ceiling changes: a chat that is swept *)
(* while it is cut has no turn left in the window, so its next message is  *)
(* admitted (admitir, l. 212-234).                                         *)
THEOREM NoticeSentOnce == CadenciaSpec => []NoticeOnce
<1>1. IInv => NoticeOnce
  BY DEF IInv, NoticeInv, NoticeOnce
<1>2. QED
  BY <1>1, InitIInv, NextIInv, PTL DEF CadenciaSpec

(* Only the admission of a message of a chat adds a turn to it,            *)
LEMMA AdmittedByAdmit ==
  ASSUME IInv, [CadenciaNext]_cadenciaVars, NEW c \in Chat, Admitted(c)
  PROVE  \E suspect \in BOOLEAN : Admit(c, suspect)
<1>0. recent \in [Chat -> Seq(Instant)] /\ recent[c] \in Seq(Int) /\ Len(recent[c]) \in Nat
  BY TimesAreInts, LenProperties DEF IInv, CadenciaTypeOK
<1>1. recent'[c] # recent[c]
  BY <1>0 DEF Admitted
<1>2. ASSUME NEW d \in Chat, NEW suspect \in BOOLEAN, Admit(d, suspect)
      PROVE  d = c
  <2>1. recent' = [recent EXCEPT ![d] = Append(recent[d], now)]
    BY <1>2 DEF Admit
  <2>2. QED
    BY <2>1, <1>0, <1>1
<1>3. ~Tick
  <2>1. SUFFICES ASSUME Tick PROVE FALSE
    OBVIOUS
  <2>2. recent'[c] = Since(recent[c], now' - Window + 1) /\ now' = now + 1
    BY <2>1 DEF Tick
  <2>3. now' - Window + 1 \in Int
    BY <2>2, FloorInt DEF IInv
  <2>4. PICK d \in Nat : Len(recent'[c]) = Len(recent[c]) - d
    BY <2>2, <2>3, <1>0, SinceType
  <2>5. QED
    BY <2>4, <1>0 DEF Admitted
<1>4. ~UNCHANGED recent
  BY <1>1
<1>5. QED
  BY <1>2, <1>3, <1>4 DEF CadenciaNext, CutByBackoff, CutByCeiling, ObserveCut, Reload, cadenciaVars, seen

(* and only the cut of one counts as a cut.                                *)
LEMMA CutsAreCuts ==
  ASSUME IInv, [CadenciaNext]_cadenciaVars, NEW c \in Chat,
         lastCut'[c] = now, lastCut[c] # now
  PROVE  CutByBackoff(c) \/ \E suspect \in BOOLEAN : CutByCeiling(c, suspect)
<1>0. lastCut'[c] # lastCut[c]
  OBVIOUS
<1>1. ASSUME NEW d \in Chat, lastCut' = [lastCut EXCEPT ![d] = now]
      PROVE  d = c
  BY <1>0, <1>1 DEF IInv, CadenciaTypeOK
<1>2. ~UNCHANGED lastCut
  BY <1>0
<1>3. ASSUME NEW d \in Chat, CutByBackoff(d)
      PROVE  d = c
  BY <1>1, <1>3 DEF CutByBackoff, ObserveCut
<1>4. ASSUME NEW d \in Chat, NEW suspect \in BOOLEAN, CutByCeiling(d, suspect)
      PROVE  d = c
  BY <1>1, <1>4 DEF CutByCeiling, ObserveCut
<1>5. QED
  BY <1>2, <1>3, <1>4 DEF CadenciaNext, Admit, Reload, Tick, cadenciaVars, seen

(* The turns admitted in the last window never exceed the ceiling in       *)
(* force: the queue a message is judged by holds every turn of the window, *)
(* because pruning and sweeping drop older ones only (admitir, l.          *)
(* 200-210).                                                               *)
THEOREM CeilingAlwaysHolds == CadenciaSpec => CeilingHolds
<1>1. ASSUME IInv, [CadenciaNext]_cadenciaVars, NEW c \in Chat, Admitted(c)
      PROVE  Len(recent[c]) < max'
  <2>1. PICK suspect \in BOOLEAN : Admit(c, suspect)
    BY <1>1, AdmittedByAdmit
  <2>2. SetMax /\ Len(InWindow(Swept(c).turnos[c])) < Limit(suspect)
    BY <2>1 DEF Admit
  <2>3. InWindow(Swept(c).turnos[c]) = recent[c]
    BY <1>1, PrunedTurns
  <2>4. /\ Limit(suspect) \in Nat /\ max' \in Nat /\ Limit(suspect) <= max'
        /\ Len(recent[c]) \in Nat
    BY <1>1, <2>2, CeilingType, LenProperties DEF IInv, CadenciaTypeOK
  <2>5. QED
    BY <2>2, <2>3, <2>4
<1>2. IInv /\ [CadenciaNext]_cadenciaVars
        => [\A c \in Chat : Admitted(c) => Len(recent[c]) < max']_cadenciaVars
  BY <1>1
<1>3. QED
  BY <1>2, InitIInv, NextIInv, PTL DEF CadenciaSpec, CeilingHolds

(* A chat that was given a backoff has no turn admitted before its end: a  *)
(* sweep keeps a backoff under way, and only an admission forgives it      *)
(* (admitir, l. 191-199).                                                  *)
THEOREM BackoffAlwaysServed == CadenciaSpec => BackoffServed
<1>1. ASSUME IInv, [CadenciaNext]_cadenciaVars, NEW c \in Chat, Admitted(c)
      PROVE  now >= heldUntil[c]
  <2>1. PICK suspect \in BOOLEAN : Admit(c, suspect)
    BY <1>1, AdmittedByAdmit
  <2>2. now >= Swept(c).bloqueio_ate[c]
    BY <2>1 DEF Admit
  <2>3. Wiped(c, c, Swept(c)) /\ Swept(c).bloqueio_ate \in [Chat -> Nat]
    BY <1>1, SweptKeeps
  <2>4. now >= bloqueio_ate[c]
    <3>1. bloqueio_ate[c] \in Nat /\ now \in Nat
      BY <1>1, FloorInt DEF IInv, CadenciaTypeOK
    <3>2. QED
      BY <2>2, <2>3, <3>1 DEF Wiped
  <2>5. heldUntil[c] <= bloqueio_ate[c] \/ heldUntil[c] <= now
    BY <1>1 DEF IInv, BackoffInv
  <2>6. heldUntil[c] \in Nat /\ bloqueio_ate[c] \in Nat /\ now \in Nat
    BY <1>1, FloorInt DEF IInv, CadenciaTypeOK
  <2>7. QED
    BY <2>4, <2>5, <2>6
<1>2. IInv /\ [CadenciaNext]_cadenciaVars
        => [\A c \in Chat : Admitted(c) => now >= heldUntil[c]]_cadenciaVars
  BY <1>1
<1>3. QED
  BY <1>2, InitIInv, NextIInv, PTL DEF CadenciaSpec, BackoffServed

(* A chat that sends nothing for as long as the longest backoff is not cut *)
(* at its next message: a backoff starts at a message, and no turn of the  *)
(* window is later than the last message (admitir, l. 191-234).            *)
THEOREM QuietChatAlwaysReturns == CadenciaSpec => QuietChatReturns
<1>1. ASSUME IInv, NEW c \in Chat, CutByBackoff(c), lastSeen[c] # Never
      PROVE  now - lastSeen[c] < LongestBackoff
  <2>1. now < Swept(c).bloqueio_ate[c]
    BY <1>1 DEF CutByBackoff
  <2>2. Wiped(c, c, Swept(c)) /\ bloqueio_ate[c] \in Nat /\ now \in Nat /\ lastSeen[c] \in Int
    BY <1>1, SweptKeeps, SeenIsInt, FloorInt DEF IInv, CadenciaTypeOK
  <2>3. now < bloqueio_ate[c]
    BY <2>1, <2>2 DEF Wiped
  <2>4. bloqueio_ate[c] <= lastSeen[c] + LongestBackoff /\ LongestBackoff \in Nat
    BY <1>1, <2>2, <2>3, BackoffBounded DEF IInv, BackoffInv
  <2>5. QED
    BY <2>2, <2>3, <2>4
<1>2. ASSUME IInv, NEW c \in Chat, NEW suspect \in BOOLEAN, CutByCeiling(c, suspect)
      PROVE  now - lastSeen[c] < LongestBackoff
  <2> DEFINE times == turnos[c]
  <2>1. Len(InWindow(Swept(c).turnos[c])) >= Limit(suspect) /\ SetMax
    BY <1>2 DEF CutByCeiling
  <2>2. InWindow(Swept(c).turnos[c]) = recent[c] /\ Limit(suspect) \in Nat \ {0}
    BY <1>2, <2>1, PrunedTurns, CeilingType DEF IInv
  <2>3. recent[c] # <<>>
    BY <2>1, <2>2, EmptySeq
  <2>4. /\ times \in Seq(Int) /\ Since(times, Floor) = recent[c]
        /\ \A i \in 1..Len(times) : times[i] <= lastSeen[c]
    BY <1>2, TimesAreInts DEF IInv, CadenciaTypeOK, TurnsInv
  <2>5. Floor \in Int /\ now \in Nat /\ Window \in Nat /\ lastSeen[c] \in Int
    BY <1>2, FloorInt, SeenIsInt DEF IInv
  <2> HIDE DEF times
  <2>6. PICK i \in 1..Len(times) : times[i] >= Floor
    BY <2>3, <2>4, <2>5, SinceIsRecent
  <2>7. times[i] \in Int /\ times[i] <= lastSeen[c]
    BY <2>4
  <2>8. LongestBackoff \in Nat /\ Window <= LongestBackoff
    BY BackoffBounded
  <2>9. QED
    BY <2>5, <2>6, <2>7, <2>8 DEF Floor
<1>3. ASSUME IInv, [CadenciaNext]_cadenciaVars, NEW c \in Chat,
             lastCut'[c] = now, lastCut[c] # now, lastSeen[c] # Never
      PROVE  now - lastSeen[c] < LongestBackoff
  BY <1>1, <1>2, <1>3, CutsAreCuts
<1>4. IInv /\ [CadenciaNext]_cadenciaVars
        => [\A c \in Chat :
              lastCut'[c] = now /\ lastCut[c] # now /\ lastSeen[c] # Never
                => now - lastSeen[c] < LongestBackoff]_cadenciaVars
  BY <1>3
<1>5. QED
  BY <1>4, InitIInv, NextIInv, PTL DEF CadenciaSpec, QuietChatReturns

===============================================================================
